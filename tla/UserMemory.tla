----------------------------- MODULE UserMemory -----------------------------
(***************************************************************************)
(* The memory of korix's user processes: the calls of                      *)
(* apps/korix/src/syscall/mod.rs that change an address space (brk, mmap,  *)
(* munmap, mprotect, mremap, fork and execve, and the copies to user       *)
(* memory), for processes on several processors that share the frames.     *)
(***************************************************************************)
EXTENDS AddressSpace

CONSTANTS BrkBase, MmapBase,     \* layout.rs
          Images,                \* programs to execute
          Ranges,                \* the ranges calls are made with
          Flags,                 \* the permissions they ask for
          Programs               \* what the processes may call: functions from Pid to sets
                                 \* of call names

VARIABLES mem,      \* the frames, see PageTable
          space,    \* process -> its AddressSpace
          brk, mmapNext,
          op,       \* process -> the unmapping or replacement of a range it is inside of
          ended,    \* processes that have exited
          program,  \* the element of Programs that runs
          gone,     \* history: process -> pages that a call which failed left in the map only
          view      \* history: process -> for each of its pages, whose bytes it must show

vars == <<mem, space, brk, mmapNext, op, ended, program, gone, view>>

Pid     == 1..MaxPid
NoSpace == [root |-> 0, pages |-> NoPages]
NoOp    == [kind |-> "none"]
Sources == {"anonymous", "file", "unreadable"}
Ops     == [kind : {"remove", "replace", "protect"}, phase : {"unmap", "map", "undo", "restore"},
            first : Page, last : Page, todo : SUBSET Page,
            at : Page, level : 0..(Levels - 1),     \* the entry that is to be cleared, if any
            flags : SUBSET Flag, fresh : Seq(Frame), source : Sources]

Lives(p) == space[p].root # 0 /\ p \notin ended
Ready(p) == Lives(p) /\ op[p] = NoOp

TypeOK ==
  /\ mem \in Memory
  /\ \A p \in Pid :
       \/ space[p] = NoSpace
       \/ /\ space[p].root \in Frame /\ DOMAIN space[p].pages \subseteq Page
          /\ Range(space[p].pages) \subseteq VmPage
  /\ brk \in [Pid -> Nat] /\ mmapNext \in [Pid -> Nat]
  /\ \A p \in Pid : op[p] = NoOp \/ op[p] \in Ops
  /\ ended \subseteq Pid /\ program \in Programs
  /\ \A p \in Pid : gone[p] \subseteq Page /\ DOMAIN view[p] = DOMAIN space[p].pages

FreshMemory == [free |-> Frame, table |-> [f \in Frame |-> EmptyTable],
                status |-> [f \in Frame |-> NoStatus], data |-> [f \in Frame |-> 0]]

\* run_init_process: process 1 has a program, nothing else has happened.
Init ==
  /\ \E image \in Images :
       LET st == LoadProgram(Empty(FreshMemory), image, Max(Stack), 1) IN
       /\ mem = st.m
       /\ space = [p \in Pid |-> IF p = 1 THEN st.s ELSE NoSpace]
       /\ view = [p \in Pid |-> IF p = 1 THEN [va \in DOMAIN st.s.pages |-> 1] ELSE NoPages]
  /\ brk = [p \in Pid |-> BrkBase]
  /\ mmapNext = [p \in Pid |-> MmapBase]
  /\ op = [p \in Pid |-> NoOp]
  /\ ended = {}
  /\ program \in Programs
  /\ gone = [p \in Pid |-> {}]

----------------------------------------------------------------------------
\* The space of p is that of st.  Some pages show what `shows` says, the others what they
\* did, and new ones zeros.
Stay(p, st, shows) ==
  /\ mem' = st.m /\ space' = [space EXCEPT ![p] = st.s]
  /\ view' = [view EXCEPT ![p] = [va \in DOMAIN st.s.pages |->
                (shows @@ @ @@ [x \in Page |-> 0])[va]]]

Here(p) == [result |-> "ok", m |-> mem, s |-> space[p]]

\* sys_brk: pages that are mapped already are taken as they are; when one cannot be had
\* the ones before it stay.
Brk(p, addr) ==
  LET st == MapAll(Here(p), {va \in brk[p]..(addr - 1) : ~IsMapped(space[p], va)}, {"R", "W"}) IN
  /\ Ready(p) /\ addr > brk[p] /\ addr - 1 \in Page
  /\ Stay(p, st, NoPages)
  /\ brk' = [brk EXCEPT ![p] = IF st.result = "ok" THEN addr ELSE @]
  /\ UNCHANGED <<mmapNext, op, ended, gone>>

\* The start of unmap_range, replace_zeroed or protect_range on a space s.
Started(s, kind, first, last, flags, fresh, source) ==
  [kind |-> kind, phase |-> "unmap", first |-> first, last |-> last,
   todo |-> (first..last) \cap DOMAIN s.pages, at |-> first, level |-> 0,
   flags |-> flags, fresh |-> fresh, source |-> source]
Removal(s, first, last) == Started(s, "remove", first, last, {}, <<>>, "anonymous")

\* The end of sys_mmap and sys_mremap for pages that are mapped in st: the bytes of the file
\* if there is one; when something failed the pages are unmapped again.
Backed(p, st, first, last, source) ==
  LET filled == IF source = "file" THEN Populate(st, first, last, p) ELSE st
      failed == st.result # "ok" \/ source = "unreadable"
  IN /\ Stay(p, IF failed THEN st ELSE filled,
             [va \in first..last |-> IF source = "file" /\ ~failed THEN p ELSE 0])
     /\ op' = [op EXCEPT ![p] = IF failed THEN Removal(st.s, first, last) ELSE NoOp]

\* sys_mmap without MAP_FIXED: the first free range from mmap_next on.  A range that
\* would end past the user half is never free.
Mmap(p, len, flags, source) ==
  /\ Ready(p)
  /\ \E first \in Page :
       LET last == first + len - 1 IN
       /\ first >= mmapNext[p] /\ RangeIsFree(space[p], first, last)
       /\ \A lower \in mmapNext[p]..(first - 1) : ~RangeIsFree(space[p], lower, lower + len - 1)
       /\ mmapNext' = [mmapNext EXCEPT ![p] = first + len]
       /\ Backed(p, MapAll(Here(p), first..last, flags), first, last, source)
  /\ UNCHANGED <<brk, ended, gone>>

\* sys_munmap
Munmap(p, first, last) ==
  /\ Ready(p)
  /\ op' = [op EXCEPT ![p] = Removal(space[p], first, last)]
  /\ UNCHANGED <<mem, space, view, brk, mmapNext, ended, gone>>

\* sys_mremap: a mapping grows where it is, or not at all.
Mremap(p, first, last) ==
  /\ Ready(p) /\ RangeIsFree(space[p], first, last)
  /\ Backed(p, MapAll(Here(p), first..last, {"R", "W"}), first, last, "anonymous")
  /\ UNCHANGED <<brk, mmapNext, ended, gone>>

----------------------------------------------------------------------------
(* unmap_range, and sys_mmap with MAP_FIXED (replace_zeroed) and           *)
(* sys_mprotect (protect_range), page by page.                             *)

\* replace_zeroed takes all the frames it needs first; without enough it gives back
\* those it has, and nothing has changed.
MmapFixed(p, first, last, flags, source) ==
  LET n == last - first + 1 IN
  /\ Ready(p) /\ Cardinality(mem.free) >= n
  /\ LET fresh == SubSeq(Ascending(mem.free), 1, n) IN
     /\ op' = [op EXCEPT ![p] = Started(space[p], "replace", first, last, flags, fresh, source)]
     /\ mem' = [mem EXCEPT !.free = @ \ Range(fresh)]
  /\ UNCHANGED <<space, view, brk, mmapNext, ended, gone>>

\* protect_range needs every page of the range.
Mprotect(p, first, last, flags) ==
  /\ Ready(p) /\ \A va \in first..last : IsMapped(space[p], va)
  /\ op' = [op EXCEPT ![p] = Started(space[p], "protect", first, last, flags, <<>>, "anonymous")]
  /\ UNCHANGED <<mem, space, view, brk, mmapNext, ended, gone>>

OpPages(p) == IF op[p] = NoOp THEN {} ELSE op[p].first..op[p].last
OpOld(p)   == OpPages(p) \cap DOMAIN space[p].pages
At(p, phases) == op[p] # NoOp /\ op[p].phase \in phases /\ op[p].level = 0
Page1(p) == Min(op[p].todo)      \* the page whose turn it is

\* A page leaves the tables, of the old ones or, in a rollback, of the new ones.  A page the
\* tables do not know ends the call, and what was unmapped stays so; a rollback ignores it.
OpUnmap(p) ==
  LET u == UnmapLeaf(mem, space[p].root, Page1(p)) IN
  /\ At(p, {"unmap", "undo"}) /\ op[p].todo # {}
  /\ mem' = u.m
  /\ IF u.result = "ok" \/ op[p].phase = "undo"
     THEN /\ op' = [op EXCEPT ![p].todo = @ \ {Page1(p)}, ![p].at = Page1(p), ![p].level = u.level]
          /\ UNCHANGED gone
     ELSE /\ op' = [op EXCEPT ![p] = NoOp]
          /\ gone' = [gone EXCEPT ![p] = @ \cup (OpOld(p) \ op[p].todo)]
  /\ UNCHANGED <<space, view, brk, mmapNext, ended>>

\* A table page was emptied and freed: its entry is cleared.
OpClear(p) ==
  /\ op[p] # NoOp /\ op[p].level > 0
  /\ LET c == ClearEntry(mem, space[p].root, op[p].at, op[p].level) IN
     /\ mem' = c.m
     /\ op' = [op EXCEPT ![p].level = c.level]
  /\ UNCHANGED <<space, view, brk, mmapNext, ended, gone>>

\* The end of unmap_range: frames and map entries go when every page is out of the tables.
OpRemoved(p) ==
  /\ At(p, {"unmap"}) /\ op[p].todo = {} /\ op[p].kind = "remove"
  /\ Stay(p, [m |-> FreeFrames(mem, {space[p].pages[va].phys : va \in OpOld(p)}),
              s |-> WithoutPages(space[p], OpOld(p))], NoPages)
  /\ op' = [op EXCEPT ![p] = NoOp]
  /\ gone' = [gone EXCEPT ![p] = @ \ OpPages(p)]
  /\ UNCHANGED <<brk, mmapNext, ended>>

\* The pages are out: the new ones, or in a rollback the old ones, go in.
OpTurn(p) ==
  /\ At(p, {"unmap", "undo"}) /\ op[p].todo = {} /\ op[p].kind # "remove"
  /\ op' = [op EXCEPT ![p].phase = IF @ = "unmap" THEN "map" ELSE "restore",
                      ![p].todo = IF op[p].phase = "unmap" THEN OpPages(p) ELSE OpOld(p)]
  /\ UNCHANGED <<mem, space, view, brk, mmapNext, ended, gone>>

\* The frame that page va of the range gets.
OpFrame(p, va) ==
  IF op[p].kind = "replace" THEN op[p].fresh[va - op[p].first + 1] ELSE space[p].pages[va].phys

\* A slip: a fresh frame keeps what it held.
OpFilledDirty(p, m) == m

OpFilled(p, m) == IF op[p].kind = "replace" THEN Zeroed(m, OpFrame(p, Page1(p))) ELSE m

\* A slip: the map keeps the permissions of a page it has.
OpFlagsStale(p, va) ==
  IF va \in DOMAIN space[p].pages THEN space[p].pages[va].flags ELSE op[p].flags

OpFlags(p, va) == op[p].flags

\* One page of the range is mapped; when it cannot be, the ones before it go again.
OpMap(p) ==
  LET r == Map(mem, space[p].root, Page1(p), OpFrame(p, Page1(p)), op[p].flags) IN
  /\ At(p, {"map"}) /\ op[p].todo # {}
  /\ \/ /\ r.result = "ok"
        /\ mem' = OpFilled(p, r.m)
        /\ op' = [op EXCEPT ![p].todo = @ \ {Page1(p)}]
     \/ /\ r.result # "ok"
        /\ mem' = r.m
        /\ op' = [op EXCEPT ![p].phase = "undo", ![p].todo = op[p].first..(Page1(p) - 1)]
  /\ UNCHANGED <<space, view, brk, mmapNext, ended, gone>>

\* The map as it is at the end: frames that were replaced are free.
OpDone(p) ==
  LET replaced == op[p].kind = "replace"
      st == [result |-> "ok",
             m |-> IF replaced THEN FreeFrames(mem, {space[p].pages[va].phys : va \in OpOld(p)})
                   ELSE mem,
             s |-> [space[p] EXCEPT !.pages =
                      [va \in OpPages(p) |-> [phys |-> OpFrame(p, va), flags |-> OpFlags(p, va)]] @@ @]]
  IN /\ At(p, {"map"}) /\ op[p].todo = {}
     /\ IF replaced THEN Backed(p, st, op[p].first, op[p].last, op[p].source)
        ELSE Stay(p, st, NoPages) /\ op' = [op EXCEPT ![p] = NoOp]
     /\ gone' = [gone EXCEPT ![p] = @ \ OpPages(p)]
     /\ UNCHANGED <<brk, mmapNext, ended>>

\* An old page goes back in, if a table page for it can be had.
OpRestore(p) ==
  LET page == space[p].pages[Page1(p)]
      r    == Map(mem, space[p].root, Page1(p), page.phys, page.flags)
  IN /\ At(p, {"restore"}) /\ op[p].todo # {}
     /\ mem' = r.m
     /\ op' = [op EXCEPT ![p].todo = @ \ {Page1(p)}]
     /\ gone' = [gone EXCEPT ![p] = IF r.result = "ok" THEN @ \ {Page1(p)} ELSE @ \cup {Page1(p)}]
     /\ UNCHANGED <<space, view, brk, mmapNext, ended>>

\* The call returns its error.  The frames replace_zeroed took are not given back.
OpRestored(p) ==
  /\ At(p, {"restore"}) /\ op[p].todo = {}
  /\ op' = [op EXCEPT ![p] = NoOp]
  /\ UNCHANGED <<mem, space, view, brk, mmapNext, ended, gone>>

----------------------------------------------------------------------------
\* The address space half of sys_clone: a full copy, or none.
Fork(p, q) ==
  LET st == ForkSpace(mem, space[p]) IN
  /\ Ready(p) /\ space[q] = NoSpace /\ q > 1 /\ (q - 1) \in DOMAIN space /\ space[q - 1] # NoSpace
  /\ mem.free # {}
  /\ IF st.result = "ok"
     THEN /\ mem' = st.m
          /\ space' = [space EXCEPT ![q] = st.s]
          /\ view' = [view EXCEPT ![q] = view[p]]
          /\ brk' = [brk EXCEPT ![q] = brk[p]]
          /\ mmapNext' = [mmapNext EXCEPT ![q] = mmapNext[p]]
     ELSE /\ mem' = Destroy(st.m, st.s.root)
          /\ UNCHANGED <<space, view, brk, mmapNext>>
  /\ UNCHANGED <<op, ended, gone>>

\* sys_execve: a new space is loaded while the old one stays; then the old one is
\* destroyed.  A failed load destroys the new one.
Execve(p, image, low) ==
  LET st == LoadProgram(Empty(mem), image, low, p) IN
  /\ Ready(p) /\ mem.free # {}
  /\ IF st.result = "ok"
     THEN /\ mem' = Destroy(st.m, space[p].root)
          /\ space' = [space EXCEPT ![p] = st.s]
          /\ view' = [view EXCEPT ![p] = [va \in DOMAIN st.s.pages |->
                         IF va \in Stack /\ va < low THEN 0 ELSE p]]
          /\ gone' = [gone EXCEPT ![p] = {}]
          /\ brk' = [brk EXCEPT ![p] = BrkBase]
          /\ mmapNext' = [mmapNext EXCEPT ![p] = MmapBase]
     ELSE /\ mem' = Destroy(st.m, st.s.root)
          /\ UNCHANGED <<space, view, gone, brk, mmapNext>>
  /\ UNCHANGED <<op, ended>>

\* sys_exit: exit_current never returns, so its reference to the process keeps the
\* address space.
Exit(p) ==
  /\ Ready(p) /\ p # 1
  /\ ended' = ended \cup {p}
  /\ UNCHANGED <<mem, space, view, gone, brk, mmapNext, op>>

\* The process, or copy_to_user for it, writes a page.
Write(p, va) ==
  /\ Ready(p) /\ ValidateRange(space[p], va, va, TRUE)
  /\ Stay(p, WriteBytes(Here(p), va, va, p), [x \in {va} |-> p])
  /\ UNCHANGED <<brk, mmapNext, op, ended, gone>>

Call(p, c) ==
  \/ c = "brk" /\ \E addr \in (brk[p] + 1)..(BrkBase + 2) : Brk(p, addr)
  \/ c = "mmap" /\ \E len \in 1..2, flags \in Flags, source \in Sources : Mmap(p, len, flags, source)
  \/ c = "munmap" /\ \E r \in Ranges : Munmap(p, r[1], r[2])
  \/ c = "mremap" /\ \E r \in Ranges : Mremap(p, r[1], r[2])
  \/ c = "fixed" /\ \E r \in Ranges, flags \in Flags, source \in Sources : MmapFixed(p, r[1], r[2], flags, source)
  \/ c = "mprotect" /\ \E r \in Ranges, flags \in Flags : Mprotect(p, r[1], r[2], flags)
  \/ c = "fork" /\ \E q \in Pid : Fork(p, q)
  \/ c = "execve" /\ \E image \in Images, low \in {Max(Stack), Min(Stack) - 1} : Execve(p, image, low)
  \/ c = "write" /\ \E va \in Page : Write(p, va)
  \/ c = "exit" /\ Exit(p)

Step(p) ==
  \/ \E c \in program[p] : Call(p, c)
  \/ OpUnmap(p) \/ OpClear(p) \/ OpRemoved(p) \/ OpTurn(p)
  \/ OpMap(p) \/ OpDone(p) \/ OpRestore(p) \/ OpRestored(p)

Next == (\E p \in Pid : Step(p)) /\ UNCHANGED program

Spec == Init /\ [][Next]_vars
----------------------------------------------------------------------------
\* The memory without the entry of a table page that p has freed and is about to clear.
Settled(p) ==
  IF op[p] = NoOp \/ op[p].level = 0 THEN mem
  ELSE WithoutEntry(mem, space[p].root, op[p].at, op[p].level)
Tables(p) == TablePages(Settled(p), space[p].root, Levels - 1)
Data(p)   == {space[p].pages[va].phys : va \in DOMAIN space[p].pages}
Fresh(p)  == IF op[p] = NoOp THEN {} ELSE Range(op[p].fresh)
Users     == {p \in Pid : space[p].root # 0}
Live      == {p \in Pid : Lives(p)}

\* A frame has one use: it is free, or a table page of one process, or behind one page of
\* one process, or about to be (replace_zeroed's fresh frames).  Whatever fails half way,
\* and whoever takes a table page between its release and the clearing of its entry, no
\* frame is handed out twice or freed while it is in use.
NoFrameShared ==
  /\ \A p \in Users :
       /\ mem.free \cap (Tables(p) \cup Data(p) \cup Fresh(p)) = {}
       /\ Tables(p) \cap Data(p) = {} /\ Fresh(p) \cap (Tables(p) \cup Data(p)) = {}
       /\ \A v, w \in DOMAIN space[p].pages : v # w => space[p].pages[v].phys # space[p].pages[w].phys
  /\ \A p, q \in Users : p # q =>
       (Tables(p) \cup Data(p) \cup Fresh(p)) \cap (Tables(q) \cup Data(q) \cup Fresh(q)) = {}

\* The pages that the hardware maps for a process are those of its map, "the authoritative
\* set of user mappings", with the same frame and with what the architecture grants for the
\* permissions there; but for pages that a call could not put back when it failed, and the
\* range of a call that is under way.  What other processes do with the frames of table
\* pages that were given back does not show (unmap_in, replace_zeroed, protect_range).
HardwareIsKnown ==
  \A p \in Live : \A va \in Page \ OpPages(p) :
    LET e == Hardware(Settled(p), space[p].root, va) IN
    IF IsMapped(space[p], va) /\ va \notin gone[p]
    THEN e = Leaf(space[p].pages[va].phys, space[p].pages[va].flags)
    ELSE e.frame = 0

\* A page shows zeros until its process writes it, a program or a file is loaded there or,
\* after a fork, what the parent's page showed: never what its frame held before, nor what
\* another process writes (map_zeroed, replace_zeroed, fork, the loader and unmap_range).
PagesKeepBytes ==
  \A p \in Live : \A va \in DOMAIN space[p].pages :
    mem.data[space[p].pages[va].phys] = view[p][va]

=============================================================================
