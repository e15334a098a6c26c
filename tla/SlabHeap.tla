------------------------------ MODULE SlabHeap ------------------------------
(***************************************************************************)
(* The kernel heap (base/kor-alloc/src/slab_heap.rs) over the physical     *)
(* memory of module PhysMemory: one free list per power-of-two size class  *)
(* up to a page, filled from a bootstrap area in the image and, when it is *)
(* dry, from frames; larger or over-aligned objects are extents of their   *)
(* own.  The heap's lock is not held while frames are taken for a class:   *)
(* a task finds the list dry, takes frames and adds them in three steps.   *)
(*                                                                         *)
(* Addresses are counted in units, Page of them to a page; a free list is  *)
(* the set of its blocks: which of them is popped makes no difference.     *)
(***************************************************************************)
EXTENDS PhysMemory

CONSTANTS Task,
          Page,        \* PAGE_SIZE, in units
          GrowPages,   \* GROW_PAGES
          Layouts,     \* bound: the layouts asked for, [size, align]
          MaxLive,     \* bound: the objects alive at once
          HeapMemory   \* bound: the memories for which the heap's steps are explored

ASSUME SlabAssumption ==
  /\ Page \in Nat \ {0} /\ PowerOfTwo(Page)
  /\ GrowPages \in 1..MaxCount
  /\ HeapMemory \subseteq SUBSET (0..MaxFrame)
  /\ Layouts \subseteq [size : Nat, align : Nat \ {0}]
  /\ \A l \in Layouts : PowerOfTwo(l.align)   \* core::alloc::Layout

VARIABLES
  slabs,    \* the free blocks of each class
  live,     \* history: the objects that have been allocated and not freed
  grown,    \* history: the extents given to a class
  pc        \* where each task is in alloc

heapVars == <<slabs, live, grown, pc>>
slabVars == <<memVars, heapVars>>

Classes == {c \in 1..Page : PowerOfTwo(c)}
Idle == [at |-> "idle"]

\* class_for: the class, or Large, which is 0.
Large == 0

\* A slip: only the size counts.
ClassForSize(l) ==
  IF l.size > Page \/ l.align > Page THEN Large ELSE Min({c \in Classes : l.size <= c})

ClassFor(l) ==
  IF l.size > Page \/ l.align > Page THEN Large
  ELSE Min({c \in Classes : l.size <= c /\ l.align <= c})

\* large_extent_frames
Pages(units) == (units + Page - 1) \div Page
LargeExtentFrames(l) == Max({Pages(Max({l.size, 1})), Pages(l.align)})

\* FreeList::new: the blocks of size c in `units` units from start on.
Blocks(c, start, units) == {start + i * c : i \in 0..(units \div c - 1)}

\* Slab::allocate and deallocate, Slab::grow.
Pop(c, a) == a \in slabs[c] /\ slabs' = [slabs EXCEPT ![c] = @ \ {a}]
Push(c, a) == slabs' = [slabs EXCEPT ![c] = @ \cup {a}]
PushAll(c, start, units) == slabs' = [slabs EXCEPT ![c] = @ \cup Blocks(c, start, units)]

\* SlabHeap::new splits the bootstrap area, a page for each class, evenly.  It lies in
\* the image: outside of what the frame allocator manages.
BootPage(c) == MaxFrame + Cardinality({d \in Classes : d < c})
Bootstrap(c) == BootPage(c) * Page

HeapInit ==
  /\ MemInit
  /\ slabs = [c \in Classes |-> Blocks(c, Bootstrap(c), Page)]
  /\ live = {} /\ grown = {} /\ pc = [t \in Task |-> Idle]

\* The extent of a large object, as dealloc computes it again.
ExtentOf(o) == [ppn |-> o.addr \div Page, count |-> LargeExtentFrames(o.layout)]
Extents == {ExtentOf(o) : o \in {x \in live : ClassFor(x.layout) = Large}}
Growing == {pc[t].extent : t \in {u \in Task : pc[u].at = "grow"}}

\* alloc_large: the extent alloc_frames has found.
AllocLarge(l) ==
  /\ phase = "run" /\ usable \in HeapMemory /\ ClassFor(l) = Large /\ Cardinality(live) < MaxLive
  /\ AllocFrames(LargeExtentFrames(l))
  /\ \E e \in owned' \ owned : live' = live \cup {[addr |-> e.ppn * Page, layout |-> l]}
  /\ UNCHANGED <<bootVars, slabs, grown, pc>>

\* One turn of the loop of alloc: a block of the class, or the list is dry.
TryAllocate(t, l) ==
  /\ \/ /\ slabs[ClassFor(l)] # {}
        /\ \E a \in slabs[ClassFor(l)] :
             /\ Pop(ClassFor(l), a)
             /\ live' = live \cup {[addr |-> a, layout |-> l]}
        /\ pc' = [pc EXCEPT ![t] = Idle]
     \/ /\ slabs[ClassFor(l)] = {}
        /\ pc' = [pc EXCEPT ![t] = [at |-> "dry", layout |-> l]]
        /\ UNCHANGED <<slabs, live>>
  /\ UNCHANGED <<memVars, grown>>

Alloc(t, l) ==
  /\ phase = "run" /\ usable \in HeapMemory /\ pc[t] = Idle
  /\ ClassFor(l) # Large
  /\ Cardinality(live) + Cardinality({u \in Task : pc[u] # Idle}) < MaxLive
  /\ TryAllocate(t, l)

\* grow_from_frames, without the lock: frames for the class, or alloc returns null.
TakeFrames(t) ==
  /\ pc[t].at = "dry"
  /\ \/ /\ AllocFrames(GrowPages)
        /\ \E e \in owned' \ owned :
             pc' = [pc EXCEPT ![t] = [at |-> "grow", layout |-> @.layout, extent |-> e]]
     \/ /\ \A i \in 1..Len(regions) : Candidate(regions[i], NextPowerOfTwo(GrowPages)) = {}
        /\ pc' = [pc EXCEPT ![t] = Idle]
        /\ UNCHANGED vars
  /\ UNCHANGED <<bootVars, slabs, live, grown>>

\* ... and, with the lock, SlabHeap::grow.  Then alloc tries again.
Grow(t) ==
  /\ pc[t].at = "grow"
  /\ PushAll(ClassFor(pc[t].layout), pc[t].extent.ppn * Page, GrowPages * Page)
  /\ grown' = grown \cup {pc[t].extent}
  /\ pc' = [pc EXCEPT ![t] = [at |-> "retry", layout |-> @.layout]]
  /\ UNCHANGED <<memVars, live>>

Retry(t) == pc[t].at = "retry" /\ TryAllocate(t, pc[t].layout)

\* dealloc, with the layout of alloc: the class and the extent are computed again.
Dealloc(o) ==
  /\ live' = live \ {o}
  /\ \/ /\ ClassFor(o.layout) = Large
        /\ FreeFrames(ExtentOf(o))
        /\ UNCHANGED slabs
     \/ /\ ClassFor(o.layout) # Large
        /\ Push(ClassFor(o.layout), o.addr)
        /\ UNCHANGED vars
  /\ UNCHANGED <<bootVars, grown, pc>>

\* The other users of frames (page tables, user pages, DMA).
ServeOthers ==
  /\ phase = "run"
  /\ \/ \E count \in 1..MaxCount : AllocFrames(count)
     \/ \E e \in owned \ (grown \cup Extents \cup Growing) : FreeFrames(e)
  /\ UNCHANGED <<bootVars, heapVars>>

HeapNext ==
  \/ Boot /\ UNCHANGED heapVars
  \/ ServeOthers
  \/ \E l \in Layouts : AllocLarge(l)
  \/ \E t \in Task : TakeFrames(t) \/ Grow(t) \/ Retry(t) \/ \E l \in Layouts : Alloc(t, l)
  \/ \E o \in live : Dealloc(o)

HeapSpec == HeapInit /\ [][HeapNext]_slabVars

(***************************************************************************)
(* Properties                                                              *)
(***************************************************************************)
Units(start, size) == start..(start + size - 1)
FreeBlocks == {b \in Classes \X UNION {slabs[c] : c \in Classes} : b[2] \in slabs[b[1]]}

\* What alloc hands out is as large and as aligned as its layout asks, no two objects
\* and no object and a free block overlap, and all of it lies in the bootstrap area or in
\* frames that are the heap's alone, however growth, other users of frames and frees
\* interleave.
HeapSound ==
  /\ \A o, p \in live : o # p => Units(o.addr, o.layout.size) \cap Units(p.addr, p.layout.size) = {}
  /\ \A o \in live :
       /\ o.addr % o.layout.align = 0
       /\ \A b \in FreeBlocks : Units(o.addr, o.layout.size) \cap Units(b[2], b[1]) = {}
  /\ \A b, d \in FreeBlocks : b # d => Units(b[2], b[1]) \cap Units(d[2], d[1]) = {}
  /\ LET mine == (UNION {FramesOf(e) : e \in grown \cup Extents})
                   \cup (MaxFrame..(MaxFrame + Cardinality(Classes) - 1))
     IN /\ \A o \in live : \A u \in Units(o.addr, o.layout.size) : u \div Page \in mine
        /\ \A b \in FreeBlocks : b[2] \div Page \in mine
        /\ \A e \in owned \ (grown \cup Extents) : FramesOf(e) \cap mine = {}

(***************************************************************************)
(* The inductive invariant                                                 *)
(***************************************************************************)
Small == {l \in Layouts : ClassFor(l) # Large}
Taken(c) == {o.addr : o \in {x \in live : ClassFor(x.layout) = c}}
Placed(c) == slabs[c] \cup Taken(c)
GrownPages == UNION {FramesOf(e) : e \in grown}

HeapTypeOK ==
  /\ slabs \in [Classes -> SUBSET Nat]
  /\ live \subseteq [addr : Nat, layout : Layouts]
  /\ DOMAIN pc = Task
  /\ \A t \in Task : /\ pc[t].at \in {"idle", "dry", "grow", "retry"}
                     /\ pc[t].at # "idle" => pc[t].layout \in Small
                     /\ pc[t].at = "grow" => pc[t].extent.count = GrowPages

\* The extents the heap holds are the heap's, each for one purpose.
ExtentsSound ==
  /\ grown \cup Extents \cup Growing \subseteq owned
  /\ grown \cap Extents = {} /\ grown \cap Growing = {} /\ Extents \cap Growing = {}
  /\ \A t, u \in Task : t # u /\ pc[t].at = "grow" /\ pc[u].at = "grow" => pc[t].extent # pc[u].extent
  /\ \A o, p \in live : /\ ClassFor(o.layout) = Large => o.addr % Page = 0
                        /\ ClassFor(o.layout) = Large /\ ClassFor(p.layout) = Large /\ o # p
                             => ExtentOf(o) # ExtentOf(p)

\* The blocks of a class are multiples of it on pages of their own ...
BlocksPlaced ==
  /\ \A c \in Classes : \A a \in Placed(c) :
       a % c = 0 /\ a \div Page \in GrownPages \cup {BootPage(c)}
  /\ \A c, d \in Classes : \A a \in Placed(c), b \in Placed(d) :
       a \div Page = b \div Page => c = d

\* ... and each is once in the free list or with one object.
BlocksOnce ==
  \A o, p \in live : ClassFor(o.layout) # Large /\ ClassFor(p.layout) # Large =>
    /\ o # p => o.addr # p.addr
    /\ o.addr \notin slabs[ClassFor(o.layout)]

\* Registered memory lies below the bootstrap area.
MemoryBelow == phase # "collect" => usable \subseteq 0..(MaxFrame - 1)

HeapInv == HeapTypeOK /\ ExtentsSound /\ BlocksPlaced /\ BlocksOnce /\ MemoryBelow
=============================================================================
