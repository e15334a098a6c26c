----------------------------- MODULE PhysMemory -----------------------------
(***************************************************************************)
(* Physical memory from boot on: the ranges the firmware reports go to the *)
(* RegionCollector (module Regions); the kernel image is cut out of what   *)
(* it has collected; the pieces are registered with the frame allocator    *)
(* (module FrameAllocator).  Who is served then is in module SlabHeap.     *)
(***************************************************************************)
EXTENDS FrameAllocator

CONSTANT MaxAdds    \* bound: ranges the firmware reports

\* The frame allocator has room for twice as many regions as the collector.
ASSUME BootAssumption == MaxAdds \in Nat /\ MaxAdds < MaxRegions

VARIABLES
  found, reported, adds,   \* the collector (its regions, given, adds ...
  clash,                   \* ... and clash)
  image,                   \* the hole that is cut out
  pieces,                  \* what is left of a region, to be registered
  usable,                  \* history: the pages reported, without the image
  phase                    \* "collect", "register" or "run"

bootVars == <<found, reported, adds, clash, image, pieces, usable, phase>>
memVars == <<vars, bootVars>>

RC == INSTANCE Regions WITH regions <- found, given <- reported, MaxPage <- MaxFrame

NoImage == [start |-> 0, end |-> 0]

MemInit ==
  /\ Init
  /\ RC!Init
  /\ image = NoImage /\ pieces = <<>> /\ usable = {} /\ phase = "collect"

\* detect_memory_regions calls collected.add for each range.
Collect(start, end) ==
  /\ phase = "collect"
  /\ RC!Add(start, end)
  /\ UNCHANGED <<vars, image, pieces, usable, phase>>

\* The hole is the image (hole_start to ke: the firmware below the kernel included),
\* which is wherever it was loaded.
FindImage(hole) ==
  /\ phase = "collect"
  /\ image' = hole
  /\ usable' = reported \ RC!Pages(hole)
  /\ phase' = "register"
  /\ reported' = {} /\ adds' = 0
  /\ UNCHANGED <<vars, found, clash, pieces>>

\* collected.each: clip_region of the next region.
Clip ==
  /\ phase = "register" /\ pieces = <<>> /\ found # <<>>
  /\ pieces' = RC!ClipRegion(Head(found), image)
  /\ found' = Tail(found)
  /\ UNCHANGED <<vars, reported, adds, clash, image, usable, phase>>

\* ... which calls add_region for each piece.
Register ==
  /\ phase = "register" /\ pieces # <<>>
  /\ AddRegion(Head(pieces).start, Head(pieces).end - Head(pieces).start)
  /\ pieces' = Tail(pieces)
  /\ UNCHANGED <<found, reported, adds, clash, image, usable, phase>>

\* enable_frame_growth: from here on frames are taken.
Booted ==
  /\ phase = "register" /\ pieces = <<>> /\ found = <<>>
  /\ phase' = "run" /\ image' = NoImage /\ clash' = FALSE
  /\ UNCHANGED <<vars, found, reported, adds, pieces, usable>>

Boot ==
  \/ \E start, end \in 0..MaxFrame : Collect(start, end)
  \/ \E hole \in RC!Region : hole.start < hole.end /\ FindImage(hole)
  \/ Clip
  \/ Register
  \/ Booted

(***************************************************************************)
(* Properties                                                              *)
(***************************************************************************)

\* The collector's list stays sorted, and disjoint unless a range was left to overlap.
SortedDisjoint == RC!SortedDisjoint

\* add() neither loses a page nor invents one.
Exact == RC!Exact

\* The assertions of add_region never stop the boot: whatever the order in which the
\* firmware reports its ranges, the pieces do not overlap what is registered and there is
\* room for them, also where ranges overlap, as long as no range reaches into a region that
\* starts at or after its start, other than the one next to the region it extends.
BootSucceeds ==
  ~clash => \A i \in 1..Len(pieces) : CanAdd(pieces[i].start, pieces[i].end - pieces[i].start)

\* What the frame allocator manages is the reported memory outside the image, to
\* the page: no frame of the image is ever handed out and none is forgotten.
Managed == UNION {FirstFrame(regions[i])..LastFrame(regions[i]) : i \in 1..Len(regions)}
MemoryExact == phase = "run" => usable = Managed

(***************************************************************************)
(* The inductive invariant of the boot                                     *)
(***************************************************************************)

\* Everything that is registered lies below page p.
Below(p) == /\ tracked <= p
            /\ \A i \in 1..Len(regions) : regions[i].start_ppn + regions[i].frames <= p

\* The image lies inside r: r is cut in two.
Splits(r) == r.start < image.start /\ image.end < r.end

BootTypeOK ==
  /\ found \in Seq(RC!Region) /\ pieces \in Seq(RC!Region)
  /\ image \in RC!Region
  /\ phase \in {"collect", "register", "run"}
  /\ phase = "collect" => /\ adds \in 0..MaxAdds /\ Len(found) <= adds
                          /\ regions = <<>> /\ tracked = 0 /\ pieces = <<>>
  /\ phase = "run" => found = <<>> /\ pieces = <<>>

\* Regions are registered in the order of their addresses, and there is room for those
\* to come: one more than there are left if the image is inside one of them.
InOrder ==
  /\ \A i \in 1..Len(pieces) :
       /\ pieces[i].start < pieces[i].end /\ Below(pieces[i].start)
       /\ \A j \in 1..Len(pieces) : i < j => pieces[i].end <= pieces[j].start
       /\ \A j \in 1..Len(found) : pieces[i].end <= found[j].start
  /\ \A j \in 1..Len(found) : Below(found[j].start)

Room ==
  phase = "register" =>
    /\ Len(regions) + Len(pieces) + Len(found) <= MaxAdds + 1
    /\ \A j \in 1..Len(found) :
         Splits(found[j]) => Len(regions) + Len(pieces) + Len(found) <= MaxAdds

\* Where the usable pages are.
Whereabouts ==
  /\ phase = "collect" => Exact
  /\ phase \in {"register", "run"} =>
       usable = Managed \cup RC!PagesOf(pieces) \cup (RC!PagesOf(found) \ RC!Pages(image))

BootInv ==
  /\ BootTypeOK /\ Whereabouts
  /\ RC!Ascending(found) /\ SortedDisjoint
  /\ ~clash => InOrder /\ Room
=============================================================================
