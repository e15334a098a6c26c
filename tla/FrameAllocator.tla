--------------------------- MODULE FrameAllocator ---------------------------
(***************************************************************************)
(* The physical page-frame allocator of kor: registered regions, one       *)
(* bitmap for all of them, and a search that starts at each region's       *)
(* next_hint and wraps.  Extents are powers of two, aligned to their size  *)
(* in absolute frame numbers.  Every operation runs under the global lock  *)
(* and is one action.                                                      *)
(***************************************************************************)
EXTENDS Naturals, Sequences, FiniteSets, FiniteSetsExt

CONSTANTS MaxFrame,     \* MAX_TRACKED_FRAMES; bound: frame numbers are 0..MaxFrame - 1
          MaxRegions,   \* MAX_REGIONS
          MaxCount      \* bound: frames asked for at once

ASSUME FrameAssumption ==
  /\ MaxFrame \in Nat
  /\ MaxRegions \in Nat
  /\ MaxCount \in Nat

VARIABLES
  regions,     \* regions[..region_count]: start_ppn, frames, bitmap_base, next_hint
  tracked,     \* tracked_frames
  free,        \* free_frames
  allocated,   \* the bits of the bitmap that are set
  owned        \* history: the extents callers hold: the frame and the count asked for

vars == <<regions, tracked, free, allocated, owned>>

Region == [start_ppn : Nat, frames : Nat, bitmap_base : Nat, next_hint : Nat]
Extent == [ppn : Nat, count : Nat \ {0}]

TypeOK ==
  /\ regions \in Seq(Region)
  /\ tracked \in Nat
  /\ free \in Nat
  /\ allocated \subseteq Nat
  /\ owned \subseteq Extent

\* FrameAllocator::new
Init ==
  /\ regions = <<>> /\ tracked = 0 /\ free = 0
  /\ allocated = {} /\ owned = {}

(***************************************************************************)
(* Helpers.  r is a region, o an offset in it.                             *)
(***************************************************************************)
\* The divisors of a power of two are 1 and even numbers.
PowerOfTwo(x) == \A d \in 2..x, q \in 1..x : x = d * q => d % 2 = 0
NextPowerOfTwo(n) == Min({x \in n..(2 * n) : PowerOfTwo(x)})
AlignPpn(p, frames) == ((p + frames - 1) \div frames) * frames
Bit(r, o) == r.bitmap_base + o \in allocated
\* The bits of an extent (mark_run sets or clears them).
Run(r, o, frames) == (r.bitmap_base + o)..(r.bitmap_base + o + frames - 1)
FirstFrame(r) == r.start_ppn
LastFrame(r)  == r.start_ppn + r.frames - 1
Size(e) == NextPowerOfTwo(e.count)
FramesOf(e) == e.ppn..(e.ppn + Size(e) - 1)

\* A slip: only the first frame of the run is looked at.
FreeFirsts(r, start, end, frames) ==
  {o \in start..end : /\ (r.start_ppn + o) % frames = 0
                      /\ o + frames <= end
                      /\ ~Bit(r, o)}

\* The result of find_free_run: the first aligned run in start..end that is free.
FreeRuns(r, start, end, frames) ==
  {o \in start..end : /\ (r.start_ppn + o) % frames = 0
                      /\ o + frames <= end
                      /\ Run(r, o, frames) \cap allocated = {}}

FindFreeRun(r, start, end, frames) ==
  IF FreeRuns(r, start, end, frames) = {} THEN {} ELSE {Min(FreeRuns(r, start, end, frames))}

\* A slip: offsets are aligned, not frame numbers.
ScanRelative(r, start, end, frames) ==
  LET From[o \in 0..(end + 2 * frames)] ==
        IF o + frames > end THEN {}
        ELSE LET used == {i \in o..(o + frames - 1) : Bit(r, i)} IN
             IF used = {} THEN {o} ELSE From[AlignPpn(Min(used) + 1, frames)]
  IN From[AlignPpn(start, frames)]

\* Its loop: from an aligned offset, skip past the first used frame, align again.
Scan(r, start, end, frames) ==
  LET Align(o) == AlignPpn(r.start_ppn + o, frames) - r.start_ppn
      From[o \in 0..(end + frames)] ==
        IF o + frames > end THEN {}
        ELSE LET used == {i \in o..(o + frames - 1) : Bit(r, i)} IN
             IF used = {} THEN {o} ELSE From[Align(Min(used) + 1)]
  IN From[Align(start)]

\* The run alloc_frames takes in region r: from the hint on, or else before it.
Candidate(r, frames) ==
  LET ahead == FindFreeRun(r, r.next_hint, r.frames, frames) IN
  IF frames > r.frames THEN {}
  ELSE IF ahead # {} THEN ahead ELSE FindFreeRun(r, 0, r.next_hint, frames)

(***************************************************************************)
(* The operations                                                          *)
(***************************************************************************)

\* The assertions of add_region.
CanAdd(start, frames) ==
  /\ Len(regions) < MaxRegions
  /\ tracked + frames <= MaxFrame
  /\ \A i \in 1..Len(regions) :
       \/ start + frames <= regions[i].start_ppn
       \/ start >= regions[i].start_ppn + regions[i].frames

\* add_region, on whole pages; it ignores an empty range.
AddRegion(start, frames) ==
  /\ frames > 0 /\ CanAdd(start, frames)
  /\ regions' = Append(regions, [start_ppn |-> start, frames |-> frames,
                                 bitmap_base |-> tracked, next_hint |-> 0])
  /\ tracked' = tracked + frames
  /\ free' = free + frames
  /\ UNCHANGED <<allocated, owned>>

\* alloc_frames: the first region with a run.  With none it returns None.
AllocFrames(count) ==
  LET frames == NextPowerOfTwo(count)
      fits   == {i \in 1..Len(regions) : Candidate(regions[i], frames) # {}}
  IN
  /\ fits # {}
  /\ \E o \in Candidate(regions[Min(fits)], frames) :
       LET i == Min(fits) IN
       /\ allocated' = allocated \cup Run(regions[i], o, frames)
       /\ regions' = [regions EXCEPT ![i].next_hint = o + frames]
       /\ free' = free - frames
       /\ owned' = owned \cup {[ppn |-> regions[i].start_ppn + o, count |-> count]}
  /\ UNCHANGED tracked

\* locate: the first region that holds the whole extent.
Located(ppn, frames) ==
  {i \in 1..Len(regions) : /\ ppn >= regions[i].start_ppn
                           /\ ppn - regions[i].start_ppn + frames <= regions[i].frames}

\* free_frames of an extent alloc_frames returned, with the count it was asked for.
FreeFrames(e) ==
  LET frames == NextPowerOfTwo(e.count)
      i == Min(Located(e.ppn, frames))
      o == e.ppn - regions[i].start_ppn
  IN
  /\ e \in owned
  /\ Located(e.ppn, frames) # {}
  /\ Run(regions[i], o, frames) \subseteq allocated
  /\ allocated' = allocated \ Run(regions[i], o, frames)
  /\ regions' = [regions EXCEPT ![i].next_hint = IF o < @ THEN o ELSE @]
  /\ free' = free + frames
  /\ owned' = owned \ {e}
  /\ UNCHANGED tracked

Next ==
  \/ \E start, end \in 0..MaxFrame : start < end /\ AddRegion(start, end - start)
  \/ \E count \in 1..MaxCount : AllocFrames(count)
  \/ \E e \in owned : FreeFrames(e)

Spec == Init /\ [][Next]_vars

(***************************************************************************)
(* Properties                                                              *)
(***************************************************************************)

\* No frame has two owners, and every extent is registered memory, aligned to its
\* rounded size in absolute frame numbers ("2^n-aligned physical extents").
Exclusive ==
  /\ \A e, f \in owned : e # f => FramesOf(e) \cap FramesOf(f) = {}
  /\ \A e \in owned :
       /\ e.ppn % Size(e) = 0
       /\ \E i \in 1..Len(regions) :
            FramesOf(e) \subseteq FirstFrame(regions[i])..LastFrame(regions[i])

\* free_frames of an extent that alloc_frames returned passes the assertions: the
\* extent is found in a region, and each of its frames is marked.
BitsOf(i, e) == Run(regions[i], e.ppn - regions[i].start_ppn, Size(e))
FreesSucceed ==
  \A e \in owned : /\ Located(e.ppn, Size(e)) # {}
                   /\ \A i \in Located(e.ppn, Size(e)) : BitsOf(i, e) \subseteq allocated

\* Every marked frame belongs to an extent somebody holds, and available_frames is
\* the number of the others: no frame is leaked.
NothingLeaks ==
  /\ \A b \in allocated : \E e \in owned : \E i \in Located(e.ppn, Size(e)) : b \in BitsOf(i, e)
  /\ free + Cardinality(allocated) = tracked

(***************************************************************************)
(* The inductive invariant                                                 *)
(***************************************************************************)

\* Regions share neither frames nor bits, and a hint is inside its region.
RegionsSound ==
  \A i \in 1..Len(regions) :
    /\ regions[i].bitmap_base + regions[i].frames <= tracked
    /\ regions[i].next_hint <= regions[i].frames
    /\ \A j \in 1..Len(regions) : i < j =>
         /\ regions[i].bitmap_base + regions[i].frames <= regions[j].bitmap_base
         /\ \/ regions[i].start_ppn + regions[i].frames <= regions[j].start_ppn
            \/ regions[j].start_ppn + regions[j].frames <= regions[i].start_ppn

FrameInv ==
  /\ TypeOK /\ RegionsSound /\ allocated \subseteq 0..(tracked - 1)
  /\ Exclusive /\ FreesSucceed /\ NothingLeaks

\* The loop of find_free_run, which skips past used frames, finds the first aligned free
\* run between any two offsets: from the hint to the end of a region, or up to the hint.
ScanFindsFirst ==
  \A i \in 1..Len(regions) : \A start \in 0..regions[i].frames, count \in 1..MaxCount :
    \A end \in start..regions[i].frames :
      LET frames == NextPowerOfTwo(count) IN
      Scan(regions[i], start, end, frames) = FindFreeRun(regions[i], start, end, frames)
=============================================================================
