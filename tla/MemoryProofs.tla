---------------------------- MODULE MemoryProofs ----------------------------
(***************************************************************************)
(* Physical memory, for any size of memory and any layout the firmware     *)
(* reports: the boot registers exactly the reported memory outside the     *)
(* image, and the frame allocator never hands a frame out twice, never     *)
(* fails to free what it handed out and leaks nothing, while the kernel    *)
(* heap and the other users of frames take and free them in any order; and *)
(* the heap is sound.                                                      *)
(***************************************************************************)
EXTENDS MemoryLemmas, FiniteSetTheorems

(***************************************************************************)
(* Extents and the regions they lie in                                     *)
(***************************************************************************)

LEMMA SizeOp == \A e \in Extent : Size(e) \in Nat \ {0} /\ e.ppn \in Nat
BY NextPower, Zenon DEF Extent, Size

\* A region as alloc_frames sees it.
LEMMA CandidateOp ==
  ASSUME NEW r \in Region, NEW frames \in Nat \ {0}, r.next_hint <= r.frames,
         NEW o \in Candidate(r, frames)
  PROVE  /\ o \in Nat /\ o + frames <= r.frames
         /\ (r.start_ppn + o) % frames = 0
         /\ Run(r, o, frames) \cap allocated = {}
<1>1. r.start_ppn \in Nat /\ r.frames \in Nat /\ r.next_hint \in Nat
  BY Zenon DEF Region
<1>2. ASSUME NEW start \in Nat, NEW end \in Nat, NEW x \in FindFreeRun(r, start, end, frames)
      PROVE  /\ x \in Nat /\ x + frames <= end
             /\ (r.start_ppn + x) % frames = 0
             /\ Run(r, x, frames) \cap allocated = {}
  <2> DEFINE S == FreeRuns(r, start, end, frames)
  <2>1. S \subseteq start..end /\ start..end \subseteq Nat
    BY DEF FreeRuns
  <2>2. S # {} /\ x = Min(S)
    BY <1>2, Zenon DEF FindFreeRun
  <2>3. x \in S /\ x \in Nat
    BY <2>1, <2>2, MinOp, Zenon
  <2> QED BY <2>3, Zenon DEF FreeRuns
<1>3. o \in FindFreeRun(r, r.next_hint, r.frames, frames) \/ o \in FindFreeRun(r, 0, r.next_hint, frames)
  BY Zenon DEF Candidate
<1>4. CASE o \in FindFreeRun(r, r.next_hint, r.frames, frames)
  BY <1>1, <1>2, <1>4, Zenon
<1>5. CASE o \in FindFreeRun(r, 0, r.next_hint, frames)
  <2>1. /\ o \in Nat /\ o + frames <= r.next_hint
        /\ (r.start_ppn + o) % frames = 0
        /\ Run(r, o, frames) \cap allocated = {}
    BY <1>1, <1>2, <1>5, 0 \in Nat, Zenon
  <2> QED BY <2>1, <1>1
<1> QED BY <1>3, <1>4, <1>5, Zenon

\* The fields of a registered region.
LEMMA RegionOp ==
  ASSUME FrameInv, NEW i \in 1..Len(regions)
  PROVE  /\ regions[i] \in Region
         /\ regions[i].start_ppn \in Nat /\ regions[i].frames \in Nat
         /\ regions[i].bitmap_base \in Nat /\ regions[i].next_hint \in Nat
         /\ regions[i].bitmap_base + regions[i].frames <= tracked
         /\ regions[i].next_hint <= regions[i].frames
<1>1. regions[i] \in Region
  BY DEF FrameInv, TypeOK
<1> QED BY <1>1, Zenon DEF Region, FrameInv, RegionsSound

\* Two different regions share neither frames nor bits.
LEMMA RegionsApart ==
  ASSUME FrameInv, NEW i \in 1..Len(regions), NEW j \in 1..Len(regions), i # j
  PROVE  /\ \/ regions[i].start_ppn + regions[i].frames <= regions[j].start_ppn
            \/ regions[j].start_ppn + regions[j].frames <= regions[i].start_ppn
         /\ \/ regions[i].bitmap_base + regions[i].frames <= regions[j].bitmap_base
            \/ regions[j].bitmap_base + regions[j].frames <= regions[i].bitmap_base
<1>1. i < j \/ j < i
  BY DEF FrameInv, TypeOK
<1> QED BY <1>1, Zenon DEF FrameInv, RegionsSound
\* What locate and the marks come to.
LEMMA LocatedOp ==
  ASSUME FrameInv, NEW e \in Extent, NEW i \in Located(e.ppn, Size(e))
  PROVE  /\ i \in 1..Len(regions)
         /\ e.ppn \in Nat /\ Size(e) \in Nat \ {0}
         /\ regions[i].start_ppn <= e.ppn
         /\ e.ppn + Size(e) <= regions[i].start_ppn + regions[i].frames
         /\ e.ppn - regions[i].start_ppn \in Nat
         /\ BitsOf(i, e) = (regions[i].bitmap_base + (e.ppn - regions[i].start_ppn))..
                           (regions[i].bitmap_base + (e.ppn - regions[i].start_ppn) + Size(e) - 1)
<1>1. i \in 1..Len(regions)
  BY Zenon DEF Located
<1>2. /\ e.ppn >= regions[i].start_ppn
      /\ e.ppn - regions[i].start_ppn + Size(e) <= regions[i].frames
  BY Zenon DEF Located
<1>3. e.ppn \in Nat /\ Size(e) \in Nat \ {0}
  BY SizeOp, Zenon
<1>4. /\ regions[i].start_ppn <= e.ppn
      /\ e.ppn + Size(e) <= regions[i].start_ppn + regions[i].frames
      /\ e.ppn - regions[i].start_ppn \in Nat
  BY <1>1, <1>2, <1>3, RegionOp
<1> QED BY <1>1, <1>3, <1>4, Zenon DEF BitsOf, Run

\* Extents have no frame in common if, and only if, they have no bit in common.
LEMMA BitsApart ==
  ASSUME FrameInv, NEW e \in Extent, NEW f \in Extent,
         NEW i \in Located(e.ppn, Size(e)), NEW j \in Located(f.ppn, Size(f))
  PROVE  FramesOf(e) \cap FramesOf(f) = {} <=> BitsOf(i, e) \cap BitsOf(j, f) = {}
<1> DEFINE a == regions[i].bitmap_base + (e.ppn - regions[i].start_ppn)
           b == regions[j].bitmap_base + (f.ppn - regions[j].start_ppn)
           m == Size(e)
           n == Size(f)
<1>0. /\ i \in 1..Len(regions) /\ j \in 1..Len(regions)
      /\ BitsOf(i, e) = a..(a + m - 1) /\ BitsOf(j, f) = b..(b + n - 1)
  BY LocatedOp, Zenon
<1>1. /\ e.ppn \in Nat /\ f.ppn \in Nat /\ m \in Nat \ {0} /\ n \in Nat \ {0}
      /\ e.ppn - regions[i].start_ppn \in Nat /\ f.ppn - regions[j].start_ppn \in Nat
      /\ regions[i].start_ppn <= e.ppn /\ regions[j].start_ppn <= f.ppn
      /\ e.ppn + m <= regions[i].start_ppn + regions[i].frames
      /\ f.ppn + n <= regions[j].start_ppn + regions[j].frames
  BY LocatedOp, Zenon
<1>7. /\ regions[i].start_ppn \in Nat /\ regions[i].frames \in Nat /\ regions[i].bitmap_base \in Nat
      /\ regions[j].start_ppn \in Nat /\ regions[j].frames \in Nat /\ regions[j].bitmap_base \in Nat
  BY <1>0, RegionOp, Zenon
<1>2. a \in Nat /\ b \in Nat
  BY <1>1, <1>7
<1>3. FramesOf(e) \cap FramesOf(f) = {} <=> (e.ppn + m <= f.ppn \/ f.ppn + n <= e.ppn)
  BY <1>1, RangesApart, Zenon DEF FramesOf
<1>4. BitsOf(i, e) \cap BitsOf(j, f) = {} <=> (a + m <= b \/ b + n <= a)
  <2> HIDE DEF a, b, m, n
  <2> QED BY <1>0, <1>1, <1>2, RangesApart, ZenonT(60)
<1>5. CASE i = j
  <2>1. (e.ppn + m <= f.ppn \/ f.ppn + n <= e.ppn) <=> (a + m <= b \/ b + n <= a)
    <3> HIDE DEF m, n
    <3> QED BY <1>1, <1>7, <1>5
  <2> QED BY <2>1, <1>3, <1>4, Zenon
<1>6. CASE i # j
  <2> HIDE DEF m, n
  <2>0. /\ \/ regions[i].start_ppn + regions[i].frames <= regions[j].start_ppn
           \/ regions[j].start_ppn + regions[j].frames <= regions[i].start_ppn
        /\ \/ regions[i].bitmap_base + regions[i].frames <= regions[j].bitmap_base
           \/ regions[j].bitmap_base + regions[j].frames <= regions[i].bitmap_base
    BY <1>0, <1>6, RegionsApart, Zenon
  <2>1. e.ppn + m <= f.ppn \/ f.ppn + n <= e.ppn
    BY <1>1, <1>7, <2>0
  <2>2. a + m <= b \/ b + n <= a
    BY <1>1, <1>7, <2>0
  <2> QED BY <2>1, <2>2, <1>3, <1>4, Zenon
<1> QED BY <1>5, <1>6, Zenon

\* An extent lies in one region only.
LEMMA OneRegion ==
  ASSUME FrameInv, NEW e \in Extent,
         NEW i \in Located(e.ppn, Size(e)), NEW j \in Located(e.ppn, Size(e))
  PROVE  i = j
<1> SUFFICES ASSUME i # j PROVE FALSE
  BY Zenon
<1>0. i \in 1..Len(regions) /\ j \in 1..Len(regions)
  BY LocatedOp, Zenon
<1>1. /\ e.ppn \in Nat /\ Size(e) \in Nat \ {0}
      /\ regions[i].start_ppn <= e.ppn /\ regions[j].start_ppn <= e.ppn
      /\ e.ppn + Size(e) <= regions[i].start_ppn + regions[i].frames
      /\ e.ppn + Size(e) <= regions[j].start_ppn + regions[j].frames
  BY LocatedOp, Zenon
<1>2. /\ regions[i].start_ppn \in Nat /\ regions[i].frames \in Nat
      /\ regions[j].start_ppn \in Nat /\ regions[j].frames \in Nat
  BY <1>0, RegionOp, Zenon
<1>3. \/ regions[i].start_ppn + regions[i].frames <= regions[j].start_ppn
      \/ regions[j].start_ppn + regions[j].frames <= regions[i].start_ppn
  BY <1>0, RegionsApart, Zenon
<1> QED BY <1>1, <1>2, <1>3

(***************************************************************************)
(* Counting the marked frames                                              *)
(***************************************************************************)

LEMMA RunCounts ==
  ASSUME NEW a \in Nat, NEW m \in Nat \ {0}
  PROVE  IsFiniteSet(a..(a + m - 1)) /\ Cardinality(a..(a + m - 1)) = m
<1>1. a \in Int /\ a + m - 1 \in Int /\ ~(a > a + m - 1) /\ (a + m - 1) - a + 1 = m
  OBVIOUS
<1> QED BY <1>1, FS_Interval, Zenon

LEMMA MarksFinite ==
  ASSUME FrameInv
  PROVE  /\ IsFiniteSet(allocated) /\ Cardinality(allocated) \in Nat
         /\ \A S \in SUBSET (0..(tracked - 1)) : Cardinality(S) <= tracked
<1>1. tracked \in Nat /\ allocated \in SUBSET (0..(tracked - 1))
  BY Zenon DEF FrameInv, TypeOK
<1>2. /\ 0 \in Int /\ tracked - 1 \in Int
      /\ (IF 0 > tracked - 1 THEN 0 ELSE (tracked - 1) - 0 + 1) = tracked
  BY <1>1
<1>3. IsFiniteSet(0..(tracked - 1)) /\ Cardinality(0..(tracked - 1)) = tracked
  BY <1>2, FS_Interval, Zenon
<1> QED BY <1>1, <1>3, FS_Subset, FS_CardinalityType, ZenonT(60)

\* Frames that are marked, and frames that are cleared, are counted.
LEMMA MarkCounts ==
  ASSUME NEW S, IsFiniteSet(S), Cardinality(S) \in Nat, NEW T, IsFiniteSet(T),
         NEW m \in Nat, Cardinality(T) = m, T \cap S = {}
  PROVE  Cardinality(S \cup T) = Cardinality(S) + m
<1>1. Cardinality(S \cup T) = Cardinality(S) + Cardinality(T) - Cardinality(S \cap T)
  BY FS_Union, Zenon
<1>2. S \cap T = {} /\ Cardinality({}) = 0
  BY FS_EmptySet, Zenon
<1>3. Cardinality(S \cup T) = Cardinality(S) + m - 0
  BY <1>1, <1>2, Zenon
<1>4. \A k \in Nat : k + m - 0 = k + m
  OBVIOUS
<1> QED BY <1>3, <1>4, Zenon

LEMMA ClearCounts ==
  ASSUME NEW S, IsFiniteSet(S), NEW T, T \subseteq S
  PROVE  Cardinality(S \ T) = Cardinality(S) - Cardinality(T)
<1>1. Cardinality(S \ T) = Cardinality(S) - Cardinality(S \cap T)
  BY FS_Difference, Zenon
<1>2. S \cap T = T
  BY Zenon
<1> QED BY <1>1, <1>2, Zenon

(***************************************************************************)
(* The operations of the frame allocator                                   *)
(***************************************************************************)

\* A step that only moves the hint of a region leaves every extent where it is.
LEMMA HintMoves ==
  ASSUME FrameInv, NEW i \in 1..Len(regions), NEW h \in Nat, h <= regions[i].frames,
         regions' = [regions EXCEPT ![i].next_hint = h], tracked' = tracked
  PROVE  /\ regions' \in Seq(Region) /\ RegionsSound'
         /\ \A e \in Extent : /\ Located(e.ppn, Size(e))' = Located(e.ppn, Size(e))
                              /\ \A j \in 1..Len(regions) : BitsOf(j, e)' = BitsOf(j, e)
<1>1. regions \in Seq(Region) /\ regions[i] \in Region
  BY RegionOp, Zenon DEF FrameInv, TypeOK
<1>2. [regions[i] EXCEPT !.next_hint = h] \in Region
  BY <1>1, Zenon DEF Region
<1>3. regions' \in Seq(Region) /\ Len(regions') = Len(regions)
  BY <1>1, <1>2
<1>4. ASSUME NEW j \in 1..Len(regions)
      PROVE  /\ regions'[j].start_ppn = regions[j].start_ppn
             /\ regions'[j].frames = regions[j].frames
             /\ regions'[j].bitmap_base = regions[j].bitmap_base
             /\ regions'[j].next_hint = IF j = i THEN h ELSE regions[j].next_hint
  <2>1. regions[j] \in Region
    BY RegionOp, Zenon
  <2>2. regions'[j] = IF j = i THEN [regions[i] EXCEPT !.next_hint = h] ELSE regions[j]
    BY <1>1
  <2> QED BY <2>1, <2>2 DEF Region
<1>5. ASSUME NEW j \in 1..Len(regions')
      PROVE  /\ regions'[j].bitmap_base + regions'[j].frames <= tracked'
             /\ regions'[j].next_hint <= regions'[j].frames
             /\ \A k \in 1..Len(regions') : j < k =>
                  /\ regions'[j].bitmap_base + regions'[j].frames <= regions'[k].bitmap_base
                  /\ \/ regions'[j].start_ppn + regions'[j].frames <= regions'[k].start_ppn
                     \/ regions'[k].start_ppn + regions'[k].frames <= regions'[j].start_ppn
  <2>1. j \in 1..Len(regions)
    BY <1>3, Zenon
  <2>2. regions'[j].next_hint <= regions'[j].frames
    BY <2>1, <1>4, RegionOp, Zenon
  <2>3. regions'[j].bitmap_base + regions'[j].frames <= tracked'
    BY <2>1, <1>4, RegionOp, Zenon
  <2>4. ASSUME NEW k \in 1..Len(regions), j < k
        PROVE  /\ regions'[j].bitmap_base + regions'[j].frames <= regions'[k].bitmap_base
               /\ \/ regions'[j].start_ppn + regions'[j].frames <= regions'[k].start_ppn
                  \/ regions'[k].start_ppn + regions'[k].frames <= regions'[j].start_ppn
    <3>1. /\ regions[j].bitmap_base + regions[j].frames <= regions[k].bitmap_base
          /\ \/ regions[j].start_ppn + regions[j].frames <= regions[k].start_ppn
             \/ regions[k].start_ppn + regions[k].frames <= regions[j].start_ppn
      BY <2>1, <2>4, Zenon DEF FrameInv, RegionsSound
    <3> QED BY <3>1, <2>1, <1>4, Zenon
  <2> QED BY <2>2, <2>3, <2>4, <1>3, Zenon
<1>6. ASSUME NEW e \in Extent
      PROVE  /\ Located(e.ppn, Size(e))' = Located(e.ppn, Size(e))
             /\ \A j \in 1..Len(regions) : BitsOf(j, e)' = BitsOf(j, e)
  BY <1>3, <1>4, Zenon DEF Located, BitsOf, Run
<1>7. RegionsSound'
  BY <1>5, Zenon DEF RegionsSound
<1> QED BY <1>3, <1>6, <1>7, Zenon

\* An extent that locate finds lies inside the region.
LEMMA InsideOp ==
  ASSUME NEW r \in Region, NEW e \in Extent,
         e.ppn >= r.start_ppn, e.ppn - r.start_ppn + Size(e) <= r.frames
  PROVE  FramesOf(e) \subseteq FirstFrame(r)..LastFrame(r)
<1>1. r.start_ppn \in Nat /\ r.frames \in Nat /\ e.ppn \in Nat /\ Size(e) \in Nat
  BY SizeOp, Zenon DEF Region
<1> QED BY <1>1 DEF FramesOf, FirstFrame, LastFrame

\* The three parts of Exclusive after a step.
LEMMA ExclusiveAfter ==
  ASSUME regions' \in Seq(Region), owned' \subseteq Extent, FreesSucceed',
         \A e, f \in owned' : e # f => FramesOf(e) \cap FramesOf(f) = {},
         \A e \in owned' : e.ppn % Size(e) = 0
  PROVE  Exclusive'
<1>1. ASSUME NEW e \in owned'
      PROVE  \E i \in 1..Len(regions') : FramesOf(e) \subseteq FirstFrame(regions'[i])..LastFrame(regions'[i])
  <2>1. PICK i \in 1..Len(regions') : /\ e.ppn >= regions'[i].start_ppn
                                     /\ e.ppn - regions'[i].start_ppn + Size(e) <= regions'[i].frames
    BY Zenon DEF FreesSucceed, Located
  <2>2. regions'[i] \in Region
    OBVIOUS
  <2> QED BY <2>1, <2>2, InsideOp, Zenon
<1> QED BY <1>1, Zenon DEF Exclusive

LEMMA AllocKeeps == ASSUME FrameInv, NEW c \in Nat \ {0}, AllocFrames(c) PROVE FrameInv'
<1> DEFINE frames == NextPowerOfTwo(c)
           fits == {k \in 1..Len(regions) : Candidate(regions[k], frames) # {}}
           i == Min(fits)
           r == regions[i]
<1>1. frames \in Nat \ {0}
  BY NextPower, Zenon
<1>2. i \in 1..Len(regions)
  <2>1. fits \in SUBSET Nat
    BY DEF FrameInv, TypeOK
  <2>2. i \in fits
    BY <2>1, MinOp, Zenon DEF AllocFrames
  <2> QED BY <2>2, Zenon
<1>3. PICK o \in Candidate(r, frames) :
        /\ allocated' = allocated \cup Run(r, o, frames)
        /\ regions' = [regions EXCEPT ![i].next_hint = o + frames]
        /\ free' = free - frames
        /\ owned' = owned \cup {[ppn |-> r.start_ppn + o, count |-> c]}
  BY Zenon DEF AllocFrames
<1>4. tracked' = tracked
  BY Zenon DEF AllocFrames
<1> DEFINE e == [ppn |-> r.start_ppn + o, count |-> c]
<1> HIDE DEF i, frames
<1>5. /\ r \in Region /\ r.start_ppn \in Nat /\ r.frames \in Nat /\ r.bitmap_base \in Nat
      /\ r.bitmap_base + r.frames <= tracked /\ r.next_hint <= r.frames
  BY <1>2, RegionOp, Zenon
<1>6. /\ o \in Nat /\ o + frames <= r.frames
      /\ (r.start_ppn + o) % frames = 0 /\ Run(r, o, frames) \cap allocated = {}
  BY <1>1, <1>5, CandidateOp, Zenon
<1>7. e \in Extent /\ Size(e) = frames /\ e.ppn = r.start_ppn + o
  <2>1. r.start_ppn + o \in Nat
    BY <1>5, <1>6
  <2> QED BY <2>1, Zenon DEF Extent, Size, frames
<1>8. /\ regions' \in Seq(Region) /\ RegionsSound'
      /\ \A x \in Extent : /\ Located(x.ppn, Size(x))' = Located(x.ppn, Size(x))
                           /\ \A j \in 1..Len(regions) : BitsOf(j, x)' = BitsOf(j, x)
  <2>1. o + frames \in Nat
    BY <1>1, <1>6
  <2> QED BY <2>1, <1>2, <1>3, <1>4, <1>6, HintMoves, Zenon
<1>9. i \in Located(e.ppn, Size(e)) /\ BitsOf(i, e) = Run(r, o, frames)
  <2>1. r.start_ppn + o >= r.start_ppn /\ (r.start_ppn + o) - r.start_ppn = o
    BY <1>5, <1>6
  <2>2. e.ppn >= r.start_ppn /\ e.ppn - r.start_ppn + Size(e) <= r.frames
    BY <2>1, <1>6, <1>7, Zenon
  <2> QED BY <2>1, <2>2, <1>2, <1>7, Zenon DEF Located, BitsOf
<1> HIDE DEF e
<1>10. ASSUME NEW f \in owned PROVE FramesOf(e) \cap FramesOf(f) = {} /\ e # f
  <2>1. f \in Extent
    BY Zenon DEF FrameInv, TypeOK
  <2>2. PICK j \in Located(f.ppn, Size(f)) : BitsOf(j, f) \subseteq allocated
    BY Zenon DEF FrameInv, FreesSucceed
  <2>3. BitsOf(i, e) \cap BitsOf(j, f) = {}
    BY <2>2, <1>6, <1>9, Zenon
  <2>4. FramesOf(e) \cap FramesOf(f) = {}
    BY <2>1, <2>3, <1>7, <1>9, BitsApart, Zenon
  <2>5. e.ppn \in FramesOf(e)
    BY <1>1, <1>5, <1>6, <1>7 DEF FramesOf
  <2> QED BY <2>4, <2>5, Zenon
<1>11. /\ Run(r, o, frames) \subseteq 0..(tracked - 1)
       /\ Cardinality(allocated') = Cardinality(allocated) + frames
       /\ Cardinality(allocated) + frames <= tracked /\ Cardinality(allocated) \in Nat
  <2> DEFINE a == r.bitmap_base + o
  <2>0. tracked \in Nat
    BY Zenon DEF FrameInv, TypeOK
  <2>1. a \in Nat /\ a + frames <= tracked
    BY <2>0, <1>1, <1>5, <1>6
  <2>2. Run(r, o, frames) = a..(a + frames - 1)
    BY Zenon DEF Run
  <2> HIDE DEF a
  <2>3. a..(a + frames - 1) \subseteq 0..(tracked - 1)
    BY <2>0, <2>1, <1>1
  <2>4. Cardinality(a..(a + frames - 1)) = frames /\ IsFiniteSet(a..(a + frames - 1))
    BY <2>1, <1>1, RunCounts, Zenon
  <2>5. Cardinality(allocated') = Cardinality(allocated) + frames
    <3> DEFINE T == a..(a + frames - 1)
    <3>1. IsFiniteSet(T) /\ Cardinality(T) = frames /\ frames \in Nat
      BY <2>4, <1>1, Zenon
    <3>2. T \cap allocated = {} /\ allocated' = allocated \cup T
      BY <2>2, <1>3, <1>6, Zenon
    <3> HIDE DEF T
    <3> QED BY <3>1, <3>2, MarksFinite, MarkCounts, Zenon
  <2>6. allocated' \in SUBSET (0..(tracked - 1))
    BY <2>2, <2>3, <1>3, Zenon DEF FrameInv
  <2> QED BY <2>2, <2>3, <2>5, <2>6, MarksFinite, Zenon
<1>12. free' \in Nat /\ free' + Cardinality(allocated') = tracked'
  BY <1>1, <1>3, <1>4, <1>11 DEF FrameInv, TypeOK, NothingLeaks
<1>13. TypeOK'
  <2>1. owned' \subseteq Extent /\ tracked' \in Nat
    BY <1>3, <1>4, <1>7, Zenon DEF FrameInv, TypeOK, e
  <2>2. allocated' \subseteq Nat
    BY <1>3, <1>11 DEF FrameInv, TypeOK
  <2> QED BY <2>1, <2>2, <1>8, <1>12, Zenon DEF TypeOK
<1>14. allocated' \subseteq 0..(tracked' - 1)
  BY <1>3, <1>4, <1>11, Zenon DEF FrameInv
<1>15. owned' = owned \cup {e}
  BY <1>3, Zenon DEF e
<1>16. FreesSucceed'
  <2>1. ASSUME NEW x \in owned'
        PROVE  /\ Located(x.ppn, Size(x))' # {}
               /\ \A j \in Located(x.ppn, Size(x))' : BitsOf(j, x)' \subseteq allocated'
    <3>1. x \in Extent /\ Located(x.ppn, Size(x))' = Located(x.ppn, Size(x))
      BY <1>7, <1>8, <1>13, Zenon DEF TypeOK
    <3>2. CASE x \in owned
      <4>1. Located(x.ppn, Size(x)) # {}
        BY <3>2, Zenon DEF FrameInv, FreesSucceed
      <4>2. ASSUME NEW j \in Located(x.ppn, Size(x)) PROVE BitsOf(j, x)' \subseteq allocated'
        <5>1. BitsOf(j, x)' = BitsOf(j, x)
          BY <3>1, <1>8, LocatedOp, Zenon
        <5>2. BitsOf(j, x) \subseteq allocated
          BY <3>2, Zenon DEF FrameInv, FreesSucceed
        <5> QED BY <5>1, <5>2, <1>3, Zenon
      <4> QED BY <3>1, <4>1, <4>2, Zenon
    <3>3. CASE x = e
      <4>1. ASSUME NEW j \in Located(x.ppn, Size(x)) PROVE BitsOf(j, x)' \subseteq allocated'
        <5>1. j = i
          BY <3>1, <3>3, <1>9, OneRegion, Zenon
        <5>2. BitsOf(j, x)' = Run(r, o, frames)
          BY <5>1, <3>1, <3>3, <1>2, <1>8, <1>9, Zenon
        <5> QED BY <5>2, <1>3, Zenon
      <4> QED BY <3>1, <3>3, <4>1, <1>9, Zenon
    <3> QED BY <3>2, <3>3, <1>15, Zenon
  <2> QED BY <2>1, Zenon DEF FreesSucceed
<1>17. Exclusive'
  <2>1. ASSUME NEW x \in owned', NEW y \in owned', x # y PROVE FramesOf(x) \cap FramesOf(y) = {}
    BY <2>1, <1>10, <1>15, Zenon DEF FrameInv, Exclusive
  <2>2. ASSUME NEW x \in owned' PROVE x.ppn % Size(x) = 0
    BY <1>6, <1>7, <1>15, Zenon DEF FrameInv, Exclusive
  <2> QED BY <2>1, <2>2, <1>8, <1>13, <1>16, ExclusiveAfter, Zenon DEF TypeOK
<1>18. NothingLeaks'
  <2>1. ASSUME NEW b \in allocated'
        PROVE  \E x \in owned' : \E j \in Located(x.ppn, Size(x))' : b \in BitsOf(j, x)'
    <3>1. CASE b \in allocated
      <4>1. PICK x \in owned : \E j \in Located(x.ppn, Size(x)) : b \in BitsOf(j, x)
        BY <3>1, Zenon DEF FrameInv, NothingLeaks
      <4>2. x \in Extent
        BY Zenon DEF FrameInv, TypeOK
      <4>3. PICK j \in Located(x.ppn, Size(x)) : b \in BitsOf(j, x)
        BY <4>1, Zenon
      <4>4. j \in Located(x.ppn, Size(x))' /\ BitsOf(j, x)' = BitsOf(j, x)
        BY <4>2, <4>3, <1>8, LocatedOp, Zenon
      <4> QED BY <4>3, <4>4, <1>15, Zenon
    <3>2. CASE b \in Run(r, o, frames)
      BY <3>2, <1>2, <1>7, <1>8, <1>9, <1>15, Zenon
    <3> QED BY <3>1, <3>2, <1>3, Zenon
  <2> QED BY <2>1, <1>12, Zenon DEF NothingLeaks
<1> QED BY <1>8, <1>13, <1>14, <1>16, <1>17, <1>18, Zenon DEF FrameInv
\* The bits of the extents that stay are not those that are cleared.
LEMMA FreeKeeps == ASSUME FrameInv, NEW e, FreeFrames(e) PROVE FrameInv'
<1> DEFINE i == Min(Located(e.ppn, Size(e)))
           o == e.ppn - regions[i].start_ppn
           B == BitsOf(i, e)
           h == IF o < regions[i].next_hint THEN o ELSE regions[i].next_hint
<1>1. e \in owned /\ e \in Extent
  BY Zenon DEF FreeFrames, FrameInv, TypeOK
<1>2. /\ Located(e.ppn, Size(e)) # {} /\ B \subseteq allocated
      /\ allocated' = allocated \ B
      /\ regions' = [regions EXCEPT ![i].next_hint = h]
      /\ free' = free + Size(e)
      /\ owned' = owned \ {e} /\ tracked' = tracked
  BY Zenon DEF FreeFrames, Size, BitsOf
<1>3. i \in Located(e.ppn, Size(e)) /\ i \in 1..Len(regions)
  <2>1. Located(e.ppn, Size(e)) \subseteq 1..Len(regions) /\ 1..Len(regions) \subseteq Nat
    BY DEF Located, FrameInv, TypeOK
  <2> QED BY <2>1, <1>2, MinOp, Zenon
<1> HIDE DEF i
<1>4. /\ e.ppn \in Nat /\ Size(e) \in Nat \ {0} /\ o \in Nat
      /\ regions[i].start_ppn <= e.ppn
      /\ e.ppn + Size(e) <= regions[i].start_ppn + regions[i].frames
      /\ B = (regions[i].bitmap_base + o)..(regions[i].bitmap_base + o + Size(e) - 1)
  BY <1>1, <1>3, LocatedOp, Zenon
<1>5. /\ regions[i].start_ppn \in Nat /\ regions[i].frames \in Nat /\ regions[i].bitmap_base \in Nat
      /\ regions[i].next_hint \in Nat /\ regions[i].next_hint <= regions[i].frames
      /\ regions[i].bitmap_base + regions[i].frames <= tracked
  BY <1>3, RegionOp, Zenon
<1> HIDE DEF B
<1>6. /\ regions' \in Seq(Region) /\ RegionsSound'
      /\ \A x \in Extent : /\ Located(x.ppn, Size(x))' = Located(x.ppn, Size(x))
                           /\ \A j \in 1..Len(regions) : BitsOf(j, x)' = BitsOf(j, x)
  <2>0. o \in Nat
    BY <1>4, Zenon
  <2>1. h \in Nat /\ h <= regions[i].frames
    <3> HIDE DEF o
    <3> QED BY <2>0, <1>5
  <2> HIDE DEF h
  <2> QED BY <2>1, <1>2, <1>3, HintMoves, Zenon
<1>7. Cardinality(allocated) \in Nat /\ Cardinality(allocated') = Cardinality(allocated) - Size(e)
  <2> DEFINE a == regions[i].bitmap_base + o
  <2>1. tracked \in Nat
    BY Zenon DEF FrameInv, TypeOK
  <2>2. a \in Nat /\ a + Size(e) <= tracked
    <3>1. /\ e.ppn \in Nat /\ Size(e) \in Nat \ {0} /\ o \in Nat
          /\ regions[i].start_ppn <= e.ppn
          /\ e.ppn + Size(e) <= regions[i].start_ppn + regions[i].frames
      BY <1>4, Zenon
    <3> QED BY <3>1, <2>1, <1>5
  <2>3. Cardinality(B) = Size(e)
    BY <2>2, <1>4, RunCounts, Zenon
  <2> QED BY <2>3, <1>2, MarksFinite, ClearCounts, Zenon
<1>8. free' \in Nat /\ free' + Cardinality(allocated') = tracked'
  <2>1. free \in Nat /\ free + Cardinality(allocated) = tracked
    BY Zenon DEF FrameInv, TypeOK, NothingLeaks
  <2>2. Size(e) \in Nat
    BY <1>4, Zenon
  <2>3. free' = free + Size(e) /\ tracked' = tracked
    BY <1>2, Zenon
  <2> QED BY <2>1, <2>2, <2>3, <1>7
<1>9. TypeOK' /\ allocated' \subseteq 0..(tracked' - 1)
  BY <1>2, <1>6, <1>8, Zenon DEF FrameInv, TypeOK
<1>10. ASSUME NEW x \in owned', NEW j \in Located(x.ppn, Size(x))
       PROVE  x \in owned /\ x \in Extent /\ BitsOf(j, x) \cap B = {}
  <2>1. x \in owned /\ x # e /\ x \in Extent
    BY <1>2, Zenon DEF FrameInv, TypeOK
  <2>2. FramesOf(x) \cap FramesOf(e) = {}
    BY <2>1, <1>1, Zenon DEF FrameInv, Exclusive
  <2> QED BY <2>1, <2>2, <1>1, <1>3, BitsApart, Zenon DEF B
<1>11. FreesSucceed'
  <2>1. ASSUME NEW x \in owned'
        PROVE  /\ Located(x.ppn, Size(x))' # {}
               /\ \A j \in Located(x.ppn, Size(x))' : BitsOf(j, x)' \subseteq allocated'
    <3>1. /\ x \in owned /\ x \in Extent
          /\ Located(x.ppn, Size(x))' = Located(x.ppn, Size(x))
      BY <1>2, <1>6, Zenon DEF FrameInv, TypeOK
    <3>2. ASSUME NEW j \in Located(x.ppn, Size(x)) PROVE BitsOf(j, x)' \subseteq allocated'
      <4>1. BitsOf(j, x)' = BitsOf(j, x) /\ BitsOf(j, x) \subseteq allocated
        BY <3>1, <1>6, LocatedOp, Zenon DEF FrameInv, FreesSucceed
      <4> QED BY <4>1, <1>2, <1>10, Zenon
    <3>3. Located(x.ppn, Size(x)) # {}
      BY <3>1, Zenon DEF FrameInv, FreesSucceed
    <3> QED BY <3>1, <3>2, <3>3, Zenon
  <2> QED BY <2>1, Zenon DEF FreesSucceed
<1>12. Exclusive'
  <2>1. /\ \A x, y \in owned' : x # y => FramesOf(x) \cap FramesOf(y) = {}
        /\ \A x \in owned' : x.ppn % Size(x) = 0
    BY <1>2, Zenon DEF FrameInv, Exclusive
  <2> QED BY <2>1, <1>6, <1>9, <1>11, ExclusiveAfter, Zenon DEF TypeOK
<1>13. NothingLeaks'
  <2>1. ASSUME NEW b \in allocated'
        PROVE  \E x \in owned' : \E j \in Located(x.ppn, Size(x))' : b \in BitsOf(j, x)'
    <3>1. b \in allocated /\ b \notin B
      BY <1>2, Zenon
    <3>2. PICK x \in owned : \E j \in Located(x.ppn, Size(x)) : b \in BitsOf(j, x)
      BY <3>1, Zenon DEF FrameInv, NothingLeaks
    <3>3. PICK j \in Located(x.ppn, Size(x)) : b \in BitsOf(j, x)
      BY <3>2, Zenon
    <3>4. x \in Extent
      BY Zenon DEF FrameInv, TypeOK
    <3>5. x # e
      <4> SUFFICES ASSUME x = e PROVE FALSE
        BY Zenon
      <4>1. j = i
        BY <1>1, <1>3, OneRegion, Zenon
      <4> QED BY <4>1, <3>1, <3>3, Zenon DEF B
    <3>6. j \in Located(x.ppn, Size(x))' /\ BitsOf(j, x)' = BitsOf(j, x)
      BY <3>4, <1>6, LocatedOp, Zenon
    <3> QED BY <3>3, <3>5, <3>6, <1>2, Zenon
  <2> QED BY <2>1, <1>8, Zenon DEF NothingLeaks
<1> QED BY <1>6, <1>9, <1>11, <1>12, <1>13, Zenon DEF FrameInv

\* A new region has bits of its own and, by the assertions, frames of its own.
LEMMA AddKeeps ==
  ASSUME FrameInv, NEW start \in Nat, NEW frames \in Nat, AddRegion(start, frames)
  PROVE  FrameInv'
<1> DEFINE n == Len(regions)
           r == [start_ppn |-> start, frames |-> frames, bitmap_base |-> tracked, next_hint |-> 0]
<1>1. /\ frames > 0 /\ regions' = Append(regions, r)
      /\ tracked' = tracked + frames /\ free' = free + frames
      /\ allocated' = allocated /\ owned' = owned
      /\ \A i \in 1..n : \/ start + frames <= regions[i].start_ppn
                         \/ start >= regions[i].start_ppn + regions[i].frames
  BY Zenon DEF AddRegion, CanAdd
<1>2. tracked \in Nat /\ free \in Nat /\ regions \in Seq(Region) /\ n \in Nat
  BY DEF FrameInv, TypeOK
<1>3. r \in Region
  BY <1>2, Zenon DEF Region
<1> HIDE DEF r
<1>4. /\ regions' \in Seq(Region) /\ Len(regions') = n + 1
      /\ \A i \in 1..n : regions'[i] = regions[i]
      /\ regions'[n + 1] = r
  BY <1>1, <1>2, <1>3
<1>5. tracked' \in Nat /\ free' \in Nat /\ tracked <= tracked'
  BY <1>1, <1>2
<1>6. TypeOK'
  BY <1>1, <1>4, <1>5, Zenon DEF FrameInv, TypeOK
<1>7. /\ r.start_ppn = start /\ r.frames = frames /\ r.bitmap_base = tracked /\ r.next_hint = 0
  BY Zenon DEF r
<1>8. \A j \in 1..(n + 1) : j \in 1..n \/ j = n + 1
  BY <1>2
<1>9. RegionsSound'
  <2>1. ASSUME NEW j \in 1..n
        PROVE  /\ regions[j].bitmap_base + regions[j].frames <= tracked'
               /\ regions[j].next_hint <= regions[j].frames
               /\ regions[j].bitmap_base + regions[j].frames <= r.bitmap_base
               /\ \/ regions[j].start_ppn + regions[j].frames <= r.start_ppn
                  \/ r.start_ppn + r.frames <= regions[j].start_ppn
    <3>1. /\ regions[j].start_ppn \in Nat /\ regions[j].frames \in Nat
          /\ regions[j].bitmap_base \in Nat /\ regions[j].next_hint <= regions[j].frames
          /\ regions[j].bitmap_base + regions[j].frames <= tracked
      BY RegionOp, Zenon
    <3>2. regions[j].bitmap_base + regions[j].frames <= tracked'
      BY <3>1, <1>2, <1>5, SMTT(30)
    <3>3. \/ regions[j].start_ppn + regions[j].frames <= start
          \/ start + frames <= regions[j].start_ppn
      BY <3>1, <1>1, Zenon
    <3> QED BY <3>1, <3>2, <3>3, <1>7, Zenon
  <2>2. r.bitmap_base + r.frames <= tracked' /\ r.next_hint <= r.frames
    BY <1>1, <1>2, <1>7
  <2>3. ASSUME NEW j \in 1..n, NEW k \in 1..n, j < k
        PROVE  /\ regions[j].bitmap_base + regions[j].frames <= regions[k].bitmap_base
               /\ \/ regions[j].start_ppn + regions[j].frames <= regions[k].start_ppn
                  \/ regions[k].start_ppn + regions[k].frames <= regions[j].start_ppn
    BY <2>3, Zenon DEF FrameInv, RegionsSound
  <2>4. \A k \in 1..(n + 1) : ~(n + 1 < k)
    BY <1>2
  <2> QED BY <2>1, <2>2, <2>3, <2>4, <1>4, <1>8, Zenon DEF RegionsSound
<1>10. allocated' \subseteq 0..(tracked' - 1)
  <2>1. 0..(tracked - 1) \subseteq 0..(tracked' - 1)
    <3>1. tracked \in Nat /\ tracked' \in Nat /\ tracked <= tracked'
      BY <1>2, <1>5, Zenon
    <3>2. ASSUME NEW m \in Nat, NEW k \in Nat, m <= k PROVE 0..(m - 1) \subseteq 0..(k - 1)
      BY <3>2
    <3> QED BY <3>1, <3>2, Zenon
  <2> QED BY <2>1, <1>1, Zenon DEF FrameInv
<1>11. ASSUME NEW x \in owned
       PROVE  /\ x \in Extent /\ Located(x.ppn, Size(x))' = Located(x.ppn, Size(x))
              /\ \A j \in 1..n : BitsOf(j, x)' = BitsOf(j, x)
  <2>1. x \in Extent
    BY Zenon DEF FrameInv, TypeOK
  <2>2. PICK i \in Located(x.ppn, Size(x)) : TRUE
    BY Zenon DEF FrameInv, FreesSucceed
  <2>3. ~(x.ppn >= start /\ x.ppn - start + Size(x) <= frames)
    <3>1. /\ i \in 1..n /\ x.ppn \in Nat /\ Size(x) \in Nat \ {0}
          /\ regions[i].start_ppn <= x.ppn
          /\ x.ppn + Size(x) <= regions[i].start_ppn + regions[i].frames
      BY <2>1, <2>2, LocatedOp, Zenon
    <3>2. /\ regions[i].start_ppn \in Nat /\ regions[i].frames \in Nat
          /\ \/ start + frames <= regions[i].start_ppn
             \/ start >= regions[i].start_ppn + regions[i].frames
      BY <3>1, <1>1, RegionOp, Zenon
    <3>3. /\ x.ppn \in Nat /\ Size(x) \in Nat \ {0}
          /\ regions[i].start_ppn <= x.ppn
          /\ x.ppn + Size(x) <= regions[i].start_ppn + regions[i].frames
      BY <3>1, Zenon
    <3> DEFINE y == x.ppn
               z == Size(x)
               a == regions[i].start_ppn
               b == regions[i].frames
    <3>4. /\ y \in Nat /\ z \in Nat \ {0} /\ a \in Nat /\ b \in Nat /\ a <= y /\ y + z <= a + b
          /\ start + frames <= a \/ start >= a + b
      BY <3>2, <3>3, Zenon
    <3>5. ~(y >= start /\ y - start + z <= frames)
      <4> HIDE DEF y, z, a, b
      <4> QED BY <3>4
    <3> QED BY <3>5, Zenon
  <2>4. n + 1 \notin Located(x.ppn, Size(x))'
    BY <2>3, <1>4, <1>7, Zenon DEF Located
  <2>5. 1..n \subseteq 1..(n + 1)
    BY <1>2
  <2>6. \A j \in 1..n : j \in Located(x.ppn, Size(x))' <=> j \in Located(x.ppn, Size(x))
    BY <2>5, <1>4, Zenon DEF Located
  <2>7. Located(x.ppn, Size(x))' \subseteq 1..(n + 1) /\ Located(x.ppn, Size(x)) \subseteq 1..n
    BY <1>4, Zenon DEF Located
  <2>8. \A j \in 1..n : BitsOf(j, x)' = BitsOf(j, x)
    BY <1>4, Zenon DEF BitsOf
  <2> QED BY <2>1, <2>4, <2>6, <2>7, <2>8, <1>8, Zenon
<1>12. FreesSucceed'
  <2>1. ASSUME NEW x \in owned
        PROVE  /\ Located(x.ppn, Size(x))' # {}
               /\ \A j \in Located(x.ppn, Size(x))' : BitsOf(j, x)' \subseteq allocated
    <3>1. /\ Located(x.ppn, Size(x)) # {}
          /\ \A j \in Located(x.ppn, Size(x)) : j \in 1..n /\ BitsOf(j, x) \subseteq allocated
      BY <1>11, LocatedOp, Zenon DEF FrameInv, FreesSucceed
    <3> QED BY <3>1, <1>11, Zenon
  <2> QED BY <2>1, <1>1, Zenon DEF FreesSucceed
<1>13. Exclusive'
  <2>1. /\ \A x, y \in owned' : x # y => FramesOf(x) \cap FramesOf(y) = {}
        /\ \A x \in owned' : x.ppn % Size(x) = 0
    BY <1>1, Zenon DEF FrameInv, Exclusive
  <2> QED BY <2>1, <1>4, <1>6, <1>12, ExclusiveAfter, Zenon DEF TypeOK
<1>14. NothingLeaks'
  <2>1. free' + Cardinality(allocated') = tracked'
    <3>1. free + Cardinality(allocated) = tracked
      BY Zenon DEF FrameInv, NothingLeaks
    <3>2. Cardinality(allocated) \in Nat
      BY MarksFinite, Zenon
    <3> QED BY <3>1, <3>2, <1>1, <1>2
  <2>2. ASSUME NEW b \in allocated
        PROVE  \E x \in owned : \E j \in Located(x.ppn, Size(x))' : b \in BitsOf(j, x)'
    <3>1. PICK x \in owned : \E j \in Located(x.ppn, Size(x)) : b \in BitsOf(j, x)
      BY Zenon DEF FrameInv, NothingLeaks
    <3>2. PICK j \in Located(x.ppn, Size(x)) : b \in BitsOf(j, x)
      BY <3>1, Zenon
    <3>3. j \in 1..n
      BY Zenon DEF Located
    <3> QED BY <3>2, <3>3, <1>11, Zenon
  <2> QED BY <2>1, <2>2, <1>1, Zenon DEF NothingLeaks
<1> QED BY <1>6, <1>9, <1>10, <1>12, <1>13, <1>14, Zenon DEF FrameInv

(***************************************************************************)
(* The steps of the boot                                                   *)
(***************************************************************************)

LEMMA FramesStutter == ASSUME FrameInv, UNCHANGED vars PROVE FrameInv'
BY Zenon DEF FrameInv, vars, TypeOK, RegionsSound, Exclusive, FreesSucceed, NothingLeaks, Located,
   BitsOf

\* With no region registered everything lies below any page.
LEMMA NothingRegistered ==
  /\ regions = << >> /\ tracked = 0 =>
       (\A p \in Nat : Below(p)) /\ Managed = {} /\ Len(regions) = 0
<1>1. Len(<< >>) = 0 /\ 1..0 = {} /\ \A p \in Nat : 0 <= p
  OBVIOUS
<1> QED BY <1>1, Zenon DEF Below, Managed

LEMMA MemStart == ASSUME MemInit PROVE FrameInv /\ BootInv
<1>1. /\ regions = << >> /\ tracked = 0 /\ free = 0 /\ allocated = {} /\ owned = {}
      /\ found = << >> /\ reported = {} /\ adds = 0
      /\ image = NoImage /\ pieces = << >> /\ phase = "collect"
  BY Zenon DEF MemInit, Init, RC!Init
<1>2. Len(<< >>) = 0 /\ 1..0 = {} /\ << >> \in Seq(Region) /\ 0 \in Nat /\ 0 + 0 = 0 /\ 0 <= 0
  OBVIOUS
<1>3. TypeOK
  BY <1>1, <1>2, Zenon DEF TypeOK
<1>4. FrameInv
  BY <1>1, <1>2, <1>3, FS_EmptySet, Zenon DEF FrameInv, RegionsSound, Exclusive, FreesSucceed, NothingLeaks
<1>5. NoImage \in RC!Region /\ 0 \in 0..MaxAdds
  <2>1. 0 \in 0..MaxFrame /\ 0 \in 0..MaxAdds
    BY FrameAssumption, BootAssumption
  <2> QED BY <2>1, Zenon DEF NoImage, RC!Region
<1>6. BootTypeOK
  BY <1>1, <1>2, <1>5, NoneOp, Zenon DEF BootTypeOK
<1>7. RC!Ascending(found) /\ SortedDisjoint /\ InOrder
  BY <1>1, NoneOp, Zenon DEF SortedDisjoint, RC!SortedDisjoint, RC!Sorted, RC!Ascending, InOrder
<1>8. Room /\ Whereabouts
  BY <1>1, NoneOp, Zenon DEF Room, Whereabouts, Exact, RC!Exact
<1> QED BY <1>4, <1>6, <1>7, <1>8, Zenon DEF BootInv

LEMMA CollectKeeps ==
  ASSUME BootInv, NEW start \in 0..MaxFrame, NEW end \in 0..MaxFrame, Collect(start, end)
  PROVE  BootInv'
<1> DEFINE new == [start |-> start, end |-> end]
<1>1. /\ phase = "collect" /\ phase' = "collect"
      /\ adds < MaxAdds /\ start < end
      /\ found' = RC!Added(found, new) /\ reported' = reported \cup RC!Pages(new)
      /\ adds' = adds + 1 /\ clash' = (clash \/ ~RC!Handled(found, new))
      /\ regions' = regions /\ tracked' = tracked /\ pieces' = pieces /\ image' = image
  BY Zenon DEF Collect, RC!Add, vars
<1>2. /\ found \in Seq(RC!Region) /\ pieces \in Seq(RC!Region) /\ image \in RC!Region
      /\ adds \in 0..MaxAdds /\ Len(found) <= adds /\ regions = << >> /\ tracked = 0
      /\ pieces = << >> /\ RC!PagesOf(found) = reported /\ RC!Ascending(found)
      /\ ~clash => RC!Sorted(found)
  BY <1>1, Zenon DEF BootInv, BootTypeOK, SortedDisjoint, RC!SortedDisjoint, Whereabouts,
     Exact, RC!Exact
<1>3. new \in RC!Region /\ new.start < new.end
  <2>1. new.start = start /\ new.end = end
    BY Zenon
  <2> QED BY <2>1, <1>1, Zenon DEF RC!Region
<1> HIDE DEF new
<1>4. /\ found' \in Seq(RC!Region) /\ Len(found') <= Len(found) + 1 /\ RC!Ascending(found')
      /\ RC!PagesOf(found') = RC!PagesOf(found) \cup RC!Pages(new)
      /\ ~clash' => RC!Sorted(found')
  <2> DEFINE t == RC!Added(found, new)
  <2>1. /\ t \in Seq(RC!Region) /\ Len(t) <= Len(found) + 1 /\ RC!Ascending(t)
        /\ RC!PagesOf(t) = RC!PagesOf(found) \cup RC!Pages(new)
        /\ RC!Sorted(found) /\ RC!Handled(found, new) => RC!Sorted(t)
    BY <1>2, <1>3, AddedOp, Zenon
  <2>2. found' = t
    BY <1>1, Zenon
  <2> HIDE DEF t
  <2> QED BY <2>1, <2>2, <1>1, <1>2, Zenon
<1>5. adds' \in 0..MaxAdds /\ Len(found') <= adds'
  <2>1. Len(found) \in Nat /\ Len(found') \in Nat
    BY <1>2, <1>4, ListOp, Zenon
  <2> QED BY <2>1, <1>1, <1>2, <1>4, BootAssumption
<1>6. BootTypeOK'
  BY <1>1, <1>2, <1>4, <1>5, Zenon DEF BootTypeOK
<1>7. RC!Ascending(found)' /\ SortedDisjoint'
  BY <1>4, Zenon DEF SortedDisjoint, RC!SortedDisjoint, RC!Sorted, RC!Ascending
<1>8. InOrder'
  <2>1. \A p \in Nat : Below(p)'
    <3>1. \A p \in Nat : Below(p)
      BY <1>2, NothingRegistered, Zenon
    <3> QED BY <3>1, <1>1, Zenon DEF Below
  <2>2. \A j \in 1..Len(found') : found'[j].start \in Nat
    BY <1>4, ListOp, RangeOp, Zenon
  <2>3. pieces' = << >>
    BY <1>1, <1>2, Zenon
  <2> QED BY <2>1, <2>2, <2>3, NoneOp, Zenon DEF InOrder
<1>9. Room' /\ Whereabouts'
  <2>1. "collect" # "register" /\ "collect" \notin {"register", "run"}
    BY Zenon
  <2>2. RC!PagesOf(found') = reported'
    BY <1>1, <1>2, <1>4, Zenon
  <2> QED BY <2>1, <2>2, <1>1, Zenon DEF Room, Whereabouts, Exact, RC!Exact, RC!PagesOf, RC!Pages
<1> QED BY <1>6, <1>7, <1>8, <1>9, Zenon DEF BootInv

LEMMA FindImageKeeps ==
  ASSUME BootInv, NEW hole \in RC!Region, FindImage(hole)
  PROVE  BootInv'
<1>1. /\ phase = "collect" /\ phase' = "register" /\ image' = hole
      /\ usable' = reported \ RC!Pages(hole)
      /\ regions' = regions /\ tracked' = tracked /\ found' = found /\ pieces' = pieces
      /\ clash' = clash
  BY Zenon DEF FindImage, vars
<1>2. /\ found \in Seq(RC!Region) /\ adds \in 0..MaxAdds /\ Len(found) <= adds
      /\ regions = << >> /\ tracked = 0 /\ pieces = << >>
      /\ RC!PagesOf(found) = reported
  BY <1>1, Zenon DEF BootInv, BootTypeOK, Whereabouts, Exact, RC!Exact
<1>3. BootTypeOK'
  <2>1. "register" # "collect" /\ "register" # "run"
    BY Zenon
  <2> QED BY <2>1, <1>1, <1>2, Zenon DEF BootInv, BootTypeOK
<1>4. RC!Ascending(found)' /\ SortedDisjoint' /\ (~clash' => InOrder')
  <2>1. RC!Ascending(found)' /\ SortedDisjoint'
    BY <1>1, Zenon DEF BootInv, SortedDisjoint, RC!SortedDisjoint, RC!Sorted, RC!Ascending
  <2>2. ~clash' => InOrder'
    BY <1>1, Zenon DEF BootInv, InOrder, Below
  <2> QED BY <2>1, <2>2, Zenon
<1>5. Room'
  <2>1. /\ Len(regions) + Len(pieces) + Len(found) <= MaxAdds
        /\ Len(regions) + Len(pieces) + Len(found) <= MaxAdds + 1
    <3>1. Len(found) \in Nat /\ Len(regions) = 0 /\ Len(pieces) = 0
      BY <1>2, ListOp, NoneOp, Zenon
    <3> QED BY <3>1, <1>2, BootAssumption
  <2> QED BY <2>1, <1>1, Zenon DEF Room
<1>6. Whereabouts'
  <2>1. Managed' = {} /\ RC!PagesOf(pieces') = {}
    BY <1>1, <1>2, NoneOp, NothingRegistered, Zenon DEF Managed
  <2>2. usable' = RC!PagesOf(found') \ RC!Pages(image')
    BY <1>1, <1>2, Zenon
  <2>3. phase' # "collect"
    BY <1>1, Zenon
  <2> QED BY <2>1, <2>2, <2>3, Zenon DEF Whereabouts, RC!PagesOf, RC!Pages
<1> QED BY <1>3, <1>4, <1>5, <1>6, Zenon DEF BootInv

LEMMA BootedKeeps == ASSUME BootInv, Booted PROVE BootInv'
<1>1. /\ phase = "register" /\ phase' = "run" /\ image' = NoImage
      /\ pieces = << >> /\ found = << >> /\ usable' = usable
      /\ regions' = regions /\ tracked' = tracked /\ found' = found /\ pieces' = pieces
  BY Zenon DEF Booted, vars
<1>2. BootTypeOK'
  <2>1. "run" # "collect"
    BY Zenon
  <2>2. NoImage \in RC!Region
    <3>1. 0 \in 0..MaxFrame
      BY FrameAssumption
    <3> QED BY <3>1, Zenon DEF NoImage, RC!Region
  <2> QED BY <2>1, <2>2, <1>1, Zenon DEF BootInv, BootTypeOK
<1>3. RC!Ascending(found)' /\ SortedDisjoint' /\ InOrder'
  BY <1>1, NoneOp, Zenon DEF SortedDisjoint, RC!SortedDisjoint, RC!Sorted, RC!Ascending, InOrder
<1>4. Room' /\ Whereabouts'
  <2>1. "run" # "register" /\ "run" # "collect"
    BY Zenon
  <2>2. usable = Managed
    BY <1>1, NoneOp, Zenon DEF BootInv, Whereabouts
  <2>3. Managed' = Managed /\ RC!PagesOf(pieces') = {} /\ RC!PagesOf(found') = {}
    BY <1>1, NoneOp, Zenon DEF Managed
  <2>4. usable' = Managed' \cup RC!PagesOf(pieces') \cup (RC!PagesOf(found') \ RC!Pages(image'))
    BY <2>2, <2>3, <1>1, Zenon
  <2> QED BY <2>1, <2>4, <1>1, Zenon DEF Room, Whereabouts, RC!PagesOf, RC!Pages
<1> QED BY <1>2, <1>3, <1>4, Zenon DEF BootInv

LEMMA BelowMono ==
  ASSUME FrameInv, NEW p \in Nat, NEW q \in Nat, p <= q, Below(p)
  PROVE  Below(q)
<1>1. tracked <= q
  <2>1. tracked \in Nat /\ tracked <= p
    BY Zenon DEF FrameInv, TypeOK, Below
  <2> QED BY <2>1
<1>2. ASSUME NEW i \in 1..Len(regions) PROVE regions[i].start_ppn + regions[i].frames <= q
  <2>1. /\ regions[i].start_ppn \in Nat /\ regions[i].frames \in Nat
        /\ regions[i].start_ppn + regions[i].frames <= p
    BY RegionOp, Zenon DEF Below
  <2> QED BY <2>1
<1> QED BY <1>1, <1>2, Zenon DEF Below

\* What a list promises about its tail.
LEMMA TailAscending ==
  ASSUME NEW rs \in Seq(RC!Region), rs # << >>, RC!Ascending(rs)
  PROVE  RC!Ascending(Tail(rs)) /\ rs[1] \in RC!Region /\ rs[1].start < rs[1].end
<1>1. ASSUME NEW i \in 1..Len(Tail(rs))
      PROVE  /\ i + 1 \in 1..Len(rs) /\ Tail(rs)[i] = rs[i + 1]
             /\ \A j \in 1..Len(Tail(rs)) : i < j => i + 1 < j + 1
  BY TailOp, Zenon
<1>2. 1 \in 1..Len(rs)
  BY TailOp, Zenon
<1>3. ASSUME NEW i \in 1..Len(Tail(rs)), NEW j \in 1..Len(Tail(rs)), i < j
      PROVE  Tail(rs)[i].start <= Tail(rs)[j].start
  <2>1. i + 1 \in 1..Len(rs) /\ j + 1 \in 1..Len(rs) /\ i + 1 < j + 1
    BY <1>1, <1>3, Zenon
  <2>2. rs[i + 1].start <= rs[j + 1].start
    BY <2>1, Zenon DEF RC!Ascending
  <2> QED BY <2>2, <1>1, Zenon
<1>4. \A i \in 1..Len(Tail(rs)) : Tail(rs)[i].start < Tail(rs)[i].end
  BY <1>1, Zenon DEF RC!Ascending
<1>5. RC!Ascending(Tail(rs))
  BY <1>3, <1>4, Zenon DEF RC!Ascending
<1>6. rs[1] \in RC!Region /\ rs[1].start < rs[1].end
  BY <1>2, ListOp, Zenon DEF RC!Ascending
<1> QED BY <1>5, <1>6, Zenon

LEMMA TailSorted ==
  ASSUME NEW rs \in Seq(RC!Region), rs # << >>, RC!Sorted(rs)
  PROVE  /\ RC!Sorted(Tail(rs))
         /\ \A j \in 1..Len(Tail(rs)) : rs[1].end <= Tail(rs)[j].start
<1>1. ASSUME NEW i \in 1..Len(Tail(rs))
      PROVE  /\ i + 1 \in 1..Len(rs) /\ Tail(rs)[i] = rs[i + 1] /\ 1 < i + 1
             /\ \A j \in 1..Len(Tail(rs)) : i < j => i + 1 < j + 1
  BY TailOp, Zenon
<1>2. 1 \in 1..Len(rs)
  BY TailOp, Zenon
<1>3. ASSUME NEW i \in 1..Len(Tail(rs)), NEW j \in 1..Len(Tail(rs)), i < j
      PROVE  Tail(rs)[i].end <= Tail(rs)[j].start
  <2>1. i + 1 \in 1..Len(rs) /\ j + 1 \in 1..Len(rs) /\ i + 1 < j + 1
    BY <1>1, <1>3, Zenon
  <2>2. rs[i + 1].end <= rs[j + 1].start
    BY <2>1, Zenon DEF RC!Sorted
  <2> QED BY <2>2, <1>1, Zenon
<1>4. RC!Sorted(Tail(rs))
  <2>1. \A i \in 1..Len(Tail(rs)) : Tail(rs)[i].start < Tail(rs)[i].end
    BY <1>1, Zenon DEF RC!Sorted
  <2> QED BY <2>1, <1>3, Zenon DEF RC!Sorted
<1>5. \A j \in 1..Len(Tail(rs)) : rs[1].end <= Tail(rs)[j].start
  BY <1>1, <1>2, Zenon DEF RC!Sorted
<1> QED BY <1>4, <1>5, Zenon

LEMMA ClipKeeps == ASSUME FrameInv, BootInv, Clip PROVE BootInv'
<1> DEFINE r == found[1]
           cs == RC!ClipRegion(r, image)
           n == Len(found)
<1>1. /\ phase = "register" /\ phase' = "register" /\ pieces = << >> /\ found # << >>
      /\ found' = Tail(found) /\ image' = image /\ usable' = usable
      /\ regions' = regions /\ tracked' = tracked /\ clash' = clash
      /\ pieces' = RC!ClipRegion(Head(found), image)
  BY Zenon DEF Clip, vars
<1>2. /\ found \in Seq(RC!Region) /\ image \in RC!Region /\ RC!Ascending(found)
      /\ usable = Managed \cup RC!PagesOf(pieces) \cup (RC!PagesOf(found) \ RC!Pages(image))
      /\ ~clash =>
           /\ RC!Sorted(found)
           /\ \A j \in 1..n : Below(found[j].start)
           /\ Len(regions) + Len(pieces) + n <= MaxAdds + 1
           /\ \A j \in 1..n : Splits(found[j]) => Len(regions) + Len(pieces) + n <= MaxAdds
  BY <1>1, Zenon DEF BootInv, BootTypeOK, SortedDisjoint, RC!SortedDisjoint, Whereabouts, InOrder, Room
<1>3. /\ r \in RC!Region /\ r.start < r.end /\ 1 \in 1..n /\ Head(found) = r
      /\ found' \in Seq(RC!Region) /\ Len(found') = n - 1 /\ RC!Ascending(found')
      /\ \A j \in 1..(n - 1) : j + 1 \in 1..n /\ found'[j] = found[j + 1]
      /\ ~clash => RC!Sorted(found') /\ \A j \in 1..(n - 1) : r.end <= found'[j].start
      /\ RC!PagesOf(found) = RC!Pages(r) \cup RC!PagesOf(found')
  <2>1. /\ Head(found) = r /\ 1 \in 1..n /\ found' \in Seq(RC!Region) /\ Len(found') = n - 1
        /\ RC!PagesOf(found) = RC!Pages(r) \cup RC!PagesOf(found')
        /\ \A j \in 1..Len(found') : j + 1 \in 1..n /\ found'[j] = found[j + 1]
    <3>1. /\ Head(found) = r /\ 1 \in 1..n /\ Tail(found) \in Seq(RC!Region)
          /\ Len(Tail(found)) = n - 1
          /\ RC!PagesOf(found) = RC!Pages(Head(found)) \cup RC!PagesOf(Tail(found))
          /\ \A j \in 1..Len(Tail(found)) : j + 1 \in 1..n /\ Tail(found)[j] = found[j + 1]
      BY <1>1, <1>2, TailOp, Zenon
    <3> QED BY <3>1, <1>1, Zenon
  <2>2. RC!Ascending(found') /\ r \in RC!Region /\ r.start < r.end
    <3>1. RC!Ascending(Tail(found)) /\ r \in RC!Region /\ r.start < r.end
      BY <1>1, <1>2, TailAscending, Zenon
    <3> QED BY <3>1, <1>1, Zenon
  <2>3. ASSUME ~clash
        PROVE  RC!Sorted(found') /\ \A j \in 1..Len(found') : r.end <= found'[j].start
    <3>1. RC!Sorted(Tail(found)) /\ \A j \in 1..Len(Tail(found)) : r.end <= Tail(found)[j].start
      BY <2>3, <1>1, <1>2, TailSorted, Zenon
    <3> QED BY <3>1, <1>1, Zenon
  <2> QED BY <2>1, <2>2, <2>3, Zenon
<1>4. pieces' = cs
  BY <1>1, <1>3, Zenon
<1>5. /\ cs \in Seq(RC!Region)
      /\ \/ Len(cs) = 0 \/ Len(cs) = 1
         \/ Len(cs) = 2 /\ r.start < image.start /\ image.start < image.end /\ image.end < r.end
      /\ Within(cs, r.start, r.end)
      /\ RC!PagesOf(cs) = RC!Pages(r) \ RC!Pages(image)
  BY <1>2, <1>3, ClipOp, Zenon
<1> HIDE DEF cs, r
<1>6. BootTypeOK'
  <2>1. "register" # "collect" /\ "register" # "run"
    BY Zenon
  <2> QED BY <2>1, <1>1, <1>2, <1>3, <1>4, <1>5, Zenon DEF BootTypeOK
<1>7. RC!Ascending(found)' /\ SortedDisjoint'
  BY <1>1, <1>3, Zenon DEF SortedDisjoint, RC!SortedDisjoint, RC!Sorted, RC!Ascending
<1>8. \A p : Below(p)' <=> Below(p)
  BY <1>1, Zenon DEF Below
<1>9. ASSUME ~clash PROVE InOrder'
  <2>1. ASSUME NEW i \in 1..Len(cs)
        PROVE  /\ cs[i].start < cs[i].end /\ Below(cs[i].start)
               /\ \A j \in 1..Len(cs) : i < j => cs[i].end <= cs[j].start
               /\ \A j \in 1..(n - 1) : cs[i].end <= found'[j].start
    <3>1. /\ r.start <= cs[i].start /\ cs[i].start < cs[i].end /\ cs[i].end <= r.end
          /\ \A j \in 1..Len(cs) : i < j => cs[i].end <= cs[j].start
      BY <1>5, Zenon DEF Within
    <3>2. cs[i].start \in Nat /\ cs[i].end \in Nat /\ r.start \in Nat /\ r.end \in Nat
      BY <1>3, <1>5, ListOp, RangeOp, Zenon
    <3>3. Below(r.start)
      BY <1>2, <1>3, <1>9, Zenon DEF r
    <3>4. Below(cs[i].start)
      BY <3>1, <3>2, <3>3, BelowMono, Zenon
    <3>5. ASSUME NEW j \in 1..(n - 1) PROVE cs[i].end <= found'[j].start
      <4>1. r.end <= found'[j].start /\ found'[j].start \in Nat
        BY <1>3, <1>9, ListOp, RangeOp, Zenon
      <4>2. cs[i].end <= r.end
        BY <3>1, Zenon
      <4> QED BY <4>1, <4>2, <3>2, SMTT(30)
    <3> QED BY <3>1, <3>4, <3>5, Zenon
  <2>2. \A j \in 1..(n - 1) : Below(found'[j].start)
    BY <1>2, <1>3, <1>9, Zenon
  <2> QED BY <2>1, <2>2, <1>3, <1>4, <1>8, Zenon DEF InOrder
<1>10. ASSUME ~clash PROVE Room'
  <2> DEFINE k == Len(regions)
             c == Len(cs)
  <2>1. k \in Nat /\ c \in Nat /\ n \in Nat /\ Len(pieces) = 0 /\ n \in Nat \ {0}
    <3>1. n \in Nat /\ c \in Nat /\ 1 \in 1..n /\ Len(pieces) = 0
      BY <1>1, <1>2, <1>3, <1>5, ListOp, NoneOp, Zenon
    <3>2. k \in Nat
      BY DEF FrameInv, TypeOK
    <3> QED BY <3>1, <3>2
  <2>2. c = 2 => Splits(r) /\ image.start < image.end /\ image.end < r.end
    <3>1. 2 # 0 /\ 2 # 1
      OBVIOUS
    <3> QED BY <3>1, <1>5, Zenon DEF Splits
  <2>3. k + 0 + n <= MaxAdds + 1 /\ (Splits(r) => k + 0 + n <= MaxAdds)
    BY <2>1, <1>2, <1>3, <1>10, Zenon DEF r
  <2>4. c = 0 \/ c = 1 \/ c = 2
    BY <1>5, Zenon
  <2>5. ASSUME NEW j \in 1..(n - 1), Splits(found'[j]) PROVE c = 0 \/ c = 1
    <3>1. SUFFICES ASSUME c = 2 PROVE FALSE
      BY <2>4, Zenon
    <3>2. /\ image.start < image.end /\ image.end < r.end /\ r.end <= found'[j].start
          /\ found'[j].start < image.start
      BY <2>2, <2>5, <3>1, <1>3, <1>10, Zenon DEF Splits
    <3>3. /\ image.start \in Nat /\ image.end \in Nat /\ r.end \in Nat
          /\ found'[j].start \in Nat
      BY <1>2, <1>3, ListOp, RangeOp, Zenon
    <3> QED BY <3>2, <3>3
  <2>6. ASSUME NEW j \in 1..(n - 1), Splits(found'[j]) PROVE k + 0 + n <= MaxAdds
    BY <2>1, <2>6, <1>2, <1>3, <1>10, Zenon
  <2>7. ASSUME c = 0 \/ c = 1
        PROVE  /\ k + c + (n - 1) <= MaxAdds + 1
               /\ k + 0 + n <= MaxAdds => k + c + (n - 1) <= MaxAdds
    <3>1. k + 0 + n <= MaxAdds + 1
      BY <2>3, Zenon
    <3> HIDE DEF k, c, n
    <3> QED BY <3>1, <2>1, <2>7, BootAssumption
  <2>8. ASSUME c = 2 PROVE k + c + (n - 1) <= MaxAdds + 1
    <3>1. k + 0 + n <= MaxAdds
      BY <2>2, <2>3, <2>8, Zenon
    <3> HIDE DEF k, c, n
    <3> QED BY <3>1, <2>1, <2>8, BootAssumption
  <2>9. /\ k + c + (n - 1) <= MaxAdds + 1
        /\ \A j \in 1..(n - 1) : Splits(found'[j]) => k + c + (n - 1) <= MaxAdds
    BY <2>4, <2>5, <2>6, <2>7, <2>8, Zenon
  <2>10. \A x : Splits(x)' <=> Splits(x)
    BY <1>1, Zenon DEF Splits
  <2> QED BY <2>9, <2>10, <1>1, <1>3, <1>4, Zenon DEF Room
<1>11. Whereabouts'
  <2>1. RC!PagesOf(pieces) = {}
    BY <1>1, NoneOp, Zenon
  <2>2. usable' = Managed \cup RC!PagesOf(cs) \cup (RC!PagesOf(found') \ RC!Pages(image))
    BY <2>1, <1>1, <1>2, <1>3, <1>5, Zenon
  <2>3. Managed' = Managed
    BY <1>1, Zenon DEF Managed
  <2>4. "register" # "collect"
    BY Zenon
  <2>5. usable' = Managed' \cup RC!PagesOf(pieces') \cup (RC!PagesOf(found') \ RC!Pages(image'))
    BY <2>2, <2>3, <1>1, <1>4, Zenon
  <2> QED BY <2>4, <2>5, <1>1, Zenon DEF Whereabouts, RC!PagesOf, RC!Pages
<1> QED BY <1>1, <1>6, <1>7, <1>9, <1>10, <1>11, Zenon DEF BootInv

LEMMA RegisterKeeps == ASSUME FrameInv, BootInv, Register PROVE FrameInv' /\ BootInv'
<1> DEFINE p == pieces[1]
           m == p.end - p.start
           new == [start_ppn |-> p.start, frames |-> m, bitmap_base |-> tracked, next_hint |-> 0]
           n == Len(pieces)
           k == Len(regions)
<1>1. /\ phase = "register" /\ phase' = "register" /\ pieces # << >>
      /\ pieces' = Tail(pieces) /\ found' = found /\ image' = image /\ usable' = usable
      /\ clash' = clash
      /\ AddRegion(Head(pieces).start, Head(pieces).end - Head(pieces).start)
  BY Zenon DEF Register
<1>2. /\ pieces \in Seq(RC!Region) /\ found \in Seq(RC!Region) /\ image \in RC!Region
      /\ usable = Managed \cup RC!PagesOf(pieces) \cup (RC!PagesOf(found) \ RC!Pages(image))
      /\ ~clash =>
           /\ \A i \in 1..n : /\ pieces[i].start < pieces[i].end /\ Below(pieces[i].start)
                              /\ \A j \in 1..n : i < j => pieces[i].end <= pieces[j].start
                              /\ \A j \in 1..Len(found) : pieces[i].end <= found[j].start
           /\ k + n + Len(found) <= MaxAdds + 1
           /\ \A j \in 1..Len(found) : Splits(found[j]) => k + n + Len(found) <= MaxAdds
  BY <1>1, Zenon DEF BootInv, BootTypeOK, Whereabouts, InOrder, Room
<1>3. /\ Head(pieces) = p /\ 1 \in 1..n /\ Tail(pieces) \in Seq(RC!Region)
      /\ Len(Tail(pieces)) = n - 1
      /\ RC!PagesOf(pieces) = RC!Pages(Head(pieces)) \cup RC!PagesOf(Tail(pieces))
      /\ \A i \in 1..Len(Tail(pieces)) : /\ i + 1 \in 1..n /\ Tail(pieces)[i] = pieces[i + 1]
                                         /\ 1 < i + 1
                                         /\ \A j \in 1..Len(Tail(pieces)) : i < j => i + 1 < j + 1
  BY <1>1, <1>2, TailOp, Zenon
<1>4. /\ pieces' \in Seq(RC!Region) /\ Len(pieces') = n - 1
      /\ RC!PagesOf(pieces) = RC!Pages(p) \cup RC!PagesOf(pieces')
      /\ \A i \in 1..(n - 1) : /\ i + 1 \in 1..n /\ pieces'[i] = pieces[i + 1] /\ 1 < i + 1
                               /\ \A j \in 1..(n - 1) : i < j => i + 1 < j + 1
  BY <1>1, <1>3, Zenon
<1>5. AddRegion(p.start, m)
  BY <1>1, <1>3, Zenon
<1>6. /\ p \in RC!Region /\ p.start \in Nat /\ p.end \in Nat /\ p.start < p.end
      /\ ~clash => Below(p.start)
  <2>1. /\ p \in RC!Region /\ p.start \in Nat /\ p.end \in Nat /\ m > 0
        /\ ~clash => Below(p.start)
    BY <1>2, <1>3, <1>5, ListOp, RangeOp, Zenon DEF AddRegion
  <2> HIDE DEF p
  <2> QED BY <2>1
<1> HIDE DEF p
<1>7. m \in Nat /\ p.start + m = p.end /\ (p.start + m) - 1 = p.end - 1
  BY <1>6
<1>8. FrameInv'
  BY <1>6, <1>5, <1>7, AddKeeps, Zenon
<1>9. regions' = Append(regions, new) /\ tracked' = tracked + m
  BY <1>5, Zenon DEF AddRegion
<1>10. regions \in Seq(Region) /\ new \in Region /\ tracked \in Nat /\ k \in Nat
  <2>1. regions \in Seq(Region) /\ tracked \in Nat
    BY Zenon DEF FrameInv, TypeOK
  <2> QED BY <2>1, <1>6, <1>7 DEF Region
<1>11. new.start_ppn = p.start /\ new.frames = m
  BY Zenon
<1> HIDE DEF new
<1>12. /\ Len(regions') = k + 1 /\ regions'[k + 1] = new
       /\ \A i \in 1..k : regions'[i] = regions[i]
       /\ \A i \in 1..(k + 1) : i \in 1..k \/ i = k + 1
       /\ 1..k \subseteq 1..(k + 1) /\ k + 1 \in 1..(k + 1)
  BY <1>9, <1>10
<1> HIDE DEF m, k, n
<1> DEFINE Under(q) == /\ tracked' <= q
                       /\ \A i \in 1..Len(regions') : regions'[i].start_ppn + regions'[i].frames <= q
<1>13. ASSUME ~clash, NEW q \in Nat, p.end <= q PROVE Under(q)
  <2>1. tracked' <= q
    <3>1. tracked <= p.start
      BY <1>6, <1>13, Zenon DEF Below
    <3> QED BY <3>1, <1>6, <1>7, <1>9, <1>10, <1>13, SMTT(30)
  <2>2. p.start <= q
    BY <1>6, <1>13
  <2>3. Below(q)
    BY <2>2, <1>6, <1>13, BelowMono, Zenon
  <2>4. ASSUME NEW i \in 1..(k + 1) PROVE regions'[i].start_ppn + regions'[i].frames <= q
    <3>1. CASE i \in 1..k
      BY <3>1, <2>3, <1>12, Zenon DEF Below, k
    <3>2. CASE i = k + 1
      BY <3>2, <1>7, <1>11, <1>12, <1>13, Zenon
    <3> QED BY <3>1, <3>2, <1>12, Zenon
  <2> QED BY <2>1, <2>4, <1>12, Zenon
<1> HIDE DEF Under
<1>14. BootTypeOK'
  <2>1. "register" # "collect" /\ "register" # "run"
    OBVIOUS
  <2> QED BY <2>1, <1>1, <1>2, <1>4, Zenon DEF BootTypeOK
<1>15. RC!Ascending(found)' /\ SortedDisjoint'
  BY <1>1, Zenon DEF BootInv, SortedDisjoint, RC!SortedDisjoint, RC!Sorted, RC!Ascending
<1>16. ASSUME ~clash PROVE InOrder'
  <2>1. ASSUME NEW i \in 1..(n - 1)
        PROVE  /\ pieces'[i].start < pieces'[i].end /\ Under(pieces'[i].start)
               /\ \A j \in 1..(n - 1) : i < j => pieces'[i].end <= pieces'[j].start
               /\ \A j \in 1..Len(found) : pieces'[i].end <= found[j].start
    <3>1. i + 1 \in 1..n /\ pieces'[i] = pieces[i + 1] /\ 1 < i + 1 /\ 1 \in 1..n
      BY <1>3, <1>4, Zenon
    <3>2. p.end <= pieces[i + 1].start
      BY <3>1, <1>2, <1>16, Zenon DEF p
    <3>3. pieces[i + 1].start \in Nat
      BY <3>1, <1>2, ListOp, RangeOp, Zenon DEF n
    <3>4. Under(pieces'[i].start)
      BY <3>1, <3>2, <3>3, <1>13, <1>16, Zenon
    <3>5. \A j \in 1..(n - 1) : i < j => pieces'[i].end <= pieces'[j].start
      BY <3>1, <1>2, <1>4, <1>16, Zenon
    <3> QED BY <3>1, <3>4, <3>5, <1>2, <1>16, Zenon
  <2>2. ASSUME NEW j \in 1..Len(found) PROVE Under(found[j].start)
    <3>1. found[j].start \in Nat
      BY <1>2, ListOp, RangeOp, Zenon
    <3>2. p.end <= found[j].start
      BY <1>2, <1>3, <1>16, Zenon DEF p
    <3> QED BY <3>1, <3>2, <1>13, <1>16, Zenon
  <2> QED BY <2>1, <2>2, <1>1, <1>4, Zenon DEF InOrder, Below, Under
<1>17. ASSUME ~clash PROVE Room'
  <2>1. \A x : Splits(x)' <=> Splits(x)
    BY <1>1, Zenon DEF Splits
  <2>2. (k + 1) + (n - 1) + Len(found) = k + n + Len(found)
    <3>1. n \in Nat /\ Len(found) \in Nat
      BY <1>2, ListOp, Zenon DEF n
    <3> QED BY <3>1, <1>10
  <2> QED BY <2>1, <2>2, <1>1, <1>2, <1>4, <1>12, <1>17, Zenon DEF Room
<1>18. Whereabouts'
  <2>1. Managed' = Managed \cup RC!Pages(p)
    <3>1. FirstFrame(new)..LastFrame(new) = RC!Pages(p)
      <4>1. FirstFrame(new) = p.start
        BY <1>11, Zenon DEF FirstFrame
      <4>2. LastFrame(new) = p.end - 1
        BY <1>6, <1>7, <1>11 DEF LastFrame
      <4> QED BY <4>1, <4>2, Zenon DEF RC!Pages
    <3>2. ASSUME NEW x
          PROVE  x \in Managed' <=> x \in Managed \/ x \in RC!Pages(p)
      <4>1. x \in Managed' <=> \E i \in 1..(k + 1) : x \in FirstFrame(regions'[i])..LastFrame(regions'[i])
        BY <1>12, Zenon DEF Managed, FirstFrame, LastFrame
      <4>2. x \in Managed <=> \E i \in 1..k : x \in FirstFrame(regions[i])..LastFrame(regions[i])
        BY Zenon DEF Managed, k
      <4> QED BY <4>1, <4>2, <3>1, <1>12, Zenon
    <3> QED BY <3>2, Zenon
  <2>2. usable' = Managed' \cup RC!PagesOf(pieces') \cup (RC!PagesOf(found') \ RC!Pages(image'))
    BY <2>1, <1>1, <1>2, <1>4, Zenon
  <2>3. "register" # "collect"
    OBVIOUS
  <2> QED BY <2>2, <2>3, <1>1, Zenon DEF Whereabouts, RC!PagesOf, RC!Pages
<1> QED BY <1>1, <1>8, <1>14, <1>15, <1>16, <1>17, <1>18, Zenon DEF BootInv

\* A step that only moves hints is nothing to the boot.
LEMMA HintsOnly ==
  ASSUME FrameInv, FrameInv', BootInv, UNCHANGED bootVars, tracked' = tracked,
         Len(regions') = Len(regions),
         \A i \in 1..Len(regions) : /\ regions'[i].start_ppn = regions[i].start_ppn
                                    /\ regions'[i].frames = regions[i].frames
  PROVE  BootInv'
<1>1. /\ found' = found /\ reported' = reported /\ adds' = adds /\ image' = image
      /\ pieces' = pieces /\ usable' = usable /\ phase' = phase /\ clash' = clash
  BY Zenon DEF bootVars
<1>2. regions = << >> => regions' = << >>
  <2>1. regions \in Seq(Region) /\ regions' \in Seq(Region)
    BY Zenon DEF FrameInv, TypeOK
  <2> QED BY <2>1
<1>3. BootTypeOK'
  BY <1>1, <1>2, Zenon DEF BootInv, BootTypeOK
<1>4. RC!Ascending(found)' /\ SortedDisjoint'
  BY <1>1, Zenon DEF BootInv, SortedDisjoint, RC!SortedDisjoint, RC!Sorted, RC!Ascending
<1>5. ~clash' => InOrder'
  BY <1>1, Zenon DEF BootInv, InOrder, Below
<1>6. ~clash' => Room'
  BY <1>1, Zenon DEF BootInv, Room, Splits
<1>7. Whereabouts'
  <2>1. Managed' = Managed
    <3>1. ASSUME NEW i \in 1..Len(regions)
          PROVE  FirstFrame(regions'[i])..LastFrame(regions'[i])
                   = FirstFrame(regions[i])..LastFrame(regions[i])
      BY Zenon DEF FirstFrame, LastFrame
    <3>2. \A x : x \in Managed' <=> x \in Managed
      BY <3>1, Zenon DEF Managed, FirstFrame, LastFrame
    <3> QED BY <3>2, Zenon
  <2>2. phase = "collect" => RC!PagesOf(found') = reported'
    BY <1>1, Zenon DEF BootInv, Whereabouts, Exact, RC!Exact
  <2>3. phase \in {"register", "run"} =>
          usable' = Managed' \cup RC!PagesOf(pieces') \cup (RC!PagesOf(found') \ RC!Pages(image'))
    BY <2>1, <1>1, Zenon DEF BootInv, Whereabouts
  <2>4. phase' = phase
    BY <1>1, Zenon
  <2> QED BY <2>2, <2>3, <2>4, Zenon DEF Whereabouts, Exact, RC!Exact, RC!PagesOf, RC!Pages
<1> QED BY <1>3, <1>4, <1>5, <1>6, <1>7, Zenon DEF BootInv

LEMMA HintChange ==
  ASSUME NEW rs \in Seq(Region), NEW i \in 1..Len(rs), NEW h, NEW t,
         t = [rs EXCEPT ![i].next_hint = h]
  PROVE  /\ Len(t) = Len(rs)
         /\ \A j \in 1..Len(rs) : t[j].start_ppn = rs[j].start_ppn /\ t[j].frames = rs[j].frames
<1>1. Len(t) = Len(rs)
  OBVIOUS
<1>2. ASSUME NEW j \in 1..Len(rs) PROVE t[j].start_ppn = rs[j].start_ppn /\ t[j].frames = rs[j].frames
  <2>1. CASE j = i
    <3>1. rs[j] \in Region
      OBVIOUS
    <3>2. t[j] = [rs[j] EXCEPT !.next_hint = h]
      BY <2>1
    <3> QED BY <3>1, <3>2, Zenon DEF Region
  <2>2. CASE j # i
    <3>1. t[j] = rs[j]
      BY <2>2
    <3> QED BY <3>1, Zenon
  <2> QED BY <2>1, <2>2, Zenon
<1> QED BY <1>1, <1>2, Zenon

LEMMA AllocStep ==
  ASSUME FrameInv, BootInv, NEW c \in Nat \ {0}, AllocFrames(c), UNCHANGED bootVars
  PROVE  FrameInv' /\ BootInv'
<1> DEFINE fits == {k \in 1..Len(regions) : Candidate(regions[k], NextPowerOfTwo(c)) # {}}
           i == Min(fits)
<1>1. FrameInv' /\ tracked' = tracked /\ regions \in Seq(Region)
  BY AllocKeeps, Zenon DEF AllocFrames, FrameInv, TypeOK
<1>2. i \in 1..Len(regions)
  <2>1. fits \in SUBSET Nat
    BY <1>1
  <2>2. i \in fits
    BY <2>1, MinOp, Zenon DEF AllocFrames
  <2> QED BY <2>2, Zenon
<1>3. PICK h : regions' = [regions EXCEPT ![i].next_hint = h]
  BY Zenon DEF AllocFrames
<1> HIDE DEF i
<1>4. /\ Len(regions') = Len(regions)
      /\ \A j \in 1..Len(regions) : /\ regions'[j].start_ppn = regions[j].start_ppn
                                    /\ regions'[j].frames = regions[j].frames
  <2> DEFINE t == regions'
  <2>1. regions \in Seq(Region) /\ t = [regions EXCEPT ![i].next_hint = h]
    BY <1>1, <1>3, Zenon
  <2> HIDE DEF t
  <2>2. /\ Len(t) = Len(regions)
        /\ \A j \in 1..Len(regions) : /\ t[j].start_ppn = regions[j].start_ppn
                                      /\ t[j].frames = regions[j].frames
    BY <2>1, <1>2, HintChange
  <2> QED BY <2>2, Zenon DEF t
<1> QED BY <1>1, <1>4, HintsOnly, Zenon

LEMMA FreeStep ==
  ASSUME FrameInv, BootInv, NEW e, FreeFrames(e), UNCHANGED bootVars
  PROVE  FrameInv' /\ BootInv'
<1> DEFINE i == Min(Located(e.ppn, NextPowerOfTwo(e.count)))
<1>1. FrameInv' /\ tracked' = tracked /\ regions \in Seq(Region)
  BY FreeKeeps, Zenon DEF FreeFrames, FrameInv, TypeOK
<1>2. i \in 1..Len(regions)
  <2>1. Located(e.ppn, NextPowerOfTwo(e.count)) \in SUBSET Nat
    BY <1>1 DEF Located
  <2>2. i \in Located(e.ppn, NextPowerOfTwo(e.count))
    BY <2>1, MinOp, Zenon DEF FreeFrames
  <2> QED BY <2>2, Zenon DEF Located
<1>3. PICK h : regions' = [regions EXCEPT ![i].next_hint = h]
  BY Zenon DEF FreeFrames
<1> HIDE DEF i
<1>4. /\ Len(regions') = Len(regions)
      /\ \A j \in 1..Len(regions) : /\ regions'[j].start_ppn = regions[j].start_ppn
                                    /\ regions'[j].frames = regions[j].frames
  <2> DEFINE t == regions'
  <2>1. regions \in Seq(Region) /\ t = [regions EXCEPT ![i].next_hint = h]
    BY <1>1, <1>3, Zenon
  <2> HIDE DEF t
  <2>2. /\ Len(t) = Len(regions)
        /\ \A j \in 1..Len(regions) : /\ t[j].start_ppn = regions[j].start_ppn
                                      /\ t[j].frames = regions[j].frames
    BY <2>1, <1>2, HintChange
  <2> QED BY <2>2, Zenon DEF t
<1> QED BY <1>1, <1>4, HintsOnly, Zenon

LEMMA MemoryStutter ==
  ASSUME FrameInv, BootInv, UNCHANGED memVars
  PROVE  FrameInv' /\ BootInv'
<1>1. FrameInv'
  BY FramesStutter, Zenon DEF memVars
<1>2. regions' = regions /\ tracked' = tracked /\ UNCHANGED bootVars
  BY Zenon DEF memVars, vars
<1> QED BY <1>1, <1>2, HintsOnly, Zenon

(***************************************************************************)
(* The steps of the heap                                                   *)
(***************************************************************************)

LEMMA HeapStep ==
  ASSUME FrameInv, BootInv, [HeapNext]_slabVars
  PROVE  FrameInv' /\ BootInv'
<1>1. CASE Boot
  <2>1. ASSUME NEW start \in 0..MaxFrame, NEW end \in 0..MaxFrame, Collect(start, end)
        PROVE  FrameInv' /\ BootInv'
    <3>1. FrameInv'
      BY <2>1, FramesStutter, Zenon DEF Collect, vars
    <3> QED BY <3>1, <2>1, CollectKeeps, Zenon
  <2>2. ASSUME NEW hole \in RC!Region, FindImage(hole) PROVE FrameInv' /\ BootInv'
    <3>1. FrameInv'
      BY <2>2, FramesStutter, Zenon DEF FindImage, vars
    <3> QED BY <3>1, <2>2, FindImageKeeps, Zenon
  <2>3. CASE Clip
    <3>1. FrameInv'
      BY <2>3, FramesStutter, Zenon DEF Clip, vars
    <3> QED BY <3>1, <2>3, ClipKeeps, Zenon
  <2>4. CASE Register
    BY <2>4, RegisterKeeps, Zenon
  <2>5. CASE Booted
    <3>1. FrameInv'
      BY <2>5, FramesStutter, Zenon DEF Booted, vars
    <3> QED BY <3>1, <2>5, BootedKeeps, Zenon
  <2> QED BY <2>1, <2>2, <2>3, <2>4, <2>5, <1>1, Zenon DEF Boot
<1>2. CASE ServeOthers
  <2>1. UNCHANGED bootVars
    BY <1>2, Zenon DEF ServeOthers, bootVars
  <2>2. ASSUME NEW count \in 1..MaxCount, AllocFrames(count) PROVE FrameInv' /\ BootInv'
    <3>1. count \in Nat \ {0}
      BY FrameAssumption
    <3> QED BY <3>1, <2>1, <2>2, AllocStep, Zenon
  <2> QED BY <2>1, <2>2, <1>2, FreeStep, Zenon DEF ServeOthers
<1>3. ASSUME NEW l \in Layouts, AllocLarge(l) PROVE FrameInv' /\ BootInv'
  <2>1. LargeExtentFrames(l) \in Nat \ {0}
    BY LargeOp, Zenon
  <2> QED BY <2>1, <1>3, AllocStep, Zenon DEF AllocLarge, bootVars
<1>4. ASSUME NEW t \in Task, TakeFrames(t) PROVE FrameInv' /\ BootInv'
  <2>1. GrowPages \in Nat \ {0}
    BY SlabAssumption, FrameAssumption
  <2>2. UNCHANGED bootVars
    BY <1>4, Zenon DEF TakeFrames, bootVars
  <2>3. CASE AllocFrames(GrowPages)
    BY <2>1, <2>2, <2>3, AllocStep, Zenon
  <2>4. CASE UNCHANGED vars
    <3>1. UNCHANGED memVars
      BY <2>2, <2>4, Zenon DEF memVars
    <3> QED BY <3>1, MemoryStutter, Zenon
  <2> QED BY <2>3, <2>4, <1>4, Zenon DEF TakeFrames
<1>5. ASSUME NEW t \in Task, Grow(t) \/ Retry(t) \/ \E l \in Layouts : Alloc(t, l)
      PROVE  FrameInv' /\ BootInv'
  <2>1. UNCHANGED memVars
    BY <1>5, Zenon DEF Grow, Retry, Alloc, TryAllocate
  <2> QED BY <2>1, MemoryStutter, Zenon
<1>6. ASSUME NEW o \in live, Dealloc(o) PROVE FrameInv' /\ BootInv'
  <2>1. UNCHANGED bootVars
    BY <1>6, Zenon DEF Dealloc, bootVars
  <2>2. CASE UNCHANGED vars
    <3>1. UNCHANGED memVars
      BY <2>1, <2>2, Zenon DEF memVars
    <3> QED BY <3>1, MemoryStutter, Zenon
  <2>3. ASSUME NEW e, FreeFrames(e) PROVE FrameInv' /\ BootInv'
    BY <2>1, <2>3, FreeStep, Zenon
  <2> QED BY <2>2, <2>3, <1>6, Zenon DEF Dealloc
<1>7. CASE UNCHANGED slabVars
  <2>1. UNCHANGED memVars
    BY <1>7, Zenon DEF slabVars
  <2> QED BY <2>1, MemoryStutter, Zenon
<1> QED BY <1>1, <1>2, <1>3, <1>4, <1>5, <1>6, <1>7, Zenon DEF HeapNext

(***************************************************************************)
(* The theorems                                                            *)
(***************************************************************************)

LEMMA PiecesFit == ASSUME FrameInv, BootInv PROVE BootSucceeds
<1> SUFFICES ASSUME ~clash, NEW i \in 1..Len(pieces)
             PROVE  CanAdd(pieces[i].start, pieces[i].end - pieces[i].start)
  BY Zenon DEF BootSucceeds
<1> DEFINE p == pieces[i]
<1>1. pieces \in Seq(RC!Region) /\ pieces # << >>
  <2>1. pieces \in Seq(RC!Region)
    BY Zenon DEF BootInv, BootTypeOK
  <2> QED BY <2>1
<1>2. phase = "register"
  BY <1>1, Zenon DEF BootInv, BootTypeOK
<1>3. Len(regions) < MaxRegions
  <2>1. Len(pieces) \in Nat \ {0} /\ Len(found) \in Nat /\ Len(regions) \in Nat
    BY <1>1 DEF BootInv, BootTypeOK, FrameInv, TypeOK
  <2>2. Len(regions) + Len(pieces) + Len(found) <= MaxAdds + 1
    BY <1>2, Zenon DEF BootInv, Room
  <2> QED BY <2>1, <2>2, BootAssumption, FrameAssumption, SMTT(30)
<1>4. /\ p.start < p.end /\ Below(p.start) /\ p.start \in Nat /\ p.end \in Nat /\ p.end <= MaxFrame
  BY <1>1, ListOp, RangeOp, Zenon DEF BootInv, InOrder
<1> HIDE DEF p
<1>5. tracked \in Nat /\ tracked <= p.start
  BY <1>4, Zenon DEF FrameInv, TypeOK, Below
<1>6. tracked + (p.end - p.start) <= MaxFrame
  BY <1>4, <1>5, FrameAssumption
<1>7. ASSUME NEW j \in 1..Len(regions) PROVE p.start >= regions[j].start_ppn + regions[j].frames
  <2>1. /\ regions[j].start_ppn \in Nat /\ regions[j].frames \in Nat
        /\ regions[j].start_ppn + regions[j].frames <= p.start
    BY <1>4, RegionOp, Zenon DEF Below
  <2> QED BY <2>1, <1>4, Zenon
<1> QED BY <1>3, <1>6, <1>7, Zenon DEF CanAdd, p

LEMMA RunExact == ASSUME BootInv PROVE MemoryExact
<1> SUFFICES ASSUME phase = "run" PROVE usable = Managed
  BY Zenon DEF MemoryExact
<1>1. found = << >> /\ pieces = << >>
  BY Zenon DEF BootInv, BootTypeOK
<1> QED BY <1>1, NoneOp, Zenon DEF BootInv, Whereabouts

\* The invariants of the frame allocator and of the boot, which the steps of boot, heap
\* and the other users of frames all keep.
THEOREM MemoryInductive == HeapSpec => [](FrameInv /\ BootInv)
<1>1. HeapInit => FrameInv /\ BootInv
  BY MemStart, Zenon DEF HeapInit
<1>2. (FrameInv /\ BootInv) /\ [HeapNext]_slabVars => (FrameInv /\ BootInv)'
  BY HeapStep, Zenon
<1> QED BY <1>1, <1>2, PTL DEF HeapSpec

\* No frame has two owners, and every extent lies, aligned, in registered memory, for
\* any memory and any requests (alloc_frames, free_frames).
THEOREM FramesExclusive == HeapSpec => []Exclusive
<1>1. FrameInv => Exclusive
  BY Zenon DEF FrameInv
<1> QED BY <1>1, MemoryInductive, PTL

\* free_frames of an extent that is held passes its assertions, every marked frame has a
\* holder, and available_frames counts the others.
THEOREM FramesReturn == HeapSpec => [](FreesSucceed /\ NothingLeaks)
<1>1. FrameInv => FreesSucceed /\ NothingLeaks
  BY Zenon DEF FrameInv
<1> QED BY <1>1, MemoryInductive, PTL

\* The assertions of add_region (overlap, room in the table and in the bitmap) never stop
\* the boot, however many ranges the firmware reports, in whatever order, wherever the image
\* is: also where ranges overlap, unless add itself leaves two regions overlapping.
THEOREM BootAlwaysSucceeds == HeapSpec => []BootSucceeds
<1>1. FrameInv /\ BootInv => BootSucceeds
  BY PiecesFit, Zenon
<1> QED BY <1>1, MemoryInductive, PTL

\* The frame allocator manages the reported memory outside the image, to the page.
THEOREM MemoryAlwaysExact == HeapSpec => []MemoryExact
<1>1. BootInv => MemoryExact
  BY RunExact, Zenon
<1> QED BY <1>1, MemoryInductive, PTL

\* The bootstrap pages of two classes are two pages, and none is a frame of memory.
LEMMA BootPageOp == BootPagesApart
<1> DEFINE Under(c) == {d \in Classes : d < c}
<1>1. IsFiniteSet(Classes) /\ Cardinality(Classes) \in Nat
  <2>1. IsFiniteSet(1..Page)
    BY PageOp, FS_Interval
  <2>2. IsFiniteSet(Classes)
    BY <2>1, FS_Subset, Zenon DEF Classes
  <2> QED BY <2>2, FS_CardinalityType, Zenon
<1>2. ASSUME NEW c \in Classes, NEW S \in SUBSET Classes, Under(c) \subseteq S, c \in S
      PROVE  Cardinality(Under(c)) \in Nat /\ Cardinality(S) \in Nat /\ Cardinality(Under(c)) + 1 <= Cardinality(S)
  <2>1. IsFiniteSet(S) /\ IsFiniteSet(Under(c))
    BY <1>1, FS_Subset, Zenon
  <2>2. c \notin Under(c)
    BY ClassOp
  <2> DEFINE U == Under(c)
  <2> HIDE DEF U
  <2>3. IsFiniteSet(U) /\ c \notin U /\ U \subseteq S
    BY <2>1, <2>2, <1>2, Zenon DEF U
  <2>4. Cardinality(U \cup {c}) = Cardinality(U) + 1 /\ IsFiniteSet(U \cup {c})
    BY <2>3, FS_AddElement
  <2>5. U \cup {c} \subseteq S
    BY <2>3, <1>2, Zenon
  <2>6. Cardinality(U \cup {c}) <= Cardinality(S)
    BY <2>1, <2>5, FS_Subset, Zenon
  <2>7. Cardinality(U) \in Nat /\ Cardinality(S) \in Nat
    BY <2>1, <2>3, FS_CardinalityType, Zenon
  <2>8. Cardinality(U) + 1 <= Cardinality(S)
    BY <2>4, <2>6, Zenon
  <2> QED BY <2>7, <2>8, Zenon DEF U
<1>3. ASSUME NEW c \in Classes PROVE BootPage(c) \in MaxFrame..(MaxFrame + Cardinality(Classes) - 1)
  <2>1. /\ Cardinality(Under(c)) \in Nat
        /\ Cardinality(Under(c)) + 1 <= Cardinality(Classes)
    BY <1>2, Zenon
  <2> HIDE DEF Under
  <2>2. MaxFrame + Cardinality(Under(c)) \in MaxFrame..(MaxFrame + Cardinality(Classes) - 1)
    BY <2>1, <1>1, PageOp
  <2> QED BY <2>2, Zenon DEF BootPage, Under
<1>4. ASSUME NEW c \in Classes, NEW d \in Classes, c < d PROVE BootPage(c) # BootPage(d)
  <2>1. Under(c) \subseteq Under(d) /\ c \in Under(d)
    BY <1>4, ClassOp
  <2>2. /\ Cardinality(Under(c)) \in Nat /\ Cardinality(Under(d)) \in Nat
        /\ Cardinality(Under(c)) + 1 <= Cardinality(Under(d))
    BY <1>2, <2>1, Zenon
  <2> HIDE DEF Under
  <2>3. MaxFrame + Cardinality(Under(c)) # MaxFrame + Cardinality(Under(d))
    BY <2>2, PageOp
  <2> QED BY <2>3, Zenon DEF BootPage, Under
<1>5. \A c, d \in Classes : c # d => c < d \/ d < c
  BY ClassOp
<1> QED BY <1>3, <1>4, <1>5, Zenon DEF BootPagesApart

\* The invariant that GlobalAllocator's alloc and dealloc keep: every block of a class
\* is a multiple of it on pages of that class and is free or one object's, and every
\* extent taken from alloc_frames serves one purpose.
THEOREM HeapInductive == HeapSpec => []HeapInv
<1>1. HeapInit => HeapInv
  BY BootPageOp, HeapStart, Zenon
<1>2. FrameInv /\ BootInv /\ HeapInv /\ [HeapNext]_slabVars => HeapInv'
  BY BootPageOp, HeapStep, HeapKeeps, Zenon
<1> QED BY <1>1, <1>2, MemoryInductive, PTL DEF HeapSpec

\* What alloc hands out is as large and as aligned as the layout asks, shares no unit
\* with another object or a free block, and lies in memory that is the heap's alone,
\* whatever the classes, the layouts, the memory and the order of growth and frees.
THEOREM HeapAlwaysSound == HeapSpec => []HeapSound
<1>1. FrameInv /\ BootInv /\ HeapInv => HeapSound
  BY BootPageOp, InvIsSound, Zenon
<1> QED BY <1>1, MemoryInductive, HeapInductive, PTL

\* find_free_run, which skips past used frames, finds the first aligned free run of the
\* region, whatever is allocated and wherever the search starts.
THEOREM ScanAlwaysFirst == HeapSpec => []ScanFindsFirst
<1>1. FrameInv => ScanFindsFirst
  BY ScansFind, Zenon
<1> QED BY <1>1, MemoryInductive, PTL
=============================================================================
