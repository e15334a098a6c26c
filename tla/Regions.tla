------------------------------ MODULE Regions ------------------------------
(***************************************************************************)
(* The boot-time RegionCollector of kor: page-aligned half-open ranges are *)
(* kept in an array sorted by their start, joined where they touch.        *)
(* Addresses are page numbers.                                             *)
(***************************************************************************)
EXTENDS Naturals, Sequences

CONSTANTS MaxPage,      \* bound: pages are 0..MaxPage - 1
          MaxAdds       \* bound: ranges the firmware reports (MAX_REGIONS = 32)

VARIABLES regions,   \* regions[..num], in order
          given,     \* history: the pages reported
          adds,      \* how many ranges were reported
          clash      \* history: one of them was left to overlap a region

vars == <<regions, given, adds, clash>>

Region == [start : 0..MaxPage, end : 0..MaxPage]
Pages(r) == r.start..(r.end - 1)

TypeOK ==
  /\ regions \in Seq(Region) /\ given \subseteq 0..(MaxPage - 1) /\ adds \in 0..MaxAdds
  /\ clash \in BOOLEAN

Init == regions = <<>> /\ given = {} /\ adds = 0 /\ clash = FALSE

\* The two copy_within: the regions from i on move up, and r takes the place (insert);
\* those after i move down over it.
Insert(rs, i, r) ==
  [j \in 1..(Len(rs) + 1) |-> IF j < i THEN rs[j] ELSE IF j = i THEN r ELSE rs[j - 1]]
CloseUp(rs, i) == [j \in 1..(Len(rs) - 1) |-> IF j < i THEN rs[j] ELSE rs[j + 1]]

\* A slip: the neighbour stays in the list.
TryMergeKeeps(rs, i) ==
  IF i + 1 <= Len(rs) /\ rs[i].end >= rs[i + 1].start
  THEN [rs EXCEPT ![i].end = rs[i + 1].end]
  ELSE rs

\* try_merge(i): region i swallows its right neighbour, if they touch.
TryMerge(rs, i) ==
  IF i + 1 <= Len(rs) /\ rs[i].end >= rs[i + 1].start
  THEN CloseUp([rs EXCEPT ![i].end = IF rs[i + 1].end > @ THEN rs[i + 1].end ELSE @], i + 1)
  ELSE rs

\* Where the scan of add() stops: at the first region that starts before the new one
\* and reaches it, or at the first that does not start before it.
Stop(rs, new) ==
  LET stops == {i \in 1..Len(rs) : rs[i].start < new.start => rs[i].end >= new.start}
  IN IF stops = {} THEN Len(rs) + 1 ELSE CHOOSE i \in stops : \A j \in stops : i <= j

Added(rs, new) ==
  LET i == Stop(rs, new) IN
  IF i <= Len(rs) /\ rs[i].start < new.start
  THEN IF new.end > rs[i].end THEN TryMerge([rs EXCEPT ![i].end = new.end], i) ELSE rs
  ELSE IF i > 1 /\ rs[i - 1].end = new.start
  THEN TryMerge([rs EXCEPT ![i - 1].end = new.end], i - 1)
  ELSE Insert(rs, i, new)

\* add() takes in a region that the new range overlaps if it starts before that range, and
\* with it (try_merge) the region after it.  What else overlaps it stays in the list.
Overlaps(r, new) == r.start < new.end /\ new.start < r.end
Reaches(r, new) == r.start < new.start /\ new.start <= r.end
Handled(rs, new) ==
  \A i \in 1..Len(rs) :
    Overlaps(rs[i], new) => Reaches(rs[i], new) \/ (i > 1 /\ Reaches(rs[i - 1], new))

\* add(start, end).  Ranges may overlap, in any order.
Add(start, end) ==
  LET new == [start |-> start, end |-> end] IN
  /\ adds < MaxAdds
  /\ start < end
  /\ regions' = Added(regions, new)
  /\ given' = given \cup Pages(new)
  /\ adds' = adds + 1
  /\ clash' = (clash \/ ~Handled(regions, new))

Next == \E start, end \in 0..MaxPage : Add(start, end)

Spec == Init /\ [][Next]_vars

\* A slip: the piece above the image is forgotten.
ClipBelow(r, hole) ==
  IF hole.start >= hole.end \/ r.end <= hole.start \/ r.start >= hole.end
  THEN <<r>>
  ELSE IF r.start < hole.start THEN <<[start |-> r.start, end |-> hole.start]>> ELSE <<>>

(***************************************************************************)
(* clip_region: the pieces of a region outside the kernel image, in order. *)
(***************************************************************************)
ClipRegion(r, hole) ==
  IF hole.start >= hole.end \/ r.end <= hole.start \/ r.start >= hole.end
  THEN <<r>>
  ELSE (IF r.start < hole.start THEN <<[start |-> r.start, end |-> hole.start]>> ELSE <<>>)
       \o (IF r.end > hole.end THEN <<[start |-> hole.end, end |-> r.end]>> ELSE <<>>)

(***************************************************************************)
(* Properties                                                              *)
(***************************************************************************)

\* The regions are in the order of their starts.
Ascending(rs) ==
  \A i \in 1..Len(rs) :
    /\ rs[i].start < rs[i].end
    /\ \A j \in 1..Len(rs) : i < j => rs[i].start <= rs[j].start

\* "add_region maintains sorted, non-overlapping, page-aligned region list": each
\* region ends before, or where, a later one starts.
Sorted(rs) ==
  \A i \in 1..Len(rs) :
    /\ rs[i].start < rs[i].end
    /\ \A j \in 1..Len(rs) : i < j => rs[i].end <= rs[j].start
SortedDisjoint == ~clash => Sorted(regions)

\* No page is lost or invented, in whatever order the ranges are reported.
PagesOf(rs) == UNION {Pages(rs[i]) : i \in 1..Len(rs)}
Exact == PagesOf(regions) = given
=============================================================================
