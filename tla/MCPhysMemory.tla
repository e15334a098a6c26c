---------------------------- MODULE MCPhysMemory ----------------------------
(***************************************************************************)
(* Two tasks, pages of two units (classes of one and two), growth by two   *)
(* pages; a small object, a small one aligned to a page, a large one and   *)
(* an over-aligned one.                                                    *)
(***************************************************************************)
EXTENDS SlabHeap, TLC

MCLayouts == {[size |-> 1, align |-> 1], [size |-> 1, align |-> 2],
              [size |-> 3, align |-> 1], [size |-> 1, align |-> 8]}
MCSymmetry == Permutations(Task)
MCHeapMemory == {0..3}
=============================================================================
