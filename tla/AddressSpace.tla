--------------------------- MODULE AddressSpace ---------------------------
(***************************************************************************)
(* AddressSpace of apps/korix/src/mm/mod.rs (a page-table root and the map *)
(* of user pages that goes with it) and the program loader of              *)
(* apps/korix/src/user/elf.rs that fills one, as functions on the memory   *)
(* and the space.  A process uses its space under its own lock.  The       *)
(* operations that take mappings out (unmap_range, replace_zeroed and      *)
(* protect_range) depend on what other processors do with the frames in    *)
(* between: their steps are in UserMemory.                                 *)
(***************************************************************************)
EXTENDS PageTable, Sequences, SequencesExt

CONSTANTS Stack      \* the pages of the stack, STACK_TOP - STACK_SIZE up to STACK_TOP

\* A space is its root and its pages, a function from some of the virtual pages to VmPages.
VmPage  == [phys : Frame, flags : SUBSET Flag]
NoPages == [va \in {} |-> 0]

IsMapped(s, va) == va \in DOMAIN s.pages

\* range_is_free; the range may reach past the end of the user half.
RangeIsFree(s, first, last) == last \in Page /\ \A va \in first..last : ~IsMapped(s, va)

\* validate_range
ValidateRange(s, first, last, write) ==
  /\ first \in Page /\ last \in Page
  /\ \A va \in first..last : IsMapped(s, va) /\ (write => "W" \in s.pages[va].flags)

WithPage(s, va, phys, flags) ==
  [s EXCEPT !.pages = (va :> [phys |-> phys, flags |-> flags]) @@ @]
WithoutPages(s, vas) == [s EXCEPT !.pages = Restrict(@, DOMAIN @ \ vas)]

\* A frame as write_bytes leaves it.
Zeroed(m, f) == [m EXCEPT !.data[f] = 0]

\* map_zeroed, on a state [result, m, s] that an earlier failure leaves as it is.
MapZeroed(st, va, flags) ==
  LET f == AllocFrame(st.m)
      r == Map([st.m EXCEPT !.free = @ \ {f}], st.s.root, va, f, flags)
  IN CASE st.result # "ok" -> st
       [] st.result = "ok" /\ IsMapped(st.s, va) -> [st EXCEPT !.result = "blocked"]
       [] st.result = "ok" /\ ~IsMapped(st.s, va) /\ st.m.free = {} ->
            [st EXCEPT !.result = "oom"]
       [] OTHER ->
            IF r.result = "ok"
            THEN [result |-> "ok", m |-> Zeroed(r.m, f), s |-> WithPage(st.s, va, f, flags)]
            ELSE [result |-> r.result, m |-> FreeFrames(r.m, {f}), s |-> st.s]

RECURSIVE Ascending(_)
Ascending(S) == IF S = {} THEN <<>> ELSE <<Min(S)>> \o Ascending(S \ {Min(S)})

MapAll(st, vas, flags) == FoldLeft(LAMBDA x, va : MapZeroed(x, va, flags), st, Ascending(vas))

\* AddressSpace::empty
Empty(m) == [result |-> "ok", m |-> NewUser(m), s |-> [root |-> AllocFrame(m), pages |-> NoPages]]

\* AddressSpace::fork: a page of its own with the same bytes for each page of s.
ForkSpace(m, s) ==
  FoldLeft(LAMBDA st, va :
             LET x == MapZeroed(st, va, s.pages[va].flags)
             IN IF x.result # "ok" THEN x
                ELSE [x EXCEPT !.m.data[x.s.pages[va].phys] = m.data[s.pages[va].phys]],
           Empty(m), Ascending(DOMAIN s.pages))

\* populate, and write, which looks at the permissions: the bytes of process p go to the
\* pages, all of which the map must have.
Copied(st, first, last, write, p) ==
  IF st.result = "ok" /\ ValidateRange(st.s, first, last, write)
  THEN [st EXCEPT !.m.data = [f \in Frame |->
          IF \E va \in first..last : st.s.pages[va].phys = f THEN p ELSE @[f]]]
  ELSE [st EXCEPT !.result = IF @ = "ok" THEN "blocked" ELSE @]
Populate(st, first, last, p) == Copied(st, first, last, FALSE, p)
WriteBytes(st, first, last, p) == Copied(st, first, last, TRUE, p)

\* load_active: a page that several segments touch gets the permissions of all of them,
\* and the bytes of the file.  An image is a sequence of segments [first, last, flags].
ImagePages(image) == UNION {seg.first..seg.last : seg \in Range(image)}
PageFlags(image, va) ==
  UNION {seg.flags : seg \in {g \in Range(image) : va \in g.first..g.last}}
LoadActive(st, image, p) ==
  FoldLeft(LAMBDA x, va : Populate(MapZeroed(x, va, PageFlags(image, va)), va, va, p), st,
           Ascending(ImagePages(image)))

\* setup_user_stack: the arguments and the words above them reach down to page `low`;
\* when that is below the stack the write finds nothing mapped.
SetupUserStack(st, low, p) ==
  WriteBytes(MapAll(st, Stack, {"R", "W"}), low, Max(Stack), p)

\* load_program
LoadProgram(st, image, low, p) == SetupUserStack(LoadActive(st, image, p), low, p)
=============================================================================
