----------------------------- MODULE Ext2Inode -----------------------------
(***************************************************************************)
(* Blocks and inodes of an ext2 filesystem: filesystems/kor-ext2/src/      *)
(* bitmap.rs, the block trees, truncation and extended attributes of       *)
(* inode.rs, the inode cache of lib.rs.  What a Rust function does is a    *)
(* set of outcomes: the filesystem it leaves and its result.  Where the    *)
(* function uses `?`, the outcome of the failing step is its own: what was *)
(* done before stays done.                                                 *)
(***************************************************************************)
EXTENDS Ext2Dir, FiniteSetsExt, TLC

CONSTANTS MaxBlock, BlocksPerGroup,      \* data blocks 1..MaxBlock, in groups
          MaxInode, InodesPerGroup,
          Direct, Ptrs, Levels,          \* 12, block_size / 4 and 3 in the code
          Handle,                        \* open files
          MaxFaults                      \* block writes that fail

Block == 1..MaxBlock
Ino   == 1..MaxInode
Root  == 1                               \* EXT2_ROOT_INO
Group == 0..((MaxBlock - 1) \div BlocksPerGroup)
BlockGroup(b)  == (b - 1) \div BlocksPerGroup
InodeGroup(i)  == (i - 1) \div InodesPerGroup

\* RawInode: size counts blocks, sectors (i_blocks) too; ptr[Direct + l - 1] is the root of
\* the tree of height l; a fast symlink keeps its target in ptr and has no blocks.
Raw(kind, links) == [kind |-> kind, links |-> links, size |-> 0, sectors |-> 0,
                     ptr |-> [k \in 0..(Direct + Levels - 1) |-> 0], acl |-> 0]
NoRaw == Raw("none", 0)
NoHandle == [ino |-> 0, own |-> FALSE, raw |-> NoRaw]

\* A block holds pointers, directory records or attributes with a reference count.
Zeroed == [ptrs |-> [k \in 0..(Ptrs - 1) |-> 0], recs |-> <<>>, refs |-> 0, attrs |-> {}]

----------------------------------------------------------------------------
Ok(st, v)   == {[result |-> "ok", st |-> st, val |-> v]}
Fail(st, e) == {[result |-> e, st |-> st, val |-> 0]}
\* `?`
Then(S, F(_, _)) == UNION {IF o.result = "ok" THEN F(o.st, o.val) ELSE {o} : o \in S}
\* The write of a block makes st into `written`; when it has returned the filesystem becomes
\* st2.  A write that fails may have taken effect: write_block_cached keeps the new contents
\* when it is the eviction of another block that fails.
IoThen(st, written, st2, v) ==
  Ok(st2, v)
    \cup (IF st.faults = 0 THEN {}
          ELSE UNION {Fail([s EXCEPT !.faults = @ - 1], "IoError") : s \in {st, written}})
Io(st, st2, v) == IoThen(st, st2, st2, v)
\* `let _ =`, and an error returned after it.
Despite(S, F(_)) == UNION {F(o.st) : o \in S}

----------------------------------------------------------------------------
(* bitmap.rs                                                               *)

\* alloc_block_goal: the first clear bit of the first group from the goal on whose count
\* is not zero and that has one.
AllocBlock(st, goal) ==
  LET order(b) == (BlockGroup(b) + Cardinality(Group) - goal) % Cardinality(Group)
      clear == {b \in Block \ st.used : st.free[BlockGroup(b)] # 0}
  IN IF clear = {} THEN Fail(st, "NoSpace")
     ELSE LET b == CHOOSE b \in clear : \A x \in clear :
                     order(b) < order(x) \/ (order(b) = order(x) /\ b <= x)
          IN IoThen(st, [st EXCEPT !.used = @ \cup {b}],
                    [st EXCEPT !.used = @ \cup {b}, !.free[BlockGroup(b)] = @ - 1, !.sbFree = @ - 1], b)

\* free_block clears the bit whatever it was.
FreeBlock(st, b) ==
  IF b \notin Block THEN Fail(st, "InvalidInput") ELSE
  IoThen(st, [st EXCEPT !.used = @ \ {b}],
         [st EXCEPT !.used = @ \ {b}, !.free[BlockGroup(b)] = @ + 1, !.sbFree = @ + 1], 0)

\* alloc_inode and init_inode
AllocInode(st) ==
  LET clear == {i \in Ino \ st.iused : st.ifree[InodeGroup(i)] # 0} IN
  IF clear = {} THEN Fail(st, "NoSpace")
  ELSE LET i == Min(clear)
       IN IoThen(st, [st EXCEPT !.iused = @ \cup {i}],
                 [st EXCEPT !.iused = @ \cup {i}, !.ifree[InodeGroup(i)] = @ - 1,
                            !.sbInodes = @ - 1], i)
InitInode(st, i, kind) == Io(st, [st EXCEPT !.disk[i] = Raw(kind, 1)], i)

\* free_inode, with invalidate_inode: who has the inode open keeps its copy alone.
FreeInode(st, i) ==
  IoThen(st, [st EXCEPT !.iused = @ \ {i}],
         [st EXCEPT !.iused = @ \ {i}, !.ifree[InodeGroup(i)] = @ + 1, !.sbInodes = @ + 1,
                    !.mem = [x \in DOMAIN @ \ {i} |-> @[x]],
                    !.handle = [h \in Handle |->
                      IF @[h].ino = i /\ ~@[h].own
                      THEN [ino |-> i, own |-> TRUE, raw |-> st.mem[i]] ELSE @[h]]], 0)

\* adjust_used_dirs
AdjustUsedDirs(st, i, delta) ==
  [st EXCEPT !.dirs[InodeGroup(i)] = IF delta > 0 THEN @ + 1 ELSE IF @ = 0 THEN 0 ELSE @ - 1]

----------------------------------------------------------------------------
(* Inodes in memory.  A copy is named by [own, ino]: the cached one of ino,  *)
(* or the one that the open file own has for itself.                       *)

Cached(i) == [own |-> "none", ino |-> i]
RawOf(st, c) == IF c.own = "none" THEN st.mem[c.ino] ELSE st.handle[c.own].raw
SetRaw(st, c, raw) == IF c.own = "none" THEN [st EXCEPT !.mem[c.ino] = raw]
                      ELSE [st EXCEPT !.handle[c.own].raw = raw]

\* get_inode and Ext2INode::read
GetInode(st, i) ==
  IF i \in DOMAIN st.mem THEN st ELSE [st EXCEPT !.mem = (i :> st.disk[i]) @@ @]

\* What is left in the cache when a call has returned: what is open (Weak).
Settle(st) ==
  [st EXCEPT !.mem = [i \in {j \in DOMAIN @ : \E h \in Handle : st.handle[h].ino = j /\ ~st.handle[h].own}
                        |-> @[i]]]

\* write_inode_to_disk
WriteInode(st, c) == Io(st, [st EXCEPT !.disk[c.ino] = RawOf(st, c)], 0)

----------------------------------------------------------------------------
(* Block trees.                                                            *)

Pow(l) == CASE l = 0 -> 1 [] l = 1 -> Ptrs [] l = 2 -> Ptrs * Ptrs [] OTHER -> Ptrs * Ptrs * Ptrs
\* The logical blocks that go through tree l come after this many.
Before(l) == IF l = 0 THEN 0 ELSE Direct + SumSet({Pow(k) : k \in 1..(l - 1)})
LevelOf(lb) == IF lb < Direct THEN 0 ELSE CHOOSE l \in 1..Levels : lb >= Before(l) /\ lb < Before(l) + Pow(l)
\* The slot of i_block, and the entry at height l of the tree.
Slot(lb) == IF LevelOf(lb) = 0 THEN lb ELSE Direct + LevelOf(lb) - 1
Entry(lb, l) == ((lb - Before(LevelOf(lb))) \div Pow(l - 1)) % Ptrs

RECURSIVE Follow(_, _, _, _)
\* read_indirect_entry, down from height l.
Follow(st, b, lb, l) ==
  IF b = 0 \/ l = 0 THEN b ELSE Follow(st, st.data[b].ptrs[Entry(lb, l)], lb, l - 1)
\* resolve_block_id
ResolveBlock(st, c, lb) == Follow(st, RawOf(st, c).ptr[Slot(lb)], lb, LevelOf(lb))

\* alloc_and_zero_block: a block that cannot be zeroed is freed again.
AllocZeroed(st, goal) ==
  Then(AllocBlock(st, goal), LAMBDA s, b :
    Ok([s EXCEPT !.data[b] = Zeroed], b)
      \cup (IF s.faults > 0
            THEN Despite(FreeBlock([s EXCEPT !.faults = @ - 1], b), LAMBDA s2 : Fail(s2, "IoError"))
            ELSE {}))

\* write_indirect_entry
WriteEntry(st, b, k, v) == Io(st, [st EXCEPT !.data[b].ptrs[k] = v], v)

RECURSIVE Descend(_, _, _, _, _, _)
\* The indirect blocks below b that are missing are made; then the entry of new is written.
\* The value is how many were made.
Descend(st, goal, b, lb, l, new) ==
  IF l = 1 THEN Then(WriteEntry(st, b, Entry(lb, 1), new), LAMBDA s, v : Ok(s, 0))
  ELSE LET next == st.data[b].ptrs[Entry(lb, l)] IN
       IF next # 0 THEN Descend(st, goal, next, lb, l - 1, new)
       ELSE Then(AllocZeroed(st, goal), LAMBDA s, x :
              Then(WriteEntry(s, b, Entry(lb, l), x), LAMBDA s2, v :
                Then(Descend(s2, goal, x, lb, l - 1, new), LAMBDA s3, n : Ok(s3, n + 1))))

\* allocate_block_for_offset: the value is the block and how many blocks are new.
AllocateFor(st, c, lb) ==
  LET goal == InodeGroup(c.ino)
      slot == Slot(lb)
      l    == LevelOf(lb)
      setTop(s, b) == SetRaw(s, c, [RawOf(s, c) EXCEPT !.ptr[slot] = b])
  IN IF ResolveBlock(st, c, lb) # 0 THEN Ok(st, <<ResolveBlock(st, c, lb), 0>>)
     ELSE Then(AllocBlock(st, goal), LAMBDA s, new :
       IF l = 0 THEN Ok(setTop(s, new), <<new, 1>>)
       ELSE IF RawOf(s, c).ptr[slot] # 0
       THEN Then(Descend(s, goal, RawOf(s, c).ptr[slot], lb, l, new),
                 LAMBDA s2, n : Ok(s2, <<new, n + 1>>))
       ELSE Then(AllocZeroed(s, goal), LAMBDA s2, top :
              Then(Descend(setTop(s2, top), goal, top, lb, l, new),
                   LAMBDA s3, n : Ok(s3, <<new, n + 2>>))))

RECURSIVE AllocateRun(_, _, _, _), WriteRun(_, _, _)
\* The blocks of n logical ones, and how many of all the blocks are new.
AllocateRun(st, c, lb, n) ==
  IF n = 0 THEN Ok(st, <<<<>>, 0>>)
  ELSE Then(AllocateFor(st, c, lb), LAMBDA s, v :
         Then(AllocateRun(s, c, lb + 1, n - 1), LAMBDA s2, w :
           Ok(s2, <<<<v[1]>> \o w[1], v[2] + w[2]>>)))
WriteRun(st, blocks, content) ==
  IF blocks = <<>> THEN Ok(st, 0)
  ELSE Then(Io(st, [st EXCEPT !.data[Head(blocks)] = content], 0), LAMBDA s, v :
         WriteRun(s, Tail(blocks), content))

\* write_at_locked, of n whole blocks: an early return leaves size and i_blocks alone.
WriteAt(st, c, lb, n, content) ==
  Then(AllocateRun(st, c, lb, n), LAMBDA s, v :
    Then(WriteRun(s, v[1], content), LAMBDA s2, u :
      WriteInode(SetRaw(s2, c, [RawOf(s2, c) EXCEPT !.size = Max({@, lb + n}),
                                                    !.sectors = @ + v[2]]), c)))

RECURSIVE FreeEach(_, _)
\* free_block for each of some blocks, up to the first that fails.
FreeEach(st, blocks) ==
  IF blocks = <<>> THEN Ok(st, 0)
  ELSE Then(FreeBlock(st, Head(blocks)), LAMBDA s, v : FreeEach(s, Tail(blocks)))

RECURSIVE TreeOf(_, _, _)
\* The blocks of a tree of height l, in the order free_indirect frees them: leaves first.
TreeOf(st, b, l) ==
  IF b = 0 THEN <<>>
  ELSE IF l = 0 THEN <<b>>
  ELSE Append(FlattenSeq([k \in 1..Ptrs |-> TreeOf(st, st.data[b].ptrs[k - 1], l - 1)]), b)
Trees(st, raw) ==
  FlattenSeq([k \in 1..(Direct + Levels) |->
                TreeOf(st, raw.ptr[k - 1], IF k <= Direct THEN 0 ELSE k - Direct)])

\* free_all_blocks
FreeAllBlocks(st, c) ==
  Then(FreeEach(st, Trees(st, RawOf(st, c))), LAMBDA s, v :
    Ok(SetRaw(s, c, [RawOf(s, c) EXCEPT !.ptr = NoRaw.ptr, !.sectors = 0]), 0))

\* recompute_i_blocks with count_indirect
RecomputeBlocks(st, c) ==
  LET raw == RawOf(st, c) IN
  SetRaw(st, c, [raw EXCEPT !.sectors = Len(Trees(st, raw)) + (IF raw.acl # 0 THEN 1 ELSE 0)])

RECURSIVE ClearEntry(_, _, _, _)
ClearEntry(st, b, lb, l) ==
  IF b = 0 THEN Ok(st, 0)
  ELSE IF l = 1 THEN WriteEntry(st, b, Entry(lb, 1), 0)
  ELSE ClearEntry(st, st.data[b].ptrs[Entry(lb, l)], lb, l - 1)

\* A slip: the block is freed but the entry of the tree stays.
FreeAndClearDirect(st, c, lb) ==
  LET b == ResolveBlock(st, c, lb) IN
  Then(IF b = 0 THEN Ok(st, 0) ELSE FreeBlock(st, b), LAMBDA s, v :
    IF LevelOf(lb) = 0 THEN Ok(SetRaw(s, c, [RawOf(s, c) EXCEPT !.ptr[lb] = 0]), 0) ELSE Ok(s, 0))

\* free_and_clear_logical
FreeAndClear(st, c, lb) ==
  LET b == ResolveBlock(st, c, lb) IN
  Then(IF b = 0 THEN Ok(st, 0) ELSE FreeBlock(st, b), LAMBDA s, v :
    IF LevelOf(lb) = 0 THEN Ok(SetRaw(s, c, [RawOf(s, c) EXCEPT !.ptr[lb] = 0]), 0)
    ELSE ClearEntry(s, RawOf(s, c).ptr[Slot(lb)], lb, LevelOf(lb)))

RECURSIVE Prune(_, _, _), PruneEntries(_, _, _, _)
\* prune_indirect: the value says whether block b is left without pointers.  The pointers
\* are written once, after the loop.
PruneEntries(st, ptrs, l, k) ==
  IF k = Ptrs THEN Ok(st, ptrs)
  ELSE IF ptrs[k] = 0 THEN PruneEntries(st, ptrs, l, k + 1)
  ELSE Then(Prune(st, ptrs[k], l - 1), LAMBDA s, empty :
         IF ~empty THEN PruneEntries(s, ptrs, l, k + 1)
         ELSE Then(FreeBlock(s, ptrs[k]), LAMBDA s2, v :
                PruneEntries(s2, [ptrs EXCEPT ![k] = 0], l, k + 1)))
Prune(st, b, l) ==
  LET none(ptrs) == \A k \in 0..(Ptrs - 1) : ptrs[k] = 0 IN
  IF l = 1 THEN Ok(st, none(st.data[b].ptrs))
  ELSE Then(PruneEntries(st, st.data[b].ptrs, l, 0), LAMBDA s, ptrs :
         IF ptrs = s.data[b].ptrs THEN Ok(s, none(ptrs))
         ELSE Io(s, [s EXCEPT !.data[b].ptrs = ptrs], none(ptrs)))

RECURSIVE PruneEmpty(_, _, _)
\* prune_empty_indirects, from height l on
PruneEmpty(st, c, l) ==
  LET slot == Direct + l - 1
      b    == RawOf(st, c).ptr[slot]
  IN IF l > Levels THEN Ok(st, 0)
     ELSE IF b = 0 THEN PruneEmpty(st, c, l + 1)
     ELSE Then(Prune(st, b, l), LAMBDA s, empty :
            IF ~empty THEN PruneEmpty(s, c, l + 1)
            ELSE Then(FreeBlock(s, b), LAMBDA s2, v :
                   PruneEmpty(SetRaw(s2, c, [RawOf(s2, c) EXCEPT !.ptr[slot] = 0]), c, l + 1)))

RECURSIVE ClearFrom(_, _, _, _)
ClearFrom(st, c, lb, end) ==
  IF lb >= end THEN Ok(st, 0)
  ELSE Then(FreeAndClear(st, c, lb), LAMBDA s, v : ClearFrom(s, c, lb + 1, end))

\* truncate_to
TruncateTo(st, c, size) ==
  LET cur == RawOf(st, c).size
      setSize(s) == SetRaw(s, c, [RawOf(s, c) EXCEPT !.size = size])
  IN Then(IF size = 0 THEN Then(FreeAllBlocks(st, c), LAMBDA s, v : Ok(setSize(s), 0))
          ELSE IF size >= cur THEN Ok(setSize(st), 0)
          ELSE Then(ClearFrom(st, c, size, cur), LAMBDA s, v :
                 Then(PruneEmpty(s, c, 1), LAMBDA s2, u : Ok(RecomputeBlocks(setSize(s2), c), 0))),
          LAMBDA s, v : WriteInode(s, c))
=============================================================================
