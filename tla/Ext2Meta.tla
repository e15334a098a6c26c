----------------------------- MODULE Ext2Meta ------------------------------
(***************************************************************************)
(* The calls of Ext2INode (filesystems/kor-ext2/src/inode.rs): each takes  *)
(* the filesystem's metadata transaction lock and is one step.  A call     *)
(* that is refused before it changes anything is left out.  A call that    *)
(* fails later leaves what it did.                                         *)
(***************************************************************************)
EXTENDS Ext2Inode

CONSTANTS MaxSize,             \* blocks of a file
          Plans, Faulty,       \* workloads: for each call in turn, the kinds it may be of;
                               \* in a faulty one writes may fail
          Device,              \* the number in i_block[0] of a device node
          UseDetached          \* whether a file is used when its last name is gone

VARIABLES
  fs,          \* the filesystem, its device and what is in memory
  plan,        \* the calls still to be made
  whole,       \* history: no call failed half-way
  struck,      \* history: a device node lost its last name, and unlink_locked took its
               \* number for that of a block
  panicked     \* a call did not return

vars == <<fs, plan, whole, struck, panicked>>

----------------------------------------------------------------------------
(* Directories.                                                            *)

DirOf(st, c) == [k \in 1..RawOf(st, c).size |-> st.data[ResolveBlock(st, c, k - 1)].recs]
Lookup(st, i, nm) == LookupName(DirOf(st, Cached(i)), nm)
DirBlockOf(recs) == [Zeroed EXCEPT !.recs = recs]

\* add_dir_entry and remove_dir_entry on the directory d
AddEntry(st, d, nm, i) ==
  LET a == AddDirEntry(DirOf(st, Cached(d)), nm, i) IN
  IF a.result = "panic" THEN Fail(st, "panic")
  ELSE WriteAt(st, Cached(d), a.at - 1, 1, DirBlockOf(a.block))
RemoveEntry(st, d, nm) ==
  LET r == RemoveDirEntry(DirOf(st, Cached(d)), nm) IN
  IF Lookup(st, d, nm) = 0 THEN Fail(st, "NotFound")
  ELSE WriteAt(st, Cached(d), r.at - 1, 1, DirBlockOf(r.block))

Links(st, c, delta) == SetRaw(st, c, [RawOf(st, c) EXCEPT !.links =
                         IF delta > 0 THEN @ + 1 ELSE IF @ = 0 THEN 0 ELSE @ - 1])

----------------------------------------------------------------------------
(* Calls.  Every operand is in memory: Load.                               *)

RECURSIVE Load(_, _)
Load(st, S) == IF S = {} THEN st ELSE LET i == CHOOSE i \in S : TRUE IN Load(GetInode(st, i), S \ {i})

\* alloc_inode and init_inode with the inode given back when it cannot be written
NewInode(st, kind) ==
  Then(AllocInode(st), LAMBDA s, i :
    UNION {IF o.result = "ok" THEN {o} ELSE Despite(FreeInode(o.st, i), LAMBDA s2 : Fail(s2, o.result))
           : o \in InitInode(s, i, kind)})

\* create_child: when the entry cannot be made the inode is not given back.
CreateChild(st, d, nm, kind) ==
  Then(NewInode(st, kind), LAMBDA s, i :
    Then(AddEntry(s, d, nm, i), LAMBDA s2, v :
      LET s3 == GetInode(s2, i) IN
      IF kind # "device" THEN Ok(s3, i)
      ELSE LET s4 == SetRaw(s3, Cached(i), [RawOf(s3, Cached(i)) EXCEPT !.ptr[0] = Device])
           IN Then(WriteInode(s4, Cached(i)), LAMBDA s5, u : Ok(s5, i))))

\* symlink with write_symlink_target: short targets go into the inode.
Symlink(st, d, nm, size) ==
  Then(CreateChild(st, d, nm, "symlink"), LAMBDA s, i :
    IF size = 0 THEN WriteInode(s, Cached(i)) ELSE WriteAt(s, Cached(i), 0, size, Zeroed))

\* mkdir
Mkdir(st, d, nm) ==
  Then(NewInode(st, "dir"), LAMBDA s, i :
    Then(UNION {IF o.result \in {"ok", "panic"} THEN {o}
                ELSE Despite(FreeInode(o.st, i), LAMBDA s2 : Fail(s2, o.result))
                : o \in AddEntry(s, d, nm, i)}, LAMBDA s1, v1 :
      Then(AddEntry(GetInode(s1, i), i, ".", i), LAMBDA s2, v2 :
        Then(AddEntry(s2, i, "..", d), LAMBDA s3, v3 :
          Then(WriteInode(Links(s3, Cached(i), 1), Cached(i)), LAMBDA s4, v4 :
            Then(WriteInode(Links(s4, Cached(d), 1), Cached(d)), LAMBDA s5, v5 :
              Ok(AdjustUsedDirs(s5, i, 1), i)))))))

\* release_xattr_block
ReleaseXattr(st, c) ==
  LET acl == RawOf(st, c).acl
      drop(s) == SetRaw(s, c, [RawOf(s, c) EXCEPT !.acl = 0])
  IN IF acl = 0 THEN Ok(st, 0)
     ELSE Then(IF st.data[acl].refs > 1 THEN Io(st, [st EXCEPT !.data[acl].refs = @ - 1], 0)
               ELSE FreeBlock(st, acl),
               LAMBDA s, v : Ok(drop(s), 0))

\* unlink_locked
Unlink(st, d, nm) ==
  LET i == Lookup(st, d, nm)
      c == Cached(i)
      inline(s) == RawOf(s, c).kind = "symlink" /\ RawOf(s, c).sectors = 0
  IN Then(RemoveEntry(GetInode(st, i), d, nm), LAMBDA s, v :
       LET s1 == Links(s, c, -1) IN
       IF RawOf(s1, c).links > 0 THEN WriteInode(s1, c)
       ELSE Then(IF inline(s1) THEN Ok(s1, 0) ELSE FreeAllBlocks(s1, c), LAMBDA s2, v2 :
              Then(ReleaseXattr(s2, c), LAMBDA s3, v3 :
                Then(WriteInode(s3, c), LAMBDA s4, v4 : FreeInode(s4, i)))))

\* rmdir_locked, once the directory is known to be empty
Rmdir(st, d, nm) ==
  LET i == Lookup(st, d, nm)
      c == Cached(i)
      noLinks(s) == SetRaw(s, c, [RawOf(s, c) EXCEPT !.links = 0])
  IN Then(RemoveEntry(GetInode(st, i), d, nm), LAMBDA s, v :
       Then(WriteInode(Links(s, Cached(d), -1), Cached(d)), LAMBDA s1, v1 :
         Then(FreeAllBlocks(s1, c), LAMBDA s2, v2 :
           Then(ReleaseXattr(s2, c), LAMBDA s3, v3 :
             Then(WriteInode(noLinks(s3), c), LAMBDA s4, v4 :
               FreeInode(AdjustUsedDirs(s4, i, -1), i))))))

IsEmpty(st, i) == Listed(DirOf(st, Cached(i))) = {}

\* link: the target is an open file.
Link(st, d, nm, c) ==
  Then(AddEntry(st, d, nm, c.ino), LAMBDA s, v : WriteInode(Links(s, c, 1), c))

\* A slip: a directory may go anywhere.
IsAncestorNever(st, a, d, n) == FALSE
RECURSIVE IsAncestor(_, _, _, _)
\* dir_is_ancestor_or_self: up along "..", at most n times; a directory without ".." is an
\* error, which refuses the move too.
IsAncestor(st, a, d, n) ==
  IF d = a THEN TRUE
  ELSE IF d = Root THEN FALSE
  ELSE IF n = 0 THEN TRUE
  ELSE LET up == Lookup(GetInode(st, d), d, "..")
       IN IF up = 0 THEN TRUE ELSE IF up = d THEN FALSE ELSE IsAncestor(GetInode(st, d), a, up, n - 1)

\* A slip: the parent it leaves keeps its link.
ReparentKeeps(st, i, d, d2) ==
  Then(RemoveEntry(st, i, ".."), LAMBDA s, v :
    Then(AddEntry(s, i, "..", d2), LAMBDA s1, v1 :
      Then(WriteInode(Links(s1, Cached(d2), 1), Cached(d2)), LAMBDA s3, v3 :
        Ok(AdjustUsedDirs(AdjustUsedDirs(s3, d, -1), d2, 1), 0))))

\* A directory moved to another parent: its ".." and the links of both parents.
Reparent(st, i, d, d2) ==
  Then(RemoveEntry(st, i, ".."), LAMBDA s, v :
    Then(AddEntry(s, i, "..", d2), LAMBDA s1, v1 :
      Then(WriteInode(Links(s1, Cached(d), -1), Cached(d)), LAMBDA s2, v2 :
        Then(WriteInode(Links(s2, Cached(d2), 1), Cached(d2)), LAMBDA s3, v3 :
          Ok(AdjustUsedDirs(AdjustUsedDirs(s3, d, -1), d2, 1), 0)))))

\* rename: what has the new name is removed first.
Rename(st, d, nm, d2, nm2) ==
  LET i     == Lookup(st, d, nm)
      there == Lookup(st, d2, nm2)
      s0    == Load(st, {i} \cup ({there} \ {0}))
      isDir == s0.mem[i].kind = "dir"
  IN IF isDir /\ IsAncestor(s0, i, d2, MaxInode) THEN Fail(st, "refused")
     ELSE IF there = i THEN Ok(st, 0)
     ELSE IF there # 0 /\ s0.mem[there].kind = "dir" /\ ~IsEmpty(s0, there) THEN Fail(st, "refused")
     ELSE Then(IF there = 0 THEN Ok(s0, 0)
               ELSE IF s0.mem[there].kind = "dir" THEN Rmdir(s0, d2, nm2) ELSE Unlink(s0, d2, nm2),
               LAMBDA s1, v1 :
            Then(AddEntry(s1, d2, nm2, i), LAMBDA s2, v2 :
              Then(RemoveEntry(s2, d, nm), LAMBDA s3, v3 :
                IF isDir /\ d # d2 THEN Reparent(s3, i, d, d2) ELSE Ok(s3, 0))))

\* serialize_block: the image of a block of its own with the attributes, if they fit.
AttrRoom == 2
AttrSize(a) == IF a = "long" THEN AttrRoom + 1 ELSE 1
Serialize(attrs) ==
  IF MapThenSumSet(AttrSize, attrs) > AttrRoom THEN {}
  ELSE {[Zeroed EXCEPT !.refs = 1, !.attrs = attrs]}

\* store_xattr_block
StoreXattr(st, c, image) ==
  LET acl    == RawOf(st, c).acl
      shared == st.data[acl].refs > 1
      set(s, b, n) == SetRaw(s, c, [RawOf(s, c) EXCEPT !.acl = b, !.sectors = @ + n])
      fresh(s) == Then(AllocBlock(s, InodeGroup(c.ino)), LAMBDA s1, b :
                    Io(s1, [s1 EXCEPT !.data[b] = image], b))
  IN IF acl = 0 THEN Then(fresh(st), LAMBDA s, b : Ok(set(s, b, 1), 0))
     ELSE IF shared
     THEN Then(fresh(st), LAMBDA s, b :
            Then(Io(s, [s EXCEPT !.data[acl].refs = @ - 1], 0), LAMBDA s1, v : Ok(set(s1, b, 0), 0)))
     ELSE Io(st, [st EXCEPT !.data[acl] = image], 0)

AttrsOf(st, c) == IF RawOf(st, c).acl = 0 THEN {} ELSE st.data[RawOf(st, c).acl].attrs
\* setxattr
SetXattr(st, c, a) ==
  LET images == Serialize(AttrsOf(st, c) \cup {a}) IN
  IF images = {} THEN Fail(st, "refused")
  ELSE UNION {Then(StoreXattr(st, c, image), LAMBDA s, v : WriteInode(s, c)) : image \in images}

\* removexattr of an attribute it has
RemoveXattr(st, c, a) ==
  LET left == AttrsOf(st, c) \ {a}
      acl  == RawOf(st, c).acl
      drop(s) == SetRaw(s, c, [RawOf(s, c) EXCEPT !.acl = 0, !.sectors = IF @ = 0 THEN 0 ELSE @ - 1])
  IN Then(IF left # {} THEN UNION {StoreXattr(st, c, image) : image \in Serialize(left)}
          ELSE Then(IF st.data[acl].refs > 1 THEN Io(st, [st EXCEPT !.data[acl].refs = @ - 1], 0)
                    ELSE FreeBlock(st, acl),
                    LAMBDA s, v : Ok(drop(s), 0)),
          LAMBDA s, v : WriteInode(s, c))

----------------------------------------------------------------------------
(* The calls a workload makes.  Directories are found by name; a file that *)
(* is written is open, and its inode stays in memory until it is closed.   *)

View(st, i) == IF i \in DOMAIN st.mem THEN st.mem[i] ELSE st.disk[i]
Recs(st, i) == LET s == GetInode(st, i) IN DirOf(s, Cached(i))
LiveRecs(st, i) == {At(Recs(st, i), x) : x \in {y \in Positions(Recs(st, i)) : At(Recs(st, i), y).ino # 0}}
IsDir(st, i) == i \in st.iused /\ View(st, i).kind = "dir"
AllDirs(st) == {i \in Ino : IsDir(st, i)}
Dirs == {i \in AllDirs(fs) : i = Root \/ \E d \in AllDirs(fs) : \E r \in LiveRecs(fs, d) : r.ino = i /\ r.name \in Name}
Has(d, nm) == \E r \in LiveRecs(fs, d) : r.name = nm
Child(d, nm) == (CHOOSE r \in LiveRecs(fs, d) : r.name = nm).ino

Make(kind) == plan # <<>> /\ kind \in Head(plan) /\ ~panicked
Return(S) ==
  \E o \in S :
    /\ fs' = Settle(o.st)
    /\ plan' = Tail(plan)
    /\ whole' = (whole /\ o.result \in {"ok", "refused"})
    /\ struck' = (struck \/ \E i \in fs.iused \ o.st.iused : View(fs, i).kind = "device")
    /\ panicked' = (o.result = "panic")

CallCreate ==
  \E d \in Dirs, nm \in Name :
    Make("file") /\ ~Has(d, nm) /\ Return(CreateChild(Load(fs, {d}), d, nm, "file"))
CallMknod ==
  \E d \in Dirs, nm \in Name :
    Make("device") /\ ~Has(d, nm) /\ Return(CreateChild(Load(fs, {d}), d, nm, "device"))
CallSymlink ==
  \E d \in Dirs, nm \in Name, size \in {0, 1} :
    Make("symlink") /\ ~Has(d, nm) /\ Return(Symlink(Load(fs, {d}), d, nm, size))
CallMkdir ==
  \E d \in Dirs, nm \in Name : Make("mkdir") /\ ~Has(d, nm) /\ Return(Mkdir(Load(fs, {d}), d, nm))
CallUnlink ==
  \E d \in Dirs, nm \in Name :
    /\ Make("unlink") /\ Has(d, nm) /\ ~IsDir(fs, Child(d, nm))
    /\ Return(Unlink(Load(fs, {d}), d, nm))
CallRmdir ==
  \E d \in Dirs, nm \in Name :
    /\ Make("rmdir") /\ Has(d, nm) /\ IsDir(fs, Child(d, nm))
    /\ IsEmpty(Load(fs, {Child(d, nm)}), Child(d, nm))
    /\ Return(Rmdir(Load(fs, {d}), d, nm))
CallRename ==
  \E d, d2 \in Dirs, nm, nm2 \in Name :
    Make("rename") /\ Has(d, nm) /\ Return(Rename(Load(fs, {d, d2}), d, nm, d2, nm2))

OnFiles == {"write", "truncate", "link", "xattr"}
\* openat and close of a regular file, which are not counted
Open(h) ==
  \E d \in Dirs, nm \in Name :
    LET i == Child(d, nm) IN
    /\ plan # <<>> /\ Head(plan) \cap OnFiles # {} /\ ~panicked
    /\ fs.handle[h] = NoHandle /\ Has(d, nm) /\ View(fs, i).kind = "file"
    /\ fs' = [GetInode(fs, i) EXCEPT !.handle[h] = [NoHandle EXCEPT !.ino = i]]
    /\ UNCHANGED <<plan, whole, struck, panicked>>
Close(h) ==
  /\ fs.handle[h] # NoHandle /\ ~panicked
  /\ fs' = Settle([fs EXCEPT !.handle[h] = NoHandle])
  /\ UNCHANGED <<plan, whole, struck, panicked>>

\* A call on an open file.
Using(h, kind) ==
  /\ Make(kind) /\ fs.handle[h] # NoHandle
  /\ fs.handle[h].own => UseDetached
Copy(h) == [own |-> IF fs.handle[h].own THEN h ELSE "none", ino |-> fs.handle[h].ino]

CallWrite(h) ==
  \E lb \in 0..(MaxSize - 1), n \in 1..2 :
    Using(h, "write") /\ lb + n <= MaxSize /\ Return(WriteAt(fs, Copy(h), lb, n, Zeroed))
CallTruncate(h) ==
  \E size \in 0..MaxSize : Using(h, "truncate") /\ Return(TruncateTo(fs, Copy(h), size))
CallLink(h) ==
  \E d \in Dirs, nm \in Name :
    Using(h, "link") /\ ~Has(d, nm) /\ Return(Link(Load(fs, {d}), d, nm, Copy(h)))
CallSetXattr(h) ==
  \E a \in {"x", "y", "long"} : Using(h, "xattr") /\ Return(SetXattr(fs, Copy(h), a))
CallRemoveXattr(h) ==
  \E a \in {"x", "y"} :
    Using(h, "xattr") /\ a \in AttrsOf(fs, Copy(h)) /\ Return(RemoveXattr(fs, Copy(h), a))

Next ==
  \/ CallCreate \/ CallMknod \/ CallSymlink \/ CallMkdir \/ CallUnlink \/ CallRmdir \/ CallRename
  \/ \E h \in Handle : \/ Open(h) \/ Close(h) \/ CallWrite(h) \/ CallTruncate(h)
                       \/ CallLink(h) \/ CallSetXattr(h) \/ CallRemoveXattr(h)

----------------------------------------------------------------------------
(* Properties.                                                             *)

\* The blocks an inode points to; a device number and a short target are not pointers.
Pointed(st, i) ==
  LET raw == View(st, i) IN
  IF raw.kind = "device" \/ (raw.kind = "symlink" /\ raw.sectors = 0) THEN <<>> ELSE Trees(st, raw)
AclUsers(st, b) == {i \in st.iused : View(st, i).acl = b}
Referenced(st) == UNION {Range(Pointed(st, i)) : i \in st.iused} \cup ({View(st, i).acl : i \in st.iused} \ {0})

\* No call failed half-way, and no device node was removed: that gives back the block whose
\* number the device has (inode.rs:1121), whoever uses it.
Undisturbed == whole /\ ~struck

\* While nothing disturbed it: no block has two owners, those in use are exactly the
\* ones that some inode points to, an attribute block counts its users, and the counts of
\* free blocks and inodes are those of the bitmaps.  It takes writes, truncations to every
\* length, attributes and removals over each other to break this (bitmap.rs, inode.rs).
Accounted ==
  Undisturbed =>
    /\ fs.used = Referenced(fs)
    /\ \A i \in fs.iused : IsInjective(Pointed(fs, i))
    /\ \A i, j \in fs.iused : i # j => Range(Pointed(fs, i)) \cap Range(Pointed(fs, j)) = {}
    /\ \A b \in {View(fs, i).acl : i \in fs.iused} \ {0} :
         /\ fs.data[b].refs = Cardinality(AclUsers(fs, b))
         /\ \A i \in fs.iused : b \notin Range(Pointed(fs, i))
    /\ \A g \in Group : fs.free[g] = Cardinality({b \in Block \ fs.used : BlockGroup(b) = g})
    /\ fs.sbFree = Cardinality(Block \ fs.used)
    /\ \A g \in Group : fs.ifree[g] = Cardinality({i \in Ino \ fs.iused : InodeGroup(i) = g})
    /\ fs.sbInodes = Cardinality(Ino \ fs.iused)

\* The directory entries, as <<directory, name, inode>>.
Entries(st) == UNION {{<<d, r.name, r.ino>> : r \in LiveRecs(st, d)} : d \in AllDirs(st)}
ParentOf(st, i) == (CHOOSE e \in Entries(st) : e[3] = i /\ e[2] \in Name)[1]
RECURSIVE Climbs(_, _, _)
Climbs(st, i, n) == i = Root \/ (n > 0 /\ Climbs(st, ParentOf(st, i), n - 1))

\* While nothing disturbed it: the link count of an inode is the number of directory
\* entries that name it, dots included, an inode is in use when it has one, and what is in
\* memory is what is on the device (link, unlink_locked, mkdir, rmdir_locked, rename).
LinksMatch ==
  Undisturbed =>
    /\ \A i \in Ino : LET names == {e \in Entries(fs) : e[3] = i} IN
         IF i \in fs.iused THEN View(fs, i).links = Cardinality(names) ELSE names = {}
    /\ \A i \in DOMAIN fs.mem : fs.mem[i] = fs.disk[i]

\* The directories are a tree while nothing disturbed it: each but the root has one name, in
\* the directory that its ".." names, and ".." leads to the root (dir_is_ancestor_or_self and
\* the end of rename).
DirectoriesFormTree ==
  Undisturbed => \A i \in AllDirs(fs) \ {Root} :
             /\ Cardinality({e \in Entries(fs) : e[3] = i /\ e[2] \in Name}) = 1
             /\ <<i, "..", ParentOf(fs, i)>> \in Entries(fs)
             /\ Climbs(fs, i, MaxInode)

\* Whatever was made, renamed and removed before (but for a device node), and wherever a
\* call failed half-way, the records of a directory block tile the block, a live one is long
\* enough for its name, and a name is in the directory once (add_dir_entry,
\* remove_dir_entry).
DirectoriesSound == ~struck => \A i \in Dirs : WellFormed(Recs(fs, i))

=============================================================================
