---------------------------- MODULE MCExt2Meta -----------------------------
(***************************************************************************)
(* Ext2Meta on a small disk, under workloads that each make some of the    *)
(* calls.                                                                  *)
(***************************************************************************)
EXTENDS Ext2Meta

MCLength == [nm \in Name |-> IF nm = "long" THEN 3 ELSE 1]

\* Directories that move, device nodes, the blocks of a file; records that are reused, and
\* names, open files and attributes, where a write may fail.
MCPlans ==
  {<<{"mkdir"}, {"mkdir"}, {"rename"}, {"rename", "rmdir"}, {"rename", "mkdir", "device"}>>,
   <<{"device"}, {"mkdir", "file"}, {"unlink", "rename"}, {"file"}>>,
   <<{"file"}, {"write"}, {"write", "truncate"}, {"truncate", "xattr"}, {"write", "truncate", "unlink"}>>}
MCFaulty ==
  {<<{"file", "symlink"}, {"file"}, {"unlink", "rename"}, {"file", "symlink"}, {"file", "mkdir", "unlink"}>>,
   <<{"file"}, {"xattr", "link"}, {"unlink", "link"}, {"file", "xattr", "rename"}, {"unlink", "write"}>>}

\* An empty filesystem: the root, with its dots in block 1.
EmptyFs(faults) ==
  LET root == [Raw("dir", 2) EXCEPT !.size = 1, !.sectors = 1, !.ptr[0] = 1] IN
  [used |-> {1}, iused |-> {Root},
   free |-> [g \in Group |-> Cardinality({b \in Block \ {1} : BlockGroup(b) = g})],
   sbFree |-> MaxBlock - 1,
   sbInodes |-> MaxInode - 1,
   ifree |-> [g \in Group |-> Cardinality({i \in Ino \ {Root} : InodeGroup(i) = g})],
   dirs |-> [g \in Group |-> IF g = 0 THEN 1 ELSE 0],
   disk |-> [i \in Ino |-> IF i = Root THEN root ELSE NoRaw],
   data |-> [b \in Block |-> IF b # 1 THEN Zeroed
                             ELSE DirBlockOf(<<Record(Root, 3, "."), Record(Root, DirBlock - 3, "..")>>)],
   mem |-> <<>>, handle |-> [h \in Handle |-> NoHandle], faults |-> faults]

\* One that Linux wrote: files a and b share a block of attributes.
SharedFs ==
  LET st   == EmptyFs(0)
      file == [Raw("file", 1) EXCEPT !.acl = 2, !.sectors = 1]
  IN [st EXCEPT !.used = {1, 2}, !.iused = {Root, 2, 3}, !.sbInodes = 1, !.sbFree = @ - 1, !.free[0] = @ - 1,
                !.ifree = [g \in Group |-> Cardinality({i \in {4} : InodeGroup(i) = g})],
                !.disk[2] = file, !.disk[3] = file,
                !.data[1] = DirBlockOf(<<Record(Root, 3, "."), Record(Root, 3, ".."),
                                         Record(2, 3, "a"), Record(3, DirBlock - 9, "b")>>),
                !.data[2] = [Zeroed EXCEPT !.refs = 2, !.attrs = {"x"}]]
MCShared == <<{"xattr", "unlink"}, {"xattr", "unlink"}, {"xattr", "unlink", "truncate"}>>

Init ==
  /\ \/ plan \in Plans /\ fs = EmptyFs(0)
     \/ plan \in Faulty /\ fs = EmptyFs(MaxFaults)
     \/ plan = MCShared /\ fs = SharedFs
  /\ whole = TRUE /\ struck = FALSE /\ panicked = FALSE
Symmetry == Permutations(Handle)

Spec == Init /\ [][Next]_vars
=============================================================================
