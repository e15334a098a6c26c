-------------------------------- MODULE Path --------------------------------
(***************************************************************************)
(* Paths: the mount table of filesystems/kor-fs/src/mount.rs, the walk of  *)
(* filesystems/kor-fs/src/path.rs and the absolute paths of                *)
(* apps/korix/src/syscall/mod.rs.  A path is a sequence of components; the *)
(* walk of one path is one step.  Fronts and prefixes are written with     *)
(* SubSeq: the proofs about the calls need no more of sequences.           *)
(***************************************************************************)
EXTENDS RamFs

CONSTANT MaxSymlinkDepth      \* MAX_SYMLINK_DEPTH

\* A component of a path; "/" is the first of an absolute one.
Component == Name \cup {"/", ".", ".."}

\* split_absolute_parent
HasParent(path)  == path # <<>>
ParentPath(path) == SubSeq(path, 1, Len(path) - 1)
FileName(path)   == path[Len(path)]

\* normalize_absolute
Normalize(path) ==
  LET done[i \in 0..Len(path)] ==
        IF i = 0 THEN <<>>
        ELSE CASE path[i] = "."  -> done[i - 1]
               [] path[i] = ".." -> IF done[i - 1] = <<>> THEN <<>> ELSE ParentPath(done[i - 1])
               [] OTHER          -> Append(done[i - 1], path[i])
  IN done[Len(path)]

\* resolve_mount and longest_prefix, for a table from mount paths to roots: in the order
\* of the keys the last prefix of a path is the longest.
MountPrefixes(mounts, path) ==
  {m \in DOMAIN mounts : Len(m) <= Len(path) /\ SubSeq(path, 1, Len(m)) = m}
LongestPrefix(mounts, path) ==
  CHOOSE m \in MountPrefixes(mounts, path) :
    \A n \in MountPrefixes(mounts, path) : Len(n) <= Len(m)

\* resolve_inner: links are followed from the directory that holds them, or from the root
\* of the filesystem when absolute (marked by a first component "/"), and the walk goes on
\* from there; all links of one resolution share the depth counter.
ResolveInner(t, root, path) ==
  LET inner[at \in Node, rest \in Seq(Component), depth \in 0..MaxSymlinkDepth] ==
        IF rest = <<>> THEN [result |-> "ok", node |-> at]
        ELSE IF Head(rest) = "/" THEN inner[root, Tail(rest), depth]
        ELSE IF Head(rest) = "." THEN inner[at, Tail(rest), depth]
        ELSE LET next == Lookup(t, at, Head(rest)) IN
             IF next.result # "ok" THEN [result |-> next.result, node |-> 0]
             ELSE IF Head(rest) # ".." /\ t.kind[next.node] = "link"
             THEN IF depth = MaxSymlinkDepth THEN [result |-> "TooManyLinks", node |-> 0]
                  ELSE inner[at, t.target[next.node] \o Tail(rest), depth + 1]
             ELSE inner[next.node, Tail(rest), depth]
  IN inner[root, path, 0]

\* mount::resolve: the rest of the path after the mount point, from the mounted root.
Resolve(t, mounts, path) ==
  IF MountPrefixes(mounts, path) = {} THEN [result |-> "NotFound", node |-> 0]
  ELSE LET m == LongestPrefix(mounts, path)
       IN ResolveInner(t, mounts[m], SubSeq(path, Len(m) + 1, Len(path)))
=============================================================================
