------------------------------- MODULE RamFs -------------------------------
(***************************************************************************)
(* The in-memory filesystem of filesystems/kor-ramfs/src/lib.rs: each      *)
(* operator is a section of an INode method under the lock of a children   *)
(* map, from the tree before it to the tree after it.                      *)
(***************************************************************************)
EXTENDS Naturals, Sequences, FiniteSets, FiniteSetsExt, TLC

CONSTANTS MaxNode,     \* inode numbers are 1..MaxNode
          Name         \* names of directory entries

Node == 1..MaxNode

\* insert and remove of a map
Put(f, x, v) == [y \in {x} \cup DOMAIN f |-> IF y = x THEN v ELSE f[y]]
Drop(f, x)   == [y \in DOMAIN f \ {x} |-> f[y]]

\* The tree.  Unused inode numbers have kind "none"; a root has parent 0; target is what
\* the content of a symbolic link says.  The bytes of a file are the writers' pids.
EmptyTree == [kind |-> [n \in Node |-> "none"], children |-> [n \in Node |-> <<>>],
              parent |-> [n \in Node |-> 0], content |-> [n \in Node |-> <<>>],
              size |-> [n \in Node |-> 0], target |-> [n \in Node |-> <<>>]]

TreeOK(t) == /\ DOMAIN t = DOMAIN EmptyTree
             /\ \A field \in DOMAIN t : DOMAIN t[field] = Node

Dirs(t)        == {n \in Node : t.kind[n] = "dir"}
IsDir(t, d)    == d \in Dirs(t)
Names(t, d)    == DOMAIN t.children[d]
Has(t, d, nm)  == nm \in Names(t, d)
Child(t, d, nm) == t.children[d][nm]
NextIno(t)     == Min({n \in Node : t.kind[n] = "none"})
Bare(t)        == \A n \in Node : t.kind[n] = "none" => Names(t, n) = {}
HasRoom(t)     == \E n \in Node : t.kind[n] = "none"

Failed(t, e) == [result |-> e, t |-> t, node |-> 0]
Found(t, n)  == [result |-> "ok", t |-> t, node |-> n]

\* A directory with one name more, and with one less.
With(t, d, nm, n)  == [t EXCEPT !.children[d] = Put(@, nm, n)]
Without(t, d, nm)  == [t EXCEPT !.children[d] = Drop(@, nm)]

\* RamINode::new_dir, new_file and new_symlink, entered in their directory.
NewChild(t, d, nm, kind, target) ==
  LET n == NextIno(t) IN
  Found([kind     |-> [t.kind EXCEPT ![n] = kind],
         children |-> [t.children EXCEPT ![n] = <<>>, ![d] = Put(@, nm, n)],
         parent   |-> [t.parent EXCEPT ![n] = d],
         content  |-> [t.content EXCEPT ![n] = <<>>],
         size     |-> [t.size EXCEPT ![n] = 0],
         target   |-> [t.target EXCEPT ![n] = target]], n)

\* lookup; the parent of a root is the root.
Lookup(t, d, nm) ==
  CASE ~IsDir(t, d)              -> Failed(t, "NotDirectory")
    [] IsDir(t, d) /\ nm = "."   -> Found(t, d)
    [] IsDir(t, d) /\ nm = ".."  -> Found(t, IF t.parent[d] = 0 THEN d ELSE t.parent[d])
    [] IsDir(t, d) /\ nm \notin {".", ".."} ->
         IF Has(t, d, nm) THEN Found(t, Child(t, d, nm)) ELSE Failed(t, "NotFound")

\* A slip: create returns the file that has the name already.
CreateFound(t, d, nm, kind) ==
  CASE ~IsDir(t, d) -> Failed(t, "NotDirectory")
    [] IsDir(t, d) /\ Has(t, d, nm) -> Found(t, Child(t, d, nm))
    [] IsDir(t, d) /\ ~Has(t, d, nm) -> NewChild(t, d, nm, kind, <<>>)

\* create and mkdir
Create(t, d, nm, kind) ==
  CASE ~IsDir(t, d) -> Failed(t, "NotDirectory")
    [] IsDir(t, d) /\ Has(t, d, nm) -> Failed(t, "AlreadyExists")
    [] IsDir(t, d) /\ ~Has(t, d, nm) -> NewChild(t, d, nm, kind, <<>>)

\* symlink
Symlink(t, d, nm, target) ==
  CASE ~IsDir(t, d) -> Failed(t, "NotDirectory")
    [] IsDir(t, d) /\ Has(t, d, nm) -> Failed(t, "AlreadyExists")
    [] IsDir(t, d) /\ ~Has(t, d, nm) -> NewChild(t, d, nm, "link", target)

\* unlink
Unlink(t, d, nm) ==
  CASE ~IsDir(t, d) -> Failed(t, "NotDirectory")
    [] IsDir(t, d) /\ ~Has(t, d, nm) -> Failed(t, "NotFound")
    [] IsDir(t, d) /\ Has(t, d, nm) ->
         IF IsDir(t, Child(t, d, nm)) THEN Failed(t, "IsDirectory") ELSE Found(Without(t, d, nm), 0)

\* rmdir
Rmdir(t, d, nm) ==
  CASE ~IsDir(t, d) -> Failed(t, "NotDirectory")
    [] IsDir(t, d) /\ ~Has(t, d, nm) -> Failed(t, "NotFound")
    [] IsDir(t, d) /\ Has(t, d, nm) ->
         CASE ~IsDir(t, Child(t, d, nm)) -> Failed(t, "NotDirectory")
           [] IsDir(t, Child(t, d, nm)) /\ Names(t, Child(t, d, nm)) # {} -> Failed(t, "NotEmpty")
           [] OTHER -> Found(Without(t, d, nm), 0)

\* link
Link(t, d, nm, target) ==
  CASE ~IsDir(t, d) -> Failed(t, "NotDirectory")
    [] IsDir(t, d) /\ IsDir(t, target) -> Failed(t, "IsDirectory")
    [] IsDir(t, d) /\ ~IsDir(t, target) ->
         IF Has(t, d, nm) THEN Failed(t, "AlreadyExists")
         ELSE Found(With(t, d, nm, target), target)

\* rename, its four sections: the child and what it would replace; ...
RenameFind(t, d, nm, e, new) ==
  CASE ~(IsDir(t, d) /\ IsDir(t, e)) -> Failed(t, "NotDirectory")
    [] IsDir(t, d) /\ IsDir(t, e) /\ ~Has(t, d, nm) -> Failed(t, "NotFound")
    [] IsDir(t, d) /\ IsDir(t, e) /\ Has(t, d, nm) ->
         IF Has(t, e, new) /\ IsDir(t, Child(t, e, new)) /\ Names(t, Child(t, e, new)) # {}
         THEN Failed(t, "NotEmpty") ELSE Found(t, Child(t, d, nm))
\* A slip: in another directory only the old name is dealt with.
RenameInsertOld(t, d, nm, e, new, child) ==
  IF d = e THEN With(Without(t, d, nm), d, new, child) ELSE Without(t, d, nm)
\* ... the new name, which in the same directory goes with the old one under one lock; ...
RenameInsert(t, d, nm, e, new, child) ==
  With(IF d = e THEN Without(t, d, nm) ELSE t, e, new, child)
\* ... the old name; and the parent of a directory.
RenameRemove(t, d, nm, e) == IF d = e THEN t ELSE Without(t, d, nm)
RenameParent(t, child, e) == IF IsDir(t, child) THEN [t EXCEPT !.parent[child] = e] ELSE t

\* read_at: how many of count bytes there are at offset.
ReadAt(t, n, offset, count) ==
  IF offset >= Len(t.content[n]) THEN 0 ELSE Min({count, Len(t.content[n]) - offset})

\* write_at, under the content lock: zeros up to offset, then the bytes.
WriteAt(t, n, offset, bytes) ==
  LET old == t.content[n]
      end == offset + Len(bytes)
  IN [t EXCEPT !.content[n] =
        [i \in 1..Max({end, Len(old)}) |->
           CASE i > offset /\ i <= end -> bytes[i - offset]
             [] i <= offset /\ i <= Len(old) -> old[i]
             [] i <= offset /\ i > Len(old) -> 0
             [] OTHER -> old[i]]]
\* write_at, under the metadata lock: the size the content had then.
SetSize(t, n, size) == [t EXCEPT !.size[n] = size]
=============================================================================
