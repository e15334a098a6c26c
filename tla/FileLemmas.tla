----------------------------- MODULE FileLemmas -----------------------------
(***************************************************************************)
(* What the file calls of korix do, for any number of processes,           *)
(* descriptors, open files and inodes, and any programs: the calls of the  *)
(* RAM filesystem, what a step of one process leaves to the others, and    *)
(* each call but write keeps the invariant.  FileProofs has the writes and *)
(* the theorems.                                                           *)
(***************************************************************************)
EXTENDS FileCalls, WellFoundedInduction, TLAPS

LEMMA Constants == MaxPid \in Nat /\ MaxFd \in Nat /\ MaxOpen \in Nat \ {0} /\ MaxNode \in Nat
BY FilesAssumption, Zenon

\* A set of numbers that is not empty has a least member.
LEMMA MinOp == ASSUME NEW S \in SUBSET Nat, S # {} PROVE Min(S) \in S
<1> DEFINE Less == {ss \in Nat \X Nat : ss[1] < ss[2]}
<1>1. IsWellFoundedOn(Less, Nat)
  BY NatLessThanWellFounded, Zenon DEF OpToRel
<1>2. PICK n \in S : \A m \in S : ~(<<m, n>> \in Less)
  <2> HIDE DEF Less
  <2> QED BY <1>1, WFMin, ZenonT(30)
<1>3. ASSUME NEW m \in S PROVE n <= m
  <2>1. m \in Nat /\ n \in Nat
    BY Zenon
  <2>2. m < n => <<m, n>> \in Less
    BY <2>1, Zenon
  <2>3. ~(<<m, n>> \in Less)
    BY <1>2, Zenon
  <2> HIDE DEF Less
  <2> QED BY <2>1, <2>2, <2>3
<1> QED BY <1>3, Zenon DEF Min

(***************************************************************************)
(* Trees                                                                   *)
(***************************************************************************)

\* What a call on a directory leaves as it is: the kinds of the inodes in use; the names.
KindsKept(t, u) == \A n \in Node : t.kind[n] # "none" => u.kind[n] = t.kind[n]
NamesKept(t, u) ==
  \A d \in Node : \A nm \in Names(t, d) : nm \in Names(u, d) /\ Child(u, d, nm) = Child(t, d, nm)

LEMMA Fields ==
  DOMAIN EmptyTree = {"kind", "children", "parent", "content", "size", "target"}
BY DEF EmptyTree

LEMMA TreeFields ==
  ASSUME NEW t, TreeOK(t)
  PROVE  /\ DOMAIN t = {"kind", "children", "parent", "content", "size", "target"}
         /\ DOMAIN t.kind = Node /\ DOMAIN t.children = Node /\ DOMAIN t.parent = Node
         /\ DOMAIN t.content = Node /\ DOMAIN t.size = Node /\ DOMAIN t.target = Node
BY Fields DEF TreeOK

LEMMA UnusedIno ==
  ASSUME NEW t, HasRoom(t)
  PROVE  NextIno(t) \in Node /\ t.kind[NextIno(t)] = "none"
<1> DEFINE S == {n \in Node : t.kind[n] = "none"}
<1>1. S \in SUBSET Nat /\ S # {}
  BY Constants DEF HasRoom, Node
<1>2. Min(S) \in S
  BY <1>1, MinOp, Zenon
<1> QED BY <1>2, Zenon DEF NextIno

LEMMA NewChildOp ==
  ASSUME NEW t, TreeOK(t), Bare(t), HasRoom(t), NEW d, IsDir(t, d), NEW nm, ~Has(t, d, nm),
         NEW kind, kind # "none", NEW target, NEW r, r = NewChild(t, d, nm, kind, target)
  PROVE  /\ TreeOK(r.t) /\ KindsKept(t, r.t) /\ NamesKept(t, r.t) /\ Bare(r.t)
         /\ r.result = "ok" /\ r.node \in Node
         /\ t.kind[r.node] = "none" /\ r.t.kind[r.node] # "none"
<1> DEFINE n == NextIno(t)
<1>1. n \in Node /\ t.kind[n] = "none" /\ d \in Node /\ t.kind[d] = "dir" /\ n # d
  BY UnusedIno, Zenon DEF IsDir, Dirs
<1> HIDE DEF n
<1>2. /\ r.result = "ok" /\ r.node = n
      /\ r.t.kind = [t.kind EXCEPT ![n] = kind]
      /\ r.t.children = [t.children EXCEPT ![n] = <<>>, ![d] = Put(@, nm, n)]
      /\ r.t.content = [t.content EXCEPT ![n] = <<>>]
      /\ r.t.size = [t.size EXCEPT ![n] = 0]
      /\ r.t.parent = [t.parent EXCEPT ![n] = d]
      /\ r.t.target = [t.target EXCEPT ![n] = target]
      /\ DOMAIN r.t = {"kind", "children", "parent", "content", "size", "target"}
  BY DEF NewChild, Found, n
<1>3. TreeOK(r.t)
  BY <1>2, TreeFields, Fields DEF TreeOK
<1>4. /\ \A m \in Node : r.t.kind[m] = IF m = n THEN kind ELSE t.kind[m]
      /\ \A m \in Node \ {n, d} : r.t.children[m] = t.children[m]
      /\ r.t.children[n] = <<>> /\ r.t.children[d] = Put(t.children[d], nm, n)
  BY <1>1, <1>2, TreeFields
<1>5. KindsKept(t, r.t)
  BY <1>1, <1>4, Zenon DEF KindsKept
<1>6. Names(r.t, d) = {nm} \cup Names(t, d)
      /\ \A x \in Names(t, d) : Child(r.t, d, x) = Child(t, d, x)
  <2> DEFINE old == t.children[d]
             new == r.t.children[d]
  <2>1. new = Put(old, nm, n) /\ nm \notin DOMAIN old
    BY <1>4, Zenon DEF Has, Names
  <2> HIDE DEF old, new
  <2>2. /\ DOMAIN new = {nm} \cup DOMAIN old
        /\ \A x \in DOMAIN old : new[x] = old[x]
    BY <2>1 DEF Put
  <2> QED BY <2>2, Zenon DEF Names, Child, old, new
<1>8. NamesKept(t, r.t)
  <2>1. ASSUME NEW m \in Node, NEW x \in Names(t, m)
        PROVE  x \in Names(r.t, m) /\ Child(r.t, m, x) = Child(t, m, x)
    <3>1. m # n
      BY <2>1, <1>1 DEF Bare
    <3>2. CASE m = d
      BY <3>2, <1>6, <2>1
    <3>3. CASE m # d
      BY <3>1, <3>3, <1>4, <2>1, Zenon DEF Names, Child
    <3> QED BY <3>2, <3>3, Zenon
  <2> QED BY <2>1, Zenon DEF NamesKept
<1>9. Bare(r.t)
  BY <1>1, <1>4, Zenon DEF Bare, Names
<1> QED BY <1>1, <1>2, <1>3, <1>4, <1>5, <1>8, <1>9, Zenon

\* create, mkdir and symlink make a new inode or change nothing.
LEMMA CreateOp ==
  ASSUME NEW t, TreeOK(t), Bare(t), HasRoom(t), NEW d, NEW nm, NEW kind, kind # "none"
  PROVE  LET r == Create(t, d, nm, kind) IN
         /\ TreeOK(r.t) /\ KindsKept(t, r.t) /\ NamesKept(t, r.t) /\ Bare(r.t)
         /\ r.result = "ok" => /\ r.node \in Node /\ t.kind[r.node] = "none"
                               /\ r.t.kind[r.node] # "none"
<1> DEFINE r == Create(t, d, nm, kind)
<1>1. CASE IsDir(t, d) /\ ~Has(t, d, nm)
  <2>1. r = NewChild(t, d, nm, kind, <<>>)
    BY <1>1, Zenon DEF Create
  <2> HIDE DEF r
  <2>2. /\ TreeOK(r.t) /\ KindsKept(t, r.t) /\ NamesKept(t, r.t) /\ Bare(r.t)
        /\ r.node \in Node /\ t.kind[r.node] = "none" /\ r.t.kind[r.node] # "none"
    BY <1>1, <2>1, NewChildOp
  <2> QED BY <2>2, Zenon DEF r
<1>2. CASE ~(IsDir(t, d) /\ ~Has(t, d, nm))
  <2>1. r.t = t /\ r.result # "ok"
    BY <1>2 DEF Create, Failed
  <2> QED BY <2>1, Zenon DEF KindsKept, NamesKept
<1> QED BY <1>1, <1>2, Zenon

LEMMA SymlinkOp ==
  ASSUME NEW t, TreeOK(t), Bare(t), HasRoom(t), NEW d, NEW nm, NEW target
  PROVE  LET u == Symlink(t, d, nm, target).t IN
         TreeOK(u) /\ KindsKept(t, u) /\ NamesKept(t, u) /\ Bare(u)
<1> DEFINE r == Symlink(t, d, nm, target)
<1>1. CASE IsDir(t, d) /\ ~Has(t, d, nm)
  <2>1. r = NewChild(t, d, nm, "link", target)
    BY <1>1, Zenon DEF Symlink
  <2> HIDE DEF r
  <2>2. TreeOK(r.t) /\ KindsKept(t, r.t) /\ NamesKept(t, r.t) /\ Bare(r.t)
    BY <1>1, <2>1, NewChildOp
  <2> QED BY <2>2, Zenon DEF r
<1>2. CASE ~(IsDir(t, d) /\ ~Has(t, d, nm))
  <2>1. r.t = t
    BY <1>2 DEF Symlink, Failed
  <2> QED BY <2>1, Zenon DEF KindsKept, NamesKept
<1> QED BY <1>1, <1>2, Zenon

\* A directory gains a name, or loses one: nothing else changes.
LEMMA WithOp ==
  ASSUME NEW t, TreeOK(t), Bare(t), NEW d, IsDir(t, d), NEW nm, NEW v
  PROVE  LET u == With(t, d, nm, v) IN
         /\ TreeOK(u) /\ u.kind = t.kind /\ Bare(u)
         /\ Names(u, d) = {nm} \cup Names(t, d) /\ Child(u, d, nm) = v
         /\ \A x \in Names(t, d) \ {nm} : Child(u, d, x) = Child(t, d, x)
         /\ \A e \in Node \ {d} : u.children[e] = t.children[e]
<1>1. d \in Node /\ t.kind[d] = "dir"
  BY Zenon DEF IsDir, Dirs
<1> DEFINE u == With(t, d, nm, v)
           old == t.children[d]
           new == u.children[d]
<1>3. TreeOK(u) /\ u.kind = t.kind /\ u.children = [t.children EXCEPT ![d] = Put(old, nm, v)]
  BY TreeFields, Fields DEF With, TreeOK
<1>4. new = Put(old, nm, v) /\ \A e \in Node \ {d} : u.children[e] = t.children[e]
  BY <1>1, <1>3, TreeFields
<1> HIDE DEF old, new, u
<1>5. DOMAIN new = {nm} \cup DOMAIN old /\ new[nm] = v /\ \A x \in DOMAIN old \ {nm} : new[x] = old[x]
  BY <1>4 DEF Put
<1>6. Bare(u)
  BY <1>1, <1>3, <1>4, Zenon DEF Bare, Names
<1> QED BY <1>3, <1>4, <1>5, <1>6, Zenon DEF Names, Child, old, new, u

LEMMA WithoutOp ==
  ASSUME NEW t, TreeOK(t), Bare(t), NEW d, IsDir(t, d), NEW nm
  PROVE  LET u == Without(t, d, nm) IN
         /\ TreeOK(u) /\ u.kind = t.kind /\ Bare(u)
         /\ Names(u, d) = Names(t, d) \ {nm}
         /\ \A x \in Names(u, d) : Child(u, d, x) = Child(t, d, x)
         /\ \A e \in Node \ {d} : u.children[e] = t.children[e]
<1>1. d \in Node /\ t.kind[d] = "dir"
  BY Zenon DEF IsDir, Dirs
<1> DEFINE u == Without(t, d, nm)
           old == t.children[d]
           new == u.children[d]
<1>3. TreeOK(u) /\ u.kind = t.kind /\ u.children = [t.children EXCEPT ![d] = Drop(old, nm)]
  BY TreeFields, Fields DEF Without, TreeOK
<1>4. new = Drop(old, nm) /\ \A e \in Node \ {d} : u.children[e] = t.children[e]
  BY <1>1, <1>3, TreeFields
<1> HIDE DEF old, new, u
<1>5. DOMAIN new = DOMAIN old \ {nm} /\ \A x \in DOMAIN new : new[x] = old[x]
  BY <1>4 DEF Drop
<1>6. Bare(u)
  BY <1>1, <1>3, <1>4, Zenon DEF Bare, Names
<1> QED BY <1>3, <1>4, <1>5, <1>6, Zenon DEF Names, Child, old, new, u

LEMMA LinkOp ==
  ASSUME NEW t, TreeOK(t), Bare(t), NEW d, NEW nm, NEW target
  PROVE  LET u == Link(t, d, nm, target).t IN
         TreeOK(u) /\ KindsKept(t, u) /\ NamesKept(t, u) /\ Bare(u)
<1> DEFINE u == Link(t, d, nm, target).t
<1>1. CASE IsDir(t, d) /\ ~IsDir(t, target) /\ ~Has(t, d, nm)
  <2>1. u = With(t, d, nm, target)
    BY <1>1 DEF Link, Found
  <2> HIDE DEF u
  <2>2. /\ TreeOK(u) /\ u.kind = t.kind /\ Bare(u)
        /\ Names(u, d) = {nm} \cup Names(t, d)
        /\ \A x \in Names(t, d) \ {nm} : Child(u, d, x) = Child(t, d, x)
        /\ \A e \in Node \ {d} : u.children[e] = t.children[e]
    BY <1>1, <2>1, WithOp
  <2>3. ASSUME NEW e \in Node, NEW x \in Names(t, e)
        PROVE  x \in Names(u, e) /\ Child(u, e, x) = Child(t, e, x)
    <3>1. CASE e = d
      BY <1>1, <2>2, <2>3, <3>1, Zenon DEF Has
    <3>2. CASE e # d
      BY <2>2, <2>3, <3>2, Zenon DEF Names, Child
    <3> QED BY <3>1, <3>2, Zenon
  <2> QED BY <2>2, <2>3, Zenon DEF KindsKept, NamesKept, u
<1>2. CASE ~(IsDir(t, d) /\ ~IsDir(t, target) /\ ~Has(t, d, nm))
  <2>1. u = t
    BY <1>2 DEF Link, Failed
  <2> HIDE DEF u
  <2> QED BY <2>1, Zenon DEF KindsKept, NamesKept, u
<1> QED BY <1>1, <1>2, Zenon

LEMMA UnlinkOp ==
  ASSUME NEW t, TreeOK(t), Bare(t), NEW d, NEW nm
  PROVE  LET u == Unlink(t, d, nm).t IN TreeOK(u) /\ KindsKept(t, u) /\ Bare(u)
<1> DEFINE u == Unlink(t, d, nm).t
<1>1. u = t \/ (IsDir(t, d) /\ u = Without(t, d, nm))
  BY DEF Unlink, Failed, Found
<1> HIDE DEF u
<1>2. CASE u = t
  BY <1>2, Zenon DEF KindsKept, u
<1>3. CASE IsDir(t, d) /\ u = Without(t, d, nm)
  <2>1. TreeOK(u) /\ u.kind = t.kind /\ Bare(u)
    BY <1>3, WithoutOp
  <2> QED BY <2>1, Zenon DEF KindsKept, u
<1> QED BY <1>1, <1>2, <1>3, Zenon

LEMMA RmdirOp ==
  ASSUME NEW t, TreeOK(t), Bare(t), NEW d, NEW nm
  PROVE  LET u == Rmdir(t, d, nm).t IN TreeOK(u) /\ KindsKept(t, u) /\ Bare(u)
<1> DEFINE u == Rmdir(t, d, nm).t
<1>1. u = t \/ (IsDir(t, d) /\ u = Without(t, d, nm))
  BY DEF Rmdir, Failed, Found
<1> HIDE DEF u
<1>2. CASE u = t
  BY <1>2, Zenon DEF KindsKept, u
<1>3. CASE IsDir(t, d) /\ u = Without(t, d, nm)
  <2>1. TreeOK(u) /\ u.kind = t.kind /\ Bare(u)
    BY <1>3, WithoutOp
  <2> QED BY <2>1, Zenon DEF KindsKept, u
<1> QED BY <1>1, <1>2, <1>3, Zenon

\* The new name of a rename; of the others only the old one is gone, in the same directory.
LEMMA RenameInsertOp ==
  ASSUME NEW t, TreeOK(t), Bare(t), NEW d, IsDir(t, d), NEW e, IsDir(t, e),
         NEW nm, NEW new, NEW child
  PROVE  LET u == RenameInsert(t, d, nm, e, new, child) IN
         /\ TreeOK(u) /\ u.kind = t.kind /\ Bare(u)
         /\ new \in Names(u, e) /\ Child(u, e, new) = child
         /\ \A x \in Node : \A y \in Names(t, x) :
              (x = e /\ y = new) \/ (d = e /\ x = d /\ y = nm)
                \/ (y \in Names(u, x) /\ Child(u, x, y) = Child(t, x, y))
<1> DEFINE u == RenameInsert(t, d, nm, e, new, child)
           s == IF d = e THEN Without(t, d, nm) ELSE t
<1>1. u = With(s, e, new, child)
  BY Zenon DEF RenameInsert
<1>2. /\ TreeOK(s) /\ s.kind = t.kind /\ Bare(s)
      /\ \A x \in Node : \A y \in Names(t, x) :
           (d = e /\ x = d /\ y = nm) \/ (y \in Names(s, x) /\ Child(s, x, y) = Child(t, x, y))
  <2>1. CASE d = e
    <3>1. s = Without(t, d, nm)
      BY <2>1, Zenon
    <3> HIDE DEF s
    <3>2. /\ TreeOK(s) /\ s.kind = t.kind /\ Bare(s)
          /\ Names(s, d) = Names(t, d) \ {nm}
          /\ \A x \in Names(s, d) : Child(s, d, x) = Child(t, d, x)
          /\ \A x \in Node \ {d} : s.children[x] = t.children[x]
      BY <3>1, WithoutOp
    <3>3. ASSUME NEW x \in Node, NEW y \in Names(t, x)
          PROVE  (x = d /\ y = nm) \/ (y \in Names(s, x) /\ Child(s, x, y) = Child(t, x, y))
      <4>1. CASE x = d
        BY <4>1, <3>2, <3>3, Zenon
      <4>2. CASE x # d
        BY <4>2, <3>2, <3>3, Zenon DEF Names, Child
      <4> QED BY <4>1, <4>2, Zenon
    <3> QED BY <2>1, <3>2, <3>3, Zenon
  <2>2. CASE d # e
    BY <2>2, Zenon
  <2> QED BY <2>1, <2>2, Zenon
<1> HIDE DEF s, u
<1>3. IsDir(s, e)
  BY <1>2, Zenon DEF IsDir, Dirs
<1>4. /\ TreeOK(u) /\ u.kind = s.kind /\ Bare(u)
      /\ Names(u, e) = {new} \cup Names(s, e) /\ Child(u, e, new) = child
      /\ \A x \in Names(s, e) \ {new} : Child(u, e, x) = Child(s, e, x)
      /\ \A x \in Node \ {e} : u.children[x] = s.children[x]
  BY <1>1, <1>2, <1>3, WithOp
<1>5. ASSUME NEW x \in Node, NEW y \in Names(s, x), ~(x = e /\ y = new)
      PROVE  y \in Names(u, x) /\ Child(u, x, y) = Child(s, x, y)
  <2>1. CASE x = e
    BY <2>1, <1>4, <1>5, Zenon
  <2>2. CASE x # e
    BY <2>2, <1>4, <1>5, Zenon DEF Names, Child
  <2> QED BY <2>1, <2>2, Zenon
<1>6. new \in Names(u, e)
  BY <1>4, Zenon
<1>7. ASSUME NEW x \in Node, NEW y \in Names(t, x)
      PROVE  (x = e /\ y = new) \/ (d = e /\ x = d /\ y = nm)
               \/ (y \in Names(u, x) /\ Child(u, x, y) = Child(t, x, y))
  BY <1>2, <1>5, <1>7, Zenon
<1> QED BY <1>2, <1>4, <1>6, <1>7, Zenon DEF u

\* The last two sections of rename.
LEMMA RenameRemoveOp ==
  ASSUME NEW t, TreeOK(t), Bare(t), NEW d, IsDir(t, d), NEW nm, NEW e
  PROVE  LET u == RenameRemove(t, d, nm, e) IN
         /\ TreeOK(u) /\ u.kind = t.kind /\ Bare(u)
         /\ \A x \in Node : \A y \in Names(t, x) :
              (d # e /\ x = d /\ y = nm) \/ (y \in Names(u, x) /\ Child(u, x, y) = Child(t, x, y))
<1> DEFINE u == RenameRemove(t, d, nm, e)
<1>1. CASE d = e
  BY <1>1, Zenon DEF RenameRemove
<1>2. CASE d # e
  <2>1. u = Without(t, d, nm)
    BY <1>2, Zenon DEF RenameRemove
  <2> HIDE DEF u
  <2>2. /\ TreeOK(u) /\ u.kind = t.kind /\ Bare(u)
        /\ Names(u, d) = Names(t, d) \ {nm}
        /\ \A x \in Names(u, d) : Child(u, d, x) = Child(t, d, x)
        /\ \A x \in Node \ {d} : u.children[x] = t.children[x]
    BY <2>1, WithoutOp
  <2>3. ASSUME NEW x \in Node, NEW y \in Names(t, x)
        PROVE  (x = d /\ y = nm) \/ (y \in Names(u, x) /\ Child(u, x, y) = Child(t, x, y))
    <3>1. CASE x = d
      BY <3>1, <2>2, <2>3, Zenon
    <3>2. CASE x # d
      BY <3>2, <2>2, <2>3, Zenon DEF Names, Child
    <3> QED BY <3>1, <3>2, Zenon
  <2> QED BY <1>2, <2>2, <2>3, Zenon DEF u
<1> QED BY <1>1, <1>2, Zenon

LEMMA RenameParentOp ==
  ASSUME NEW t, TreeOK(t), NEW child, NEW e
  PROVE  LET u == RenameParent(t, child, e) IN
         TreeOK(u) /\ u.kind = t.kind /\ u.children = t.children
BY TreeFields, Fields DEF RenameParent, TreeOK

\* write_at at the end of a file, and the size it notes.
LEMMA WriteAtOp ==
  ASSUME NEW t, TreeOK(t), NEW n \in Node, NEW S, t.content[n] \in Seq(S), NEW p \in S
  PROVE  LET u == WriteAt(t, n, Len(t.content[n]), <<p>>) IN
         /\ TreeOK(u) /\ u.kind = t.kind /\ u.children = t.children /\ u.size = t.size
         /\ u.content[n] \in Seq(S) /\ Len(u.content[n]) = Len(t.content[n]) + 1
         /\ u.content[n][Len(t.content[n]) + 1] = p
         /\ \A i \in 1..Len(t.content[n]) : u.content[n][i] = t.content[n][i]
<1> DEFINE old == t.content[n]
           u == WriteAt(t, n, Len(old), <<p>>)
           new == [i \in 1..Max({Len(old) + Len(<<p>>), Len(old)}) |->
                     CASE i > Len(old) /\ i <= Len(old) + Len(<<p>>) -> <<p>>[i - Len(old)]
                       [] i <= Len(old) /\ i <= Len(old) -> old[i]
                       [] i <= Len(old) /\ i > Len(old) -> 0
                       [] OTHER -> old[i]]
<1>1. u = [t EXCEPT !.content[n] = new]
  BY DEF WriteAt
<1> HIDE DEF new
<1>2. /\ TreeOK(u) /\ u.kind = t.kind /\ u.children = t.children /\ u.size = t.size
      /\ u.content[n] = new
  BY <1>1, TreeFields, Fields DEF TreeOK
<1>3. Len(<<p>>) = 1 /\ <<p>>[1] = p
  OBVIOUS
<1> HIDE DEF old, u
<1>4. old \in Seq(S) /\ Len(old) \in Nat
  BY DEF old
<1>5. Max({Len(old) + 1, Len(old)}) = Len(old) + 1
  BY <1>4 DEF Max
<1>6. new = [i \in 1..(Len(old) + 1) |-> IF i = Len(old) + 1 THEN p ELSE old[i]]
  BY <1>3, <1>4, <1>5 DEF new
<1>7. /\ new \in Seq(S) /\ Len(new) = Len(old) + 1 /\ new[Len(old) + 1] = p
      /\ \A i \in 1..Len(old) : new[i] = old[i]
  BY <1>4, <1>6
<1> QED BY <1>2, <1>7, Zenon DEF old, u

LEMMA SetSizeOp ==
  ASSUME NEW t, TreeOK(t), NEW n, NEW size
  PROVE  LET u == SetSize(t, n, size) IN
         /\ TreeOK(u) /\ u.kind = t.kind /\ u.children = t.children /\ u.content = t.content
         /\ n \in Node => u.size[n] = size
BY TreeFields, Fields DEF SetSize, TreeOK

(***************************************************************************)
(* Programs                                                                *)
(***************************************************************************)

LEMMA PidType == \A p \in Pid : p \in Nat \ {0}
BY Constants DEF Pid

\* The call a process makes next is one of its program.
LEMMA CallMade ==
  ASSUME TypeOK, NEW p \in Pid, made[p] < Len(program[p]), NEW c \in program[p][made[p] + 1]
  PROVE  c \in Makes(p)
<1>1. program[p] \in Seq(SUBSET STRING) /\ made[p] \in Nat
  BY FilesAssumption, Zenon DEF TypeOK
<1>2. made[p] + 1 \in DOMAIN program[p]
  BY <1>1
<1> QED BY <1>2 DEF Makes

LEMMA SameProgram ==
  ASSUME program' = program
  PROVE  /\ Movers' = Movers /\ (OneMover' <=> OneMover) /\ (Appends' <=> Appends)
         /\ \A p \in Pid : Makes(p)' = Makes(p)
<1>1. \A p \in Pid : Makes(p)' = Makes(p)
  BY Zenon DEF Makes
<1>2. Movers' = Movers
  BY <1>1, Zenon DEF Movers
<1>3. OneMover' <=> OneMover
  BY <1>2, Zenon DEF OneMover
<1>4. Appends' <=> Appends
  BY <1>1, Zenon DEF Appends
<1> QED BY <1>1, <1>2, <1>3, <1>4, Zenon

\* Programs that append make no other calls.
LEMMA OtherCall ==
  ASSUME NEW p \in Pid, NEW c \in Makes(p), c \notin {"fork", "write", "writev", "dup", "close", "exit"}
  PROVE  ~Appends
BY Zenon DEF Appends

LEMMA OtherPoint ==
  ASSUME Sharing, NEW p \in Pid, pc[p].call \notin {"none", "gone", "write", "written"}
  PROVE  ~Appends
BY Zenon DEF Sharing, OwnBytes

LEMMA NotSharing == ASSUME ~Appends, program' = program PROVE Sharing'
BY SameProgram, Zenon DEF Sharing

(***************************************************************************)
(* What a step of one process leaves to the others                         *)
(***************************************************************************)

\* The other processes are where they were; at most one that was not alive has begun.
Alone(p) == \A q \in Pid \ {p} : pc'[q] = pc[q] /\ (alive'[q] => alive[q] \/ pc[q].call = "none")

LEMMA GoesOp ==
  ASSUME TypeOK, NEW p \in Pid, NEW to, Goes(p, to)
  PROVE  DOMAIN pc' = Pid /\ pc'[p] = to /\ \A q \in Pid \ {p} : pc'[q] = pc[q]
BY DEF Goes, TypeOK

LEMMA DescriptorsSame ==
  ASSUME Descriptors, NEW p \in Pid, Alone(p), UNCHANGED <<files, stdio, sockets, ipv6, alive>>,
         \A e \in 1..MaxOpen : entry[e].live => entry'[e].live,
         alive[p] /\ pc'[p].call \in Opening => Fit(p)
  PROVE  Descriptors'
<1> SUFFICES ASSUME NEW q \in Pid PROVE OwnDescriptors(q)'
  BY Zenon DEF Descriptors
<1>1. OwnDescriptors(q)
  BY Zenon DEF Descriptors
<1>2. Fit(q)' <=> Fit(q)
  BY Zenon DEF Fit, FreeFds, Used
<1>3. alive[q] /\ pc'[q].call \in Opening => Fit(q)
  BY <1>1, Zenon DEF Alone, OwnDescriptors
<1> QED BY <1>1, <1>2, <1>3, Zenon DEF OwnDescriptors

\* In steps that create nothing, and in the one that does.
LEMMA CreatedSame ==
  ASSUME Created, NEW p \in Pid, Alone(p), KindsKept(tree, tree'),
         Excl(p)' => Excl(p) /\ pc'[p].node = pc[p].node
  PROVE  Created'
<1>1. ASSUME NEW q \in Pid, Excl(q)' PROVE Excl(q) /\ pc'[q].node = pc[q].node
  <2>1. CASE q = p
    BY <2>1, <1>1, Zenon
  <2>2. CASE q # p
    <3>1. pc'[q] = pc[q] /\ (alive[q] \/ pc[q].call = "none") /\ pc[q].call = "opened"
      BY <2>2, <1>1, Zenon DEF Alone, Excl, In
    <3> QED BY <3>1, <1>1, Zenon DEF Excl, In
  <2> QED BY <2>1, <2>2, Zenon
<1>2. ASSUME NEW q \in Pid, Excl(q)' PROVE (pc[q].node \in Node /\ tree.kind[pc[q].node] # "none")'
  BY <1>1, <1>2, Zenon DEF Created, KindsKept
<1>3. ExclusiveCreate'
  BY <1>1, Zenon DEF Created, ExclusiveCreate
<1> QED BY <1>2, <1>3, Zenon DEF Created

LEMMA CreatedNew ==
  ASSUME Created, NEW p \in Pid, Alone(p), KindsKept(tree, tree'),
         pc'[p].node \in Node, tree.kind[pc'[p].node] = "none", tree'.kind[pc'[p].node] # "none"
  PROVE  Created'
<1>1. ASSUME NEW q \in Pid, q # p, Excl(q)'
      PROVE  /\ Excl(q) /\ pc'[q].node = pc[q].node /\ pc[q].node \in Node
             /\ tree.kind[pc[q].node] # "none" /\ tree'.kind[pc[q].node] # "none"
  <2>1. pc'[q] = pc[q] /\ (alive[q] \/ pc[q].call = "none") /\ pc[q].call = "opened"
    BY <1>1, Zenon DEF Alone, Excl, In
  <2>2. Excl(q)
    BY <2>1, <1>1, Zenon DEF Excl, In
  <2> QED BY <2>1, <2>2, Zenon DEF Created, KindsKept
<1>2. ASSUME NEW q \in Pid, Excl(q)' PROVE (pc[q].node \in Node /\ tree.kind[pc[q].node] # "none")'
  BY <1>1, <1>2, Zenon
<1>3. ASSUME NEW q \in Pid, NEW r \in Pid, q # r, Excl(q)', Excl(r)' PROVE pc'[q].node # pc'[r].node
  <2>1. CASE q = p
    BY <2>1, <1>1, <1>3
  <2>2. CASE r = p
    BY <2>2, <1>1, <1>3
  <2>3. CASE q # p /\ r # p
    BY <2>3, <1>1, <1>3, Zenon DEF Created, ExclusiveCreate
  <2> QED BY <2>1, <2>2, <2>3, Zenon
<1> QED BY <1>2, <1>3, Zenon DEF Created, ExclusiveCreate

\* The name a mover is about to move stays, whatever the other processes do.
LEMMA MovingSame ==
  ASSUME Moving, NEW p \in Pid, Alone(p), program' = program, Bare(tree'),
         KindsKept(tree, tree'), p \in Movers \/ NamesKept(tree, tree'), OwnRename(p)'
  PROVE  Moving'
<1> SUFFICES ASSUME NEW q \in Pid, q # p PROVE OwnRename(q)'
  BY Zenon DEF Moving
<1>1. OwnRename(q) /\ pc'[q] = pc[q] /\ (alive'[q] => alive[q] \/ pc[q].call = "none")
  BY Zenon DEF Moving, Alone
<1>2. Movers' = Movers /\ (OneMover' <=> OneMover)
  BY SameProgram, Zenon
<1>3. ASSUME NEW c \in Renaming \cup {"unlink", "rmdir"}, In(q, c)' PROVE In(q, c) /\ q \in Movers
  <2>1. pc[q].call = c /\ c # "none" /\ alive'[q]
    BY <1>1, <1>3, Zenon DEF In, Renaming
  <2> QED BY <2>1, <1>1, Zenon DEF In, OwnRename
<1>4. \A d : IsDir(tree, d) => d \in Node /\ IsDir(tree', d)
  BY DEF IsDir, Dirs, KindsKept
<1>5. ASSUME OneMover, q \in Movers PROVE NamesKept(tree, tree')
  BY <1>5, Zenon DEF OneMover
<1>6. ASSUME NEW d \in Node, NEW nm \in Names(tree, d), NamesKept(tree, tree')
      PROVE  nm \in Names(tree', d) /\ Child(tree', d, nm) = Child(tree, d, nm)
  BY <1>6, Zenon DEF NamesKept
<1>7. ASSUME In(q, "insert") \/ In(q, "remove")
      PROVE  pc[q].dir \in Node /\ pc[q].newDir \in Node
  BY <1>1, <1>4, <1>7, Zenon DEF OwnRename
<1>8. ASSUME OneMover, In(q, "insert")' PROVE AtOld(q)'
  <2>1. In(q, "insert") /\ q \in Movers
    BY <1>3, <1>8, Zenon DEF Renaming
  <2>2. AtOld(q)
    BY <1>1, <1>8, <2>1, Zenon DEF OwnRename
  <2> QED BY <1>1, <1>5, <1>6, <1>7, <1>8, <2>1, <2>2, Zenon DEF AtOld, Has
<1>9. ASSUME OneMover, In(q, "remove")', Apart(q)' PROVE AtOld(q)' /\ AtNew(q)'
  <2>1. In(q, "remove") /\ q \in Movers /\ Apart(q)
    BY <1>1, <1>3, <1>9, Zenon DEF Renaming, Apart
  <2>2. AtOld(q) /\ AtNew(q)
    BY <1>1, <1>9, <2>1, Zenon DEF OwnRename
  <2> QED BY <1>1, <1>5, <1>6, <1>7, <1>9, <2>1, <2>2, Zenon DEF AtOld, AtNew, Has
<1>10. In(q, "insert")' \/ In(q, "remove")' => IsDir(tree', pc'[q].dir) /\ IsDir(tree', pc'[q].newDir)
  BY <1>1, <1>3, <1>4, Zenon DEF Renaming, OwnRename
<1>11. (alive[q] /\ pc[q].call \in Renaming \cup {"unlink", "rmdir"} => q \in Movers)'
  BY <1>2, <1>3, Zenon DEF In
<1> QED BY <1>1, <1>2, <1>8, <1>9, <1>10, <1>11, Zenon DEF OwnRename

\* A process that is not in rename, unlink or rmdir has nothing to keep.
LEMMA NotRenaming ==
  ASSUME NEW p \in Pid, pc'[p].call \notin Renaming \cup {"unlink", "rmdir"}
  PROVE  OwnRename(p)'
<1>1. pc'[p].call \notin {"rename", "insert", "remove", "reparent", "unlink", "rmdir"}
  BY Zenon DEF Renaming
<1> QED BY <1>1, Zenon DEF OwnRename, Renaming, In

\* A step that leaves the tables as they are.
LEMMA CallStep ==
  ASSUME FilesInv, NEW p \in Pid,
         DOMAIN pc' = Pid, "call" \in DOMAIN pc'[p], \A q \in Pid \ {p} : pc'[q] = pc[q],
         TreeOK(tree'), Bare(tree'), KindsKept(tree, tree'), p \in Movers \/ NamesKept(tree, tree'),
         DOMAIN entry' = 1..MaxOpen,
         \A e \in 1..MaxOpen : /\ DOMAIN entry'[e] = DOMAIN NoEntry
                               /\ entry[e].live => entry'[e].live,
         UNCHANGED <<files, stdio, sockets, ipv6, alive, program>>,
         DOMAIN cwd' = Pid, wrote' \in [Pid -> Nat], made' \in [Pid -> Nat],
         pc'[p].call \in Opening => Fit(p),
         \/ Excl(p)' => Excl(p) /\ pc'[p].node = pc[p].node
         \/ /\ pc'[p].node \in Node
            /\ tree.kind[pc'[p].node] = "none" /\ tree'.kind[pc'[p].node] # "none",
         OwnRename(p)', Sharing'
  PROVE  FilesInv'
<1>1. Alone(p)
  BY Zenon DEF Alone
<1>2. TypeOK'
  <2>1. \A q \in Pid : "call" \in DOMAIN pc'[q]
    BY Zenon DEF FilesInv, TypeOK
  <2> QED BY <2>1, Zenon DEF FilesInv, TypeOK
<1>3. Descriptors'
  BY <1>1, DescriptorsSame, Zenon DEF FilesInv
<1>4. Created'
  BY <1>1, CreatedSame, CreatedNew, Zenon DEF FilesInv
<1>5. Moving'
  BY <1>1, MovingSame, Zenon DEF FilesInv
<1> QED BY <1>2, <1>3, <1>4, <1>5, Zenon DEF FilesInv

\* A step on the tables.
LEMMA TableStep ==
  ASSUME FilesInv, NEW p \in Pid, Alone(p), UNCHANGED <<tree, program>>,
         pc'[p].call \in {"none", "gone"}, TypeOK', Descriptors', Sharing'
  PROVE  FilesInv'
<1>1. KindsKept(tree, tree') /\ NamesKept(tree, tree')
  BY Zenon DEF KindsKept, NamesKept
<1>2. Created'
  BY <1>1, CreatedSame, Zenon DEF FilesInv, Excl, In
<1>3. OwnRename(p)'
  BY NotRenaming, Zenon DEF Renaming
<1>4. Moving'
  BY <1>1, <1>3, MovingSame, Zenon DEF FilesInv, Moving
<1> QED BY <1>2, <1>4, Zenon DEF FilesInv

\* What the calls on trees and those that only wait leave alone.
Rest == /\ UNCHANGED <<files, stdio, sockets, ipv6, cwd, alive, entry, wrote, program>>
        /\ made' \in [Pid -> Nat]

LEMMA QuietRest == ASSUME Quiet, made' \in [Pid -> Nat] PROVE Rest
BY Zenon DEF Quiet, Rest, tables

LEMMA RestOp ==
  ASSUME FilesInv, Rest
  PROVE  /\ DOMAIN entry' = 1..MaxOpen
         /\ \A e \in 1..MaxOpen : DOMAIN entry'[e] = DOMAIN NoEntry /\ (entry[e].live => entry'[e].live)
         /\ UNCHANGED <<files, stdio, sockets, ipv6, alive, program>>
         /\ DOMAIN cwd' = Pid /\ wrote' \in [Pid -> Nat] /\ made' \in [Pid -> Nat]
BY Zenon DEF FilesInv, TypeOK, Rest

LEMMA SameTree ==
  ASSUME FilesInv, tree' = tree
  PROVE  TreeOK(tree') /\ Bare(tree') /\ KindsKept(tree, tree') /\ NamesKept(tree, tree')
BY Zenon DEF FilesInv, TypeOK, Moving, KindsKept, NamesKept

\* A call goes on, the tree is as it was.
LEMMA GoStep ==
  ASSUME FilesInv, NEW p \in Pid, NEW to, Goes(p, to), "call" \in DOMAIN to, tree' = tree, Rest,
         to.call \in Opening => Fit(p),
         to.call # "opened" \/ ~({"CREAT", "EXCL"} \subseteq to.flags),
         OwnRename(p)', Sharing'
  PROVE  FilesInv'
<1>1. DOMAIN pc' = Pid /\ pc'[p] = to /\ \A q \in Pid \ {p} : pc'[q] = pc[q]
  BY GoesOp, Zenon DEF FilesInv
<1>2. ~Excl(p)'
  BY <1>1, Zenon DEF Excl, In
<1> QED BY <1>1, <1>2, RestOp, SameTree, CallStep, Zenon

\* A call ends, and has done something to the tree.
LEMMA TreeStep ==
  ASSUME FilesInv, NEW p \in Pid, Done(p), Rest,
         TreeOK(tree'), Bare(tree'), KindsKept(tree, tree'), p \in Movers \/ NamesKept(tree, tree'),
         Sharing'
  PROVE  FilesInv'
<1>1. Goes(p, User) /\ "call" \in DOMAIN User /\ User.call = "none"
  BY DEF Done, User
<1>2. DOMAIN pc' = Pid /\ pc'[p] = User /\ \A q \in Pid \ {p} : pc'[q] = pc[q]
  BY <1>1, GoesOp, Zenon DEF FilesInv
<1>3. pc'[p].call \notin Opening /\ ~Excl(p)'
  BY <1>1, <1>2, Zenon DEF Opening, Excl, In
<1>4. OwnRename(p)'
  BY <1>1, <1>2, NotRenaming, Zenon DEF Renaming
<1> QED BY <1>1, <1>2, <1>3, <1>4, RestOp, CallStep, Zenon

\* A call ends that has done nothing to the tree.
LEMMA DoneStep ==
  ASSUME FilesInv, NEW p \in Pid, Done(p), Rest, tree' = tree, Sharing'
  PROVE  FilesInv'
BY SameTree, TreeStep, Zenon

\* A step of something else than processes and files.
LEMMA RestStep ==
  ASSUME FilesInv, UNCHANGED <<tree, files, stdio, sockets, ipv6, alive, entry, wrote, pc, program>>,
         DOMAIN cwd' = Pid, made' \in [Pid -> Nat]
  PROVE  FilesInv'
<1>1. TypeOK'
  BY Zenon DEF FilesInv, TypeOK
<1>2. Descriptors'
  BY Zenon DEF FilesInv, Descriptors, OwnDescriptors, Fit, FreeFds, Used
<1>3. Created'
  BY Zenon DEF FilesInv, Created, ExclusiveCreate, Excl, In
<1>4. Moving'
  <2>1. Moving /\ Movers' = Movers /\ (OneMover' <=> OneMover)
    BY SameProgram, Zenon DEF FilesInv
  <2> HIDE DEF Movers
  <2> QED BY <2>1, Zenon DEF Moving, OwnRename, Apart, AtOld, AtNew, In
<1>5. Sharing'
  <2>1. Sharing /\ (Appends' <=> Appends)
    BY SameProgram, Zenon DEF FilesInv
  <2>2. ASSUME Appends, NEW p \in Pid PROVE OwnBytes(p)'
    <3>1. Bytes' = Bytes /\ BytesOf(p)' = BytesOf(p) /\ OwnBytes(p)
      BY <2>1, <2>2, Zenon DEF Sharing, Bytes, BytesOf
    <3> QED BY <3>1 DEF OwnBytes
  <2> QED BY <2>1, <2>2, Zenon DEF Sharing, OpenFile, Bytes
<1> QED BY <1>1, <1>2, <1>3, <1>4, <1>5, Zenon DEF FilesInv

(***************************************************************************)
(* The calls with paths                                                    *)
(***************************************************************************)

LEMMA OtherSharing ==
  ASSUME NEW p \in Pid, NEW c \in Makes(p), c \notin {"fork", "write", "writev", "dup", "close", "exit"},
         program' = program
  PROVE  Sharing'
BY OtherCall, NotSharing, Zenon

LEMMA RestProgram == ASSUME Rest PROVE program' = program
BY Zenon DEF Rest

LEMMA OpenKeeps ==
  ASSUME FilesInv, NEW p \in Pid, NEW dirfd, NEW path, NEW flags, Open(p, dirfd, path, flags),
         "open" \in Makes(p), made' \in [Pid -> Nat]
  PROVE  FilesInv'
<1>1. Rest /\ tree' = tree /\ Fit(p)
  BY QuietRest, Zenon DEF Open
<1>2. Sharing'
  BY <1>1, RestProgram, OtherSharing, Zenon
<1>3. ASSUME NEW to, Goes(p, to), "call" \in DOMAIN to, to.call \in {"parent", "opened"},
             to.call # "opened" \/ ~({"CREAT", "EXCL"} \subseteq to.flags)
      PROVE  FilesInv'
  <2>1. pc'[p] = to
    BY <1>3, GoesOp, Zenon DEF FilesInv
  <2>2. OwnRename(p)'
    BY <1>3, <2>1, NotRenaming, Zenon DEF Renaming
  <2> QED BY <1>1, <1>2, <1>3, <2>2, GoStep, Zenon
<1> DEFINE full == AbsolutePath(p, dirfd, path)
           first == [call |-> "parent", full |-> Append(full, "tmp"), flags |-> flags]
           second == [call |-> "opened", full |-> full, flags |-> flags, node |-> At(full).node]
           third == [call |-> "parent", full |-> full, flags |-> flags]
<1>4. \/ Goes(p, first) \/ (Goes(p, second) /\ ~({"CREAT", "EXCL"} \subseteq flags))
      \/ Goes(p, third)
  BY Zenon DEF Open
<1>5. /\ "call" \in DOMAIN first /\ first.call = "parent"
      /\ "call" \in DOMAIN second /\ second.call = "opened" /\ second.flags = flags
      /\ "call" \in DOMAIN third /\ third.call = "parent"
  OBVIOUS
<1> HIDE DEF first, second, third
<1> QED BY <1>3, <1>4, <1>5, Zenon

\* The first step of mkdir, unlink, rmdir and symlink.
LEMMA BeginKeeps ==
  ASSUME FilesInv, NEW p \in Pid, NEW c \in OneDir, NEW dirfd, NEW path, Begin(p, c, dirfd, path),
         c \in Makes(p), made' \in [Pid -> Nat]
  PROVE  FilesInv'
<1> DEFINE full == AbsolutePath(p, dirfd, path)
           to == [call |-> c, dir |-> ParentOf(full).node, name |-> FileName(full)]
<1>1. Rest /\ tree' = tree /\ Goes(p, to)
  BY QuietRest, Zenon DEF Begin
<1>2. Sharing'
  BY <1>1, RestProgram, OtherSharing, Zenon DEF OneDir
<1>3. "call" \in DOMAIN to /\ to.call = c
  OBVIOUS
<1> HIDE DEF to
<1>4. pc'[p] = to
  BY <1>1, GoesOp, Zenon DEF FilesInv
<1>5. OwnRename(p)'
  <2>1. c \in {"unlink", "rmdir"} => p \in Movers
    BY Zenon DEF Movers
  <2>2. Movers' = Movers
    BY <1>1, RestProgram, SameProgram, Zenon
  <2> QED BY <1>3, <1>4, <2>1, <2>2, Zenon DEF OwnRename, OneDir, Renaming, In
<1>6. to.call \notin Opening
  BY <1>3, Zenon DEF Opening, OneDir
<1> QED BY <1>1, <1>2, <1>3, <1>5, <1>6, GoStep, Zenon DEF Opening

\* The first steps of link and rename.
LEMMA LinkBeginKeeps ==
  ASSUME FilesInv, NEW p \in Pid, NEW path, NEW newPath, LinkBegin(p, path, newPath),
         "link" \in Makes(p), made' \in [Pid -> Nat]
  PROVE  FilesInv'
<1> DEFINE full == AbsolutePath(p, NoDir, newPath)
           to == [call |-> "link", node |-> At(AbsolutePath(p, NoDir, path)).node,
                  dir |-> ParentOf(full).node, name |-> FileName(full)]
<1>1. Rest /\ tree' = tree /\ Goes(p, to)
  BY QuietRest, Zenon DEF LinkBegin
<1>2. Sharing'
  BY <1>1, RestProgram, OtherSharing, Zenon
<1>3. "call" \in DOMAIN to /\ to.call = "link"
  OBVIOUS
<1> HIDE DEF to
<1>4. pc'[p] = to
  BY <1>1, GoesOp, Zenon DEF FilesInv
<1>5. OwnRename(p)'
  BY <1>3, <1>4, NotRenaming, Zenon DEF Renaming
<1> QED BY <1>1, <1>2, <1>3, <1>5, GoStep, Zenon DEF Opening

LEMMA RenameBeginKeeps ==
  ASSUME FilesInv, NEW p \in Pid, NEW path, NEW newPath, RenameBegin(p, path, newPath),
         "rename" \in Makes(p), made' \in [Pid -> Nat]
  PROVE  FilesInv'
<1> DEFINE old == AbsolutePath(p, NoDir, path)
           new == AbsolutePath(p, NoDir, newPath)
           to == [call |-> "rename", dir |-> ParentOf(old).node, name |-> FileName(old),
                  newDir |-> ParentOf(new).node, newName |-> FileName(new), child |-> 0]
<1>1. Rest /\ tree' = tree /\ Goes(p, to)
  BY QuietRest, Zenon DEF RenameBegin
<1>2. Sharing'
  BY <1>1, RestProgram, OtherSharing, Zenon
<1>3. DOMAIN to = {"call", "dir", "name", "newDir", "newName", "child"} /\ to.call = "rename"
  OBVIOUS
<1> HIDE DEF to
<1>4. pc'[p] = to
  BY <1>1, GoesOp, Zenon DEF FilesInv
<1>5. OwnRename(p)'
  <2>1. p \in Movers'
    BY <1>1, RestProgram, SameProgram, Zenon DEF Movers
  <2> QED BY <1>3, <1>4, <2>1, Zenon DEF OwnRename, Renaming, In
<1>6. "call" \in DOMAIN to
  BY <1>3, Zenon
<1> QED BY <1>1, <1>2, <1>3, <1>5, <1>6, GoStep, Zenon DEF Opening

LEMMA PathCallKeeps ==
  ASSUME FilesInv, NEW p \in Pid, NEW c \in Makes(p), PathCall(p, c), made' \in [Pid -> Nat]
  PROVE  FilesInv'
<1> PICK path \in Paths :
      \/ c = "chdir" /\ Chdir(p, path)
      \/ \E dirfd \in {3, NoDir} :
           \/ c = "open" /\ \E flags \in OpenFlags : Open(p, dirfd, path, flags)
           \/ c \in OneDir /\ Begin(p, c, dirfd, path)
      \/ c = "link" /\ \E newPath \in Paths : LinkBegin(p, path, newPath)
      \/ c = "rename" /\ \E newPath \in Paths : RenameBegin(p, path, newPath)
  BY Zenon DEF PathCall
<1>1. CASE c = "chdir" /\ Chdir(p, path)
  <2>1. DOMAIN cwd' = Pid
    BY <1>1 DEF FilesInv, TypeOK, Chdir
  <2> QED BY <1>1, <2>1, RestStep, Zenon DEF Chdir, tables
<1> QED BY <1>1, OpenKeeps, BeginKeeps, LinkBeginKeeps, RenameBeginKeeps, Zenon

LEMMA PointSharing ==
  ASSUME FilesInv, NEW p \in Pid, pc[p].call \notin {"none", "gone", "write", "written"}, program' = program
  PROVE  Sharing'
BY OtherPoint, NotSharing, Zenon DEF FilesInv

\* openat goes on: the directory, then the file, which is an inode nobody has.
LEMMA OpenParentKeeps ==
  ASSUME FilesInv, NEW p \in Pid, OpenParent(p), made' \in [Pid -> Nat]
  PROVE  FilesInv'
<1> DEFINE to == [call |-> "create", full |-> pc[p].full, flags |-> pc[p].flags,
                  node |-> ParentOf(pc[p].full).node]
<1>1. /\ In(p, "parent") /\ Rest /\ tree' = tree
      /\ Goes(p, to) \/ Done(p)
  BY QuietRest, Zenon DEF OpenParent
<1>2. Sharing'
  BY <1>1, RestProgram, PointSharing, Zenon DEF In
<1>3. CASE Goes(p, to)
  <2>1. "call" \in DOMAIN to /\ to.call = "create"
    OBVIOUS
  <2> HIDE DEF to
  <2>2. pc'[p] = to
    BY <1>3, GoesOp, Zenon DEF FilesInv
  <2>3. OwnRename(p)'
    BY <2>1, <2>2, NotRenaming, Zenon DEF Renaming
  <2>4. Fit(p)
    BY <1>1, Zenon DEF FilesInv, Descriptors, OwnDescriptors, Opening, In
  <2> QED BY <1>1, <1>2, <1>3, <2>1, <2>3, <2>4, GoStep, Zenon
<1> QED BY <1>1, <1>2, <1>3, DoneStep, Zenon

LEMMA OpenCreateKeeps ==
  ASSUME FilesInv, NEW p \in Pid, OpenCreate(p), made' \in [Pid -> Nat]
  PROVE  FilesInv'
<1> DEFINE r == Create(tree, pc[p].node, FileName(pc[p].full), "file")
           to == [call |-> "opened", full |-> pc[p].full, flags |-> pc[p].flags, node |-> r.node]
<1>1. /\ In(p, "create") /\ HasRoom(tree) /\ Rest /\ tree' = r.t
      /\ IF r.result = "ok" THEN Goes(p, to) ELSE Done(p)
  BY QuietRest, Zenon DEF OpenCreate
<1>2. Sharing'
  BY <1>1, RestProgram, PointSharing, Zenon DEF In
<1>3. /\ TreeOK(r.t) /\ KindsKept(tree, r.t) /\ NamesKept(tree, r.t) /\ Bare(r.t)
      /\ r.result = "ok" => /\ r.node \in Node /\ tree.kind[r.node] = "none"
                            /\ r.t.kind[r.node] # "none"
  <2>1. TreeOK(tree) /\ Bare(tree) /\ HasRoom(tree)
    BY <1>1, Zenon DEF FilesInv, TypeOK, Moving
  <2> QED BY ONLY <2>1, CreateOp, "file" # "none", SMTT(20)
<1>4. CASE r.result = "ok"
  <2>1. "call" \in DOMAIN to /\ to.call = "opened" /\ to.node = r.node
    OBVIOUS
  <2> HIDE DEF to, r
  <2>2. DOMAIN pc' = Pid /\ pc'[p] = to /\ \A q \in Pid \ {p} : pc'[q] = pc[q]
    BY <1>1, <1>4, GoesOp, Zenon DEF FilesInv
  <2>3. OwnRename(p)'
    BY <2>1, <2>2, NotRenaming, Zenon DEF Renaming
  <2>4. Fit(p)
    BY <1>1, Zenon DEF FilesInv, Descriptors, OwnDescriptors, Opening, In
  <2> QED BY <1>1, <1>2, <1>3, <1>4, <2>1, <2>2, <2>3, <2>4, RestOp, CallStep, Zenon
<1> HIDE DEF r
<1> QED BY <1>1, <1>2, <1>3, <1>4, TreeStep, Zenon

\* The calls on one directory.
LEMMA OneDirKeeps ==
  ASSUME FilesInv, NEW p \in Pid, made' \in [Pid -> Nat],
         Mkdirat(p) \/ Unlinkat(p) \/ UnlinkatDir(p) \/ Symlinkat(p) \/ Linkat(p)
  PROVE  FilesInv'
<1>1. Done(p) /\ Rest /\ TreeOK(tree) /\ Bare(tree)
  BY QuietRest, Zenon DEF Mkdirat, Unlinkat, UnlinkatDir, Symlinkat, Linkat, FilesInv, TypeOK, Moving
<1>2. Sharing'
  BY <1>1, RestProgram, PointSharing, Zenon
     DEF Mkdirat, Unlinkat, UnlinkatDir, Symlinkat, Linkat, In
<1>3. CASE Mkdirat(p)
  <2>1. TreeOK(tree') /\ KindsKept(tree, tree') /\ NamesKept(tree, tree') /\ Bare(tree')
    BY <1>1, <1>3, CreateOp DEF Mkdirat
  <2> QED BY <1>1, <1>2, <2>1, TreeStep, Zenon
<1>4. CASE Symlinkat(p)
  <2>1. TreeOK(tree') /\ KindsKept(tree, tree') /\ NamesKept(tree, tree') /\ Bare(tree')
    BY <1>1, <1>4, SymlinkOp DEF Symlinkat
  <2> QED BY <1>1, <1>2, <2>1, TreeStep, Zenon
<1>5. CASE Linkat(p)
  <2>1. TreeOK(tree') /\ KindsKept(tree, tree') /\ NamesKept(tree, tree') /\ Bare(tree')
    BY <1>1, <1>5, LinkOp DEF Linkat
  <2> QED BY <1>1, <1>2, <2>1, TreeStep, Zenon
<1>6. CASE Unlinkat(p) \/ UnlinkatDir(p)
  <2>1. TreeOK(tree') /\ KindsKept(tree, tree') /\ Bare(tree')
    BY <1>1, <1>6, UnlinkOp, RmdirOp DEF Unlinkat, UnlinkatDir
  <2>2. p \in Movers
    BY <1>6, Zenon DEF Unlinkat, UnlinkatDir, In, FilesInv, Moving, OwnRename
  <2> QED BY <1>1, <1>2, <2>1, <2>2, TreeStep, Zenon
<1> QED BY <1>3, <1>4, <1>5, <1>6, Zenon

\* rename, found: both directories are directories and the old name is the child's.
LEMMA RenameFindOp ==
  ASSUME NEW t, NEW d, NEW nm, NEW e, NEW new, RenameFind(t, d, nm, e, new).result = "ok"
  PROVE  /\ IsDir(t, d) /\ IsDir(t, e) /\ Has(t, d, nm)
         /\ RenameFind(t, d, nm, e, new).node = Child(t, d, nm)
<1>1. /\ Failed(t, "NotDirectory").result # "ok" /\ Failed(t, "NotFound").result # "ok"
      /\ Failed(t, "NotEmpty").result # "ok" /\ \A n : Found(t, n).node = n
  BY DEF Failed, Found
<1>2. CASE IsDir(t, d) /\ IsDir(t, e) /\ Has(t, d, nm)
  <2> DEFINE full == Has(t, e, new) /\ IsDir(t, Child(t, e, new)) /\ Names(t, Child(t, e, new)) # {}
  <2>1. RenameFind(t, d, nm, e, new) = IF full THEN Failed(t, "NotEmpty") ELSE Found(t, Child(t, d, nm))
    BY <1>2, Zenon DEF RenameFind
  <2> QED BY <1>1, <1>2, <2>1, Zenon
<1>3. CASE ~(IsDir(t, d) /\ IsDir(t, e))
  BY <1>1, <1>3, Zenon DEF RenameFind
<1>4. CASE IsDir(t, d) /\ IsDir(t, e) /\ ~Has(t, d, nm)
  BY <1>1, <1>4, Zenon DEF RenameFind
<1> QED BY <1>2, <1>3, <1>4, Zenon

\* A section of rename goes on to the next one.
LEMMA RenameGoes ==
  ASSUME FilesInv, NEW p \in Pid, NEW to, Goes(p, to), Rest, p \in Movers,
         DOMAIN to = DOMAIN pc[p], pc[p].call \in Renaming, to.call \in Renaming,
         TreeOK(tree'), Bare(tree'), KindsKept(tree, tree'), OwnRename(p)'
  PROVE  FilesInv'
<1>1. DOMAIN pc' = Pid /\ pc'[p] = to /\ \A q \in Pid \ {p} : pc'[q] = pc[q]
  BY GoesOp, Zenon DEF FilesInv
<1>2. "call" \in DOMAIN pc'[p]
  BY <1>1, Zenon DEF FilesInv, TypeOK
<1>3. pc'[p].call \notin Opening /\ ~Excl(p)'
  BY <1>1, Zenon DEF Opening, Excl, In, Renaming
<1>4. Sharing'
  BY RestProgram, PointSharing, Zenon DEF Renaming
<1> QED BY <1>1, <1>2, <1>3, <1>4, RestOp, CallStep, Zenon

LEMMA RenameatKeeps ==
  ASSUME FilesInv, NEW p \in Pid, Renameat(p), made' \in [Pid -> Nat]
  PROVE  FilesInv'
<1> DEFINE c == pc[p]
           found == RenameFind(tree, c.dir, c.name, c.newDir, c.newName)
<1>1. alive[p] /\ c.call \in Renaming /\ Rest
  BY QuietRest, Zenon DEF Renameat, In, Renaming
<1>2. /\ TreeOK(tree) /\ Bare(tree) /\ p \in Movers /\ OwnRename(p)
      /\ DOMAIN c = {"call", "dir", "name", "newDir", "newName", "child"}
  BY <1>1, Zenon DEF FilesInv, TypeOK, Moving, OwnRename
<1>3. Movers' = Movers /\ (OneMover' <=> OneMover) /\ Sharing' /\ alive'[p]
  BY <1>1, RestProgram, SameProgram, PointSharing, Zenon DEF Renaming, Rest
<1>4. CASE In(p, "rename") /\ found.result = "ok"
  <2> DEFINE to == [c EXCEPT !.call = "insert", !.child = found.node]
  <2>1. Goes(p, to) /\ tree' = tree
    BY <1>4, Zenon DEF Renameat, In
  <2>2. /\ DOMAIN to = DOMAIN c /\ to.call = "insert" /\ to.child = found.node
        /\ to.dir = c.dir /\ to.name = c.name /\ to.newDir = c.newDir /\ to.newName = c.newName
    BY <1>2
  <2>3. IsDir(tree, c.dir) /\ IsDir(tree, c.newDir) /\ Has(tree, c.dir, c.name)
        /\ found.node = Child(tree, c.dir, c.name)
    BY <1>4, RenameFindOp
  <2> HIDE DEF to, found
  <2>4. pc'[p] = to
    BY <2>1, GoesOp, Zenon DEF FilesInv
  <2>5. OwnRename(p)'
    BY <1>2, <1>3, <2>1, <2>2, <2>3, <2>4, Zenon DEF OwnRename, AtOld, In, Renaming
  <2> QED BY <1>1, <1>2, <2>1, <2>2, <2>5, SameTree, RenameGoes, Zenon DEF Renaming
<1>5. CASE In(p, "rename") /\ found.result # "ok"
  BY <1>1, <1>3, <1>5, DoneStep, Zenon DEF Renameat, In
<1>6. CASE In(p, "insert")
  <2> DEFINE to == [c EXCEPT !.call = "remove"]
             u == RenameInsert(tree, c.dir, c.name, c.newDir, c.newName, c.child)
  <2>1. Goes(p, to) /\ tree' = u /\ IsDir(tree, c.dir) /\ IsDir(tree, c.newDir)
    BY <1>2, <1>6, Zenon DEF Renameat, In, OwnRename
  <2>2. /\ DOMAIN to = DOMAIN c /\ to.call = "remove" /\ to.child = c.child
        /\ to.dir = c.dir /\ to.name = c.name /\ to.newDir = c.newDir /\ to.newName = c.newName
    BY <1>2
  <2>3. /\ TreeOK(u) /\ u.kind = tree.kind /\ Bare(u)
        /\ c.newName \in Names(u, c.newDir) /\ Child(u, c.newDir, c.newName) = c.child
        /\ \A x \in Node : \A y \in Names(tree, x) :
             (x = c.newDir /\ y = c.newName) \/ (c.dir = c.newDir /\ x = c.dir /\ y = c.name)
               \/ (y \in Names(u, x) /\ Child(u, x, y) = Child(tree, x, y))
    BY <1>2, <2>1, RenameInsertOp
  <2> HIDE DEF to, u
  <2>4. pc'[p] = to /\ KindsKept(tree, tree') /\ TreeOK(tree') /\ Bare(tree')
    BY <2>1, <2>3, GoesOp, Zenon DEF FilesInv, KindsKept
  <2>5. IsDir(tree', c.dir) /\ IsDir(tree', c.newDir) /\ c.dir \in Node /\ c.newDir \in Node
    BY <2>1, <2>3, Zenon DEF IsDir, Dirs
  <2>6. AtNew(p)'
    BY <2>1, <2>2, <2>3, <2>4, Zenon DEF AtNew, Has
  <2>7. ASSUME OneMover, Apart(p)' PROVE AtOld(p)'
    <3>1. AtOld(p) /\ c.dir # c.newDir
      BY <1>2, <1>6, <2>2, <2>4, <2>7, Zenon DEF OwnRename, Apart
    <3> QED BY <2>1, <2>2, <2>3, <2>4, <2>5, <3>1, Zenon DEF AtOld, Has
  <2>8. OwnRename(p)'
    BY <1>2, <1>3, <2>2, <2>4, <2>5, <2>6, <2>7, Zenon DEF OwnRename, In, Renaming
  <2> QED BY <1>1, <1>2, <2>1, <2>2, <2>4, <2>8, RenameGoes, Zenon DEF Renaming
<1>7. CASE In(p, "remove")
  <2> DEFINE to == [c EXCEPT !.call = "reparent"]
             u == RenameRemove(tree, c.dir, c.name, c.newDir)
  <2>1. Goes(p, to) /\ tree' = u /\ IsDir(tree, c.dir)
    BY <1>2, <1>7, Zenon DEF Renameat, In, OwnRename
  <2>2. DOMAIN to = DOMAIN c /\ to.call = "reparent"
    BY <1>2
  <2>3. TreeOK(u) /\ u.kind = tree.kind /\ Bare(u)
    BY <1>2, <2>1, RenameRemoveOp
  <2> HIDE DEF to, u
  <2>4. pc'[p] = to /\ KindsKept(tree, tree') /\ TreeOK(tree') /\ Bare(tree')
    BY <2>1, <2>3, GoesOp, Zenon DEF FilesInv, KindsKept
  <2>5. OwnRename(p)'
    BY <1>2, <1>3, <2>2, <2>4, Zenon DEF OwnRename, In, Renaming
  <2> QED BY <1>1, <1>2, <2>1, <2>2, <2>4, <2>5, RenameGoes, Zenon DEF Renaming
<1>8. CASE In(p, "reparent")
  <2> DEFINE u == RenameParent(tree, c.child, c.newDir)
  <2>1. Done(p) /\ tree' = u
    BY <1>8, Zenon DEF Renameat, In
  <2>2. TreeOK(u) /\ u.kind = tree.kind /\ u.children = tree.children
    BY <1>2, RenameParentOp
  <2> HIDE DEF u
  <2>3. TreeOK(tree') /\ KindsKept(tree, tree') /\ Bare(tree')
    BY <1>2, <2>1, <2>2, Zenon DEF KindsKept, Bare, Names
  <2> QED BY <1>1, <1>2, <1>3, <2>1, <2>3, TreeStep, Zenon
<1> QED BY <1>4, <1>5, <1>6, <1>7, <1>8, Zenon DEF Renameat

(***************************************************************************)
(* The calls that wait                                                     *)
(***************************************************************************)

\* A call goes on to a point that is not one of open, unlink, rmdir or rename.
LEMMA PlainStep ==
  ASSUME FilesInv, NEW p \in Pid, NEW to, Goes(p, to), "call" \in DOMAIN to, tree' = tree, Rest,
         to.call \notin Opening \cup Renaming \cup {"unlink", "rmdir"}, Sharing'
  PROVE  FilesInv'
<1>1. pc'[p] = to
  BY GoesOp, Zenon DEF FilesInv
<1>2. OwnRename(p)'
  BY <1>1, NotRenaming, Zenon
<1>3. to.call # "opened" /\ to.call \notin Opening
  BY Zenon DEF Opening
<1> QED BY <1>2, <1>3, GoStep, Zenon

LEMMA WaitKeeps ==
  ASSUME FilesInv, NEW p \in Pid, NEW fd, NEW c \in {"ppoll", "select"}, NEW timeout,
         Wait(p, c, fd, timeout), c \in Makes(p), made' \in [Pid -> Nat]
  PROVE  FilesInv'
<1> DEFINE to == [call |-> c, fd |-> fd, timeout |-> timeout, due |-> timeout = "zero"]
<1>1. Goes(p, to) /\ Rest /\ tree' = tree
  BY QuietRest, Zenon DEF Wait
<1>2. Sharing'
  BY <1>1, RestProgram, OtherSharing, Zenon
<1>3. "call" \in DOMAIN to /\ to.call = c
  OBVIOUS
<1> HIDE DEF to
<1>4. to.call \notin Opening \cup Renaming \cup {"unlink", "rmdir"}
  BY <1>3, Zenon DEF Opening, Renaming
<1> QED BY <1>1, <1>2, <1>3, <1>4, PlainStep, Zenon

LEMMA RecvFromKeeps ==
  ASSUME FilesInv, NEW p \in Pid, NEW fd, RecvFrom(p, fd),
         NEW c \in Makes(p), c \in {"recv", "recvmsg", "read"}, made' \in [Pid -> Nat]
  PROVE  FilesInv'
<1> DEFINE to == [call |-> "recv", socket |-> sockets[p][fd]]
<1>1. Goes(p, to) /\ Rest /\ tree' = tree
  BY QuietRest, Zenon DEF RecvFrom
<1>2. Sharing'
  BY <1>1, RestProgram, OtherSharing, Zenon
<1>3. "call" \in DOMAIN to /\ to.call = "recv"
  OBVIOUS
<1> HIDE DEF to
<1>4. to.call \notin Opening \cup Renaming \cup {"unlink", "rmdir"}
  BY <1>3, Zenon DEF Opening, Renaming
<1> QED BY <1>1, <1>2, <1>3, <1>4, PlainStep, Zenon

LEMMA TurnKeeps == ASSUME FilesInv, NEW p \in Pid, Turn(p) PROVE FilesInv'
<1>1. made' \in [Pid -> Nat]
  BY Zenon DEF Turn, FilesInv, TypeOK
<1>2. Done(p) /\ Rest /\ tree' = tree
  BY <1>1, QuietRest, Zenon DEF Turn, Recv, Ppoll, Select, Rest, tables
<1>3. Sharing'
  BY <1>2, RestProgram, PointSharing, Zenon DEF Turn, Recv, Ppoll, Select, In
<1> QED BY <1>2, <1>3, DoneStep, Zenon

LEMMA ConsoleReadKeeps ==
  ASSUME FilesInv, NEW p \in Pid, ConsoleRead(p), made' \in [Pid -> Nat]
  PROVE  FilesInv'
<1>1. Done(p) /\ Rest /\ tree' = tree
  BY Zenon DEF ConsoleRead, Rest, tables
<1>2. Sharing'
  BY <1>1, RestProgram, PointSharing, Zenon DEF ConsoleRead, In
<1> QED BY <1>1, <1>2, DoneStep, Zenon

LEMMA TickKeeps == ASSUME FilesInv, NEW p \in Pid, Tick(p) PROVE FilesInv'
<1> DEFINE to == [pc[p] EXCEPT !.due = TRUE]
<1>1. made' \in [Pid -> Nat]
  BY Zenon DEF Tick, FilesInv, TypeOK
<1>2. Goes(p, to) /\ Rest /\ tree' = tree /\ pc[p].call \in {"ppoll", "select"}
  BY <1>1, QuietRest, Zenon DEF Tick, Expire, In
<1>3. Sharing'
  BY <1>2, RestProgram, PointSharing, Zenon
<1>4. "call" \in DOMAIN to /\ to.call = pc[p].call
  BY DEF FilesInv, TypeOK
<1> HIDE DEF to
<1>5. to.call \notin Opening \cup Renaming \cup {"unlink", "rmdir"}
  BY <1>2, <1>4, Zenon DEF Opening, Renaming
<1> QED BY <1>2, <1>3, <1>4, <1>5, PlainStep, Zenon

LEMMA OutsideKeeps == ASSUME FilesInv, Outside, made' = made PROVE FilesInv'
<1>1. DOMAIN cwd' = Pid /\ made' \in [Pid -> Nat]
  BY Zenon DEF Outside, FilesInv, TypeOK
<1> QED BY <1>1, RestStep, Zenon DEF Outside, tables

(***************************************************************************)
(* Reading, and the offset of an open file                                 *)
(***************************************************************************)

LEMMA EntryFields == DOMAIN NoEntry = {"live", "node", "offset", "path", "owner"} /\ ~NoEntry.live
BY DEF NoEntry

LEMMA OffsetStep ==
  ASSUME FilesInv, NEW p \in Pid, NEW fd \in DOMAIN files[p], NEW k, In(p, "none"),
         entry' = [entry EXCEPT ![files[p][fd]].offset = k],
         UNCHANGED <<tree, files, stdio, sockets, ipv6, cwd, alive, wrote, pc, program>>,
         made' \in [Pid -> Nat], Sharing'
  PROVE  FilesInv'
<1> DEFINE e == files[p][fd]
<1>1. e \in 1..MaxOpen
  BY Zenon DEF FilesInv, Descriptors, OwnDescriptors
<1>2. /\ DOMAIN entry = 1..MaxOpen /\ \A x \in 1..MaxOpen : DOMAIN entry[x] = DOMAIN NoEntry
      /\ DOMAIN pc = Pid /\ "call" \in DOMAIN pc[p] /\ DOMAIN cwd = Pid /\ wrote \in [Pid -> Nat]
  BY Zenon DEF FilesInv, TypeOK
<1>3. /\ DOMAIN entry' = 1..MaxOpen
      /\ \A x \in 1..MaxOpen : DOMAIN entry'[x] = DOMAIN NoEntry /\ entry'[x].live = entry[x].live
  <2> HIDE DEF e
  <2>1. entry' = [entry EXCEPT ![e].offset = k]
    BY Zenon DEF e
  <2> QED BY <1>1, <1>2, <2>1, EntryFields
<1>4. pc'[p].call = "none"
  BY Zenon DEF In
<1>5. pc'[p].call \notin Opening /\ ~Excl(p)' /\ OwnRename(p)'
  BY <1>4, NotRenaming, Zenon DEF Opening, Excl, In, Renaming
<1> QED BY <1>2, <1>3, <1>5, SameTree, CallStep, Zenon

LEMMA LseekKeeps ==
  ASSUME FilesInv, NEW p \in Pid, NEW fd, NEW offset, Lseek(p, fd, offset), In(p, "none"),
         "lseek" \in Makes(p), made' \in [Pid -> Nat]
  PROVE  FilesInv'
<1>1. Sharing'
  BY OtherSharing, Zenon DEF Lseek
<1> QED BY <1>1, OffsetStep, Zenon DEF Lseek, IsFile, tables

LEMMA GetdentsKeeps ==
  ASSUME FilesInv, NEW p \in Pid, NEW fd, Getdents64(p, fd), In(p, "none"),
         "getdents" \in Makes(p), made' \in [Pid -> Nat]
  PROVE  FilesInv'
<1>1. Sharing'
  BY OtherSharing, Zenon DEF Getdents64
<1> QED BY <1>1, OffsetStep, Zenon DEF Getdents64, IsFile, tables

LEMMA ReadKeeps ==
  ASSUME FilesInv, NEW p \in Pid, NEW fd, Read(p, fd), In(p, "none"),
         "read" \in Makes(p), made' \in [Pid -> Nat]
  PROVE  FilesInv'
<1>1. Sharing'
  BY OtherSharing, Zenon DEF Read
<1>2. UNCHANGED <<tree, files, stdio, sockets, ipv6, cwd, alive, wrote, program>>
  BY Zenon DEF Read, tables
<1>3. CASE IsSocket(p, fd)
  <2> DEFINE to == [call |-> "recv", socket |-> sockets[p][fd]]
  <2>1. Goes(p, to) /\ Rest
    BY <1>2, <1>3, Zenon DEF Read, Rest
  <2>2. "call" \in DOMAIN to /\ to.call = "recv"
    OBVIOUS
  <2> HIDE DEF to
  <2>3. to.call \notin Opening \cup Renaming \cup {"unlink", "rmdir"}
    BY <2>2, Zenon DEF Opening, Renaming
  <2> QED BY <1>1, <1>2, <2>1, <2>2, <2>3, PlainStep, Zenon
<1>4. CASE ~IsSocket(p, fd) /\ Stdio(p, fd) = {0}
  <2> DEFINE to == [call |-> "console"]
  <2>1. Goes(p, to) /\ Rest
    BY <1>2, <1>4, Zenon DEF Read, Rest
  <2>2. "call" \in DOMAIN to /\ to.call = "console"
    OBVIOUS
  <2> HIDE DEF to
  <2>3. to.call \notin Opening \cup Renaming \cup {"unlink", "rmdir"}
    BY <2>2, Zenon DEF Opening, Renaming
  <2> QED BY <1>1, <1>2, <2>1, <2>2, <2>3, PlainStep, Zenon
<1>5. CASE ~IsSocket(p, fd) /\ Stdio(p, fd) # {0}
  BY <1>1, <1>2, <1>5, OffsetStep, Zenon DEF Read, IsFile
<1> QED BY <1>3, <1>4, <1>5, Zenon

(***************************************************************************)
(* The tables                                                              *)
(***************************************************************************)

\* Only the tables of p change, and only where p is.
OnlyTable(p) ==
  \A q \in Pid \ {p} : /\ files'[q] = files[q] /\ stdio'[q] = stdio[q]
                       /\ sockets'[q] = sockets[q] /\ ipv6'[q] = ipv6[q]
                       /\ pc'[q] = pc[q] /\ alive'[q] = alive[q]

\* Every descriptor of fs is on an open file of ent.
Refer(fs, ent) == \A q \in Pid : \A fd \in DOMAIN fs[q] : fs[q][fd] \in 1..MaxOpen /\ ent[fs[q][fd]].live

OwnApart(p) == /\ DOMAIN files[p] \cap (DOMAIN stdio[p] \cup DOMAIN sockets[p]) = {}
               /\ DOMAIN stdio[p] \cap DOMAIN sockets[p] = {}
               /\ ipv6[p] \subseteq DOMAIN sockets[p]

LEMMA TablesNow ==
  ASSUME FilesInv
  PROVE  Refer(files, entry) /\ \A p \in Pid : alive[p] => OwnApart(p)
BY Zenon DEF FilesInv, Descriptors, OwnDescriptors, Refer, OwnApart

LEMMA DescriptorsTable ==
  ASSUME FilesInv, NEW p \in Pid, OnlyTable(p), Refer(files', entry'),
         pc'[p].call \notin Opening, alive'[p] => OwnApart(p)'
  PROVE  Descriptors'
<1> SUFFICES ASSUME NEW q \in Pid PROVE OwnDescriptors(q)'
  BY Zenon DEF Descriptors
<1>1. CASE q = p
  BY <1>1, Zenon DEF OwnDescriptors, OwnApart, Refer
<1>2. CASE q # p
  <2>1. /\ files'[q] = files[q] /\ stdio'[q] = stdio[q] /\ sockets'[q] = sockets[q]
        /\ ipv6'[q] = ipv6[q] /\ pc'[q] = pc[q] /\ alive'[q] = alive[q] /\ OwnDescriptors(q)
    BY <1>2, Zenon DEF OnlyTable, FilesInv, Descriptors
  <2>2. Fit(q) => Fit(q)'
    BY <2>1, Zenon DEF Fit, FreeFds, Used
  <2> QED BY <2>1, <2>2, Zenon DEF OwnDescriptors, Refer
<1> QED BY <1>1, <1>2, Zenon

\* The open files that nobody refers to are gone.
LEMMA SweepOp ==
  ASSUME NEW fs, NEW ent, Refer(fs, ent)
  PROVE  /\ Refer(fs, Sweep(fs, ent)) /\ DOMAIN Sweep(fs, ent) = 1..MaxOpen
         /\ \A e \in 1..MaxOpen :
              \/ Sweep(fs, ent)[e] = ent[e]
              \/ /\ Sweep(fs, ent)[e] = NoEntry
                 /\ \A q \in Pid : \A fd \in DOMAIN fs[q] : fs[q][fd] # e
<1>1. DOMAIN Sweep(fs, ent) = 1..MaxOpen
  BY Zenon DEF Sweep
<1>2. ASSUME NEW e \in 1..MaxOpen, \E q \in Pid : \E fd \in DOMAIN fs[q] : fs[q][fd] = e
      PROVE  Sweep(fs, ent)[e] = ent[e]
  BY <1>2, Zenon DEF Sweep
<1>3. ASSUME NEW e \in 1..MaxOpen, ~\E q \in Pid : \E fd \in DOMAIN fs[q] : fs[q][fd] = e
      PROVE  Sweep(fs, ent)[e] = NoEntry
  BY <1>3, Zenon DEF Sweep
<1>4. Refer(fs, Sweep(fs, ent))
  BY <1>2, Zenon DEF Refer
<1> QED BY <1>1, <1>2, <1>3, <1>4, Zenon

\* The tables of a process that is in no call: what they refer to was open already.
LEMMA SharingTable ==
  ASSUME FilesInv, NEW p \in Pid, OnlyTable(p), UNCHANGED <<tree, wrote, program>>,
         pc[p].call = "none", pc'[p].call \in {"none", "gone"},
         \A fd \in DOMAIN files'[p] : \E q \in Pid : \E gd \in DOMAIN files[q] : files'[p][fd] = files[q][gd],
         \/ entry'[1] = entry[1]
         \/ entry'[1] = NoEntry /\ \A q \in Pid : \A fd \in DOMAIN files'[q] : files'[q][fd] # 1
  PROVE  Sharing'
<1> SUFFICES ASSUME Appends PROVE Sharing'
  BY NotSharing, Zenon
<1>1. /\ tree.kind[OpenedNode] = "file" /\ Bytes \in Seq(Pid) /\ OpenFile
      /\ \A q \in Pid : OwnBytes(q)
  BY Zenon DEF FilesInv, Sharing
<1>2. Bytes' = Bytes /\ \A q \in Pid : BytesOf(q)' = BytesOf(q)
  BY Zenon DEF Bytes, BytesOf
<1>3. \A q \in Pid : pc'[q].call = "written" <=> pc[q].call = "written"
  BY Zenon DEF OnlyTable
<1>4. ASSUME entry'[1] # entry[1] PROVE entry[1].owner = 0 /\ entry'[1].owner = 0 /\ ~entry'[1].live
  <2>1. \A q \in Pid : \A fd \in DOMAIN files'[q] : files'[q][fd] # 1
    BY <1>4, Zenon
  <2>2. ASSUME NEW q \in Pid, pc[q].call = "written" PROVE FALSE
    <3>1. q # p
      BY <2>2
    <3>2. files'[q] = files[q] /\ OwnBytes(q)
      BY <1>1, <3>1, Zenon DEF OnlyTable
    <3>3. DOMAIN files[q] # {} /\ \A fd \in DOMAIN files[q] : files[q][fd] = 1
      BY <2>2, <3>2, Zenon DEF OwnBytes
    <3> QED BY <2>1, <3>2, <3>3, Zenon
  <2>3. entry[1].owner = 0
    BY <1>1, <2>2, Zenon DEF OpenFile
  <2> QED BY <1>4, <2>3 DEF NoEntry
<1>5. OpenFile'
  <2>1. CASE entry'[1] = entry[1]
    <3>1. entry[1].owner \in Pid => pc'[entry[1].owner].call = "written" <=> pc[entry[1].owner].call = "written"
      BY <1>3, Zenon
    <3> QED BY <1>1, <1>2, <2>1, <3>1 DEF OpenFile
  <2>2. CASE entry'[1] # entry[1]
    BY <1>1, <1>2, <1>4, <2>2, Zenon DEF OpenFile
  <2> QED BY <2>1, <2>2, Zenon
<1>6. ASSUME NEW q \in Pid, q # p PROVE OwnBytes(q)'
  <2>1. /\ files'[q] = files[q] /\ pc'[q] = pc[q] /\ alive'[q] = alive[q] /\ wrote' = wrote
        /\ OwnBytes(q) /\ BytesOf(q)' = BytesOf(q)
    BY <1>1, <1>2, <1>6, Zenon DEF OnlyTable
  <2>2. pc[q].call = "written" => entry'[1].owner = q
    BY <1>4, <2>1, PidType DEF OwnBytes
  <2> QED BY <1>2, <2>1, <2>2 DEF OwnBytes
<1>7. OwnBytes(p)'
  <2>1. \A fd \in DOMAIN files'[p] : files'[p][fd] = 1
    <3>1. \A q \in Pid : \A gd \in DOMAIN files[q] : files[q][gd] = 1
      BY <1>1, Zenon DEF OwnBytes
    <3> QED BY <3>1, Zenon
  <2>2. Cardinality(BytesOf(p)) = wrote[p] + 0
    BY <1>1 DEF OwnBytes
  <2> QED BY <1>2, <2>1, <2>2 DEF OwnBytes
<1>8. tree'.kind[OpenedNode] = "file" /\ Bytes' \in Seq(Pid)
  BY <1>1, <1>2, Zenon
<1> QED BY <1>5, <1>6, <1>7, <1>8, Zenon DEF Sharing

LEMMA TableDomains ==
  ASSUME FilesInv
  PROVE  /\ DOMAIN files = Pid /\ DOMAIN stdio = Pid /\ DOMAIN sockets = Pid /\ DOMAIN ipv6 = Pid
         /\ DOMAIN cwd = Pid /\ DOMAIN pc = Pid /\ DOMAIN entry = 1..MaxOpen
         /\ \A e \in 1..MaxOpen : DOMAIN entry[e] = DOMAIN NoEntry
BY Zenon DEF FilesInv, TypeOK

\* Whatever newfd stood for, it stands for one thing afterwards.
LEMMA CopyToOp ==
  ASSUME FilesInv, NEW p \in Pid, alive[p], NEW fd, NEW newfd, IsOpenFd(p, fd), CopyTo(p, fd, newfd)
  PROVE  /\ DOMAIN files' = Pid /\ DOMAIN stdio' = Pid /\ DOMAIN sockets' = Pid /\ DOMAIN ipv6' = Pid
         /\ \A q \in Pid \ {p} : /\ files'[q] = files[q] /\ stdio'[q] = stdio[q]
                                 /\ sockets'[q] = sockets[q] /\ ipv6'[q] = ipv6[q]
         /\ OwnApart(p)'
         /\ \A x \in DOMAIN files'[p] : \E g \in DOMAIN files[p] : files'[p][x] = files[p][g]
<1> DEFINE std == ~IsFile(p, fd) /\ Stdio(p, fd) # {}
           sock == ~IsFile(p, fd) /\ Stdio(p, fd) = {}
<1>1. /\ files' = [files EXCEPT ![p] = IF IsFile(p, fd) THEN Put(@, newfd, @[fd]) ELSE Drop(@, newfd)]
      /\ stdio' = [stdio EXCEPT ![p] = IF std THEN Put(@, newfd, Min(Stdio(p, fd))) ELSE Drop(@, newfd)]
      /\ sockets' = [sockets EXCEPT ![p] = IF sock THEN Put(@, newfd, @[fd]) ELSE Drop(@, newfd)]
      /\ ipv6' = [ipv6 EXCEPT ![p] = IF sock /\ fd \in @ THEN @ \cup {newfd} ELSE @ \ {newfd}]
  BY Zenon DEF CopyTo
<1> HIDE DEF std, sock
<1>2. /\ DOMAIN files' = Pid /\ DOMAIN stdio' = Pid /\ DOMAIN sockets' = Pid /\ DOMAIN ipv6' = Pid
      /\ \A q \in Pid \ {p} : /\ files'[q] = files[q] /\ stdio'[q] = stdio[q]
                              /\ sockets'[q] = sockets[q] /\ ipv6'[q] = ipv6[q]
  BY <1>1, TableDomains, Zenon
<1>3. /\ files'[p] = IF IsFile(p, fd) THEN Put(files[p], newfd, files[p][fd]) ELSE Drop(files[p], newfd)
      /\ stdio'[p] = IF std THEN Put(stdio[p], newfd, Min(Stdio(p, fd))) ELSE Drop(stdio[p], newfd)
      /\ sockets'[p] = IF sock THEN Put(sockets[p], newfd, sockets[p][fd]) ELSE Drop(sockets[p], newfd)
      /\ ipv6'[p] = IF sock /\ fd \in ipv6[p] THEN ipv6[p] \cup {newfd} ELSE ipv6[p] \ {newfd}
  BY <1>1, TableDomains, Zenon
<1>4. OwnApart(p)
  BY TablesNow, Zenon
<1>5. /\ DOMAIN files'[p] = IF IsFile(p, fd) THEN {newfd} \cup DOMAIN files[p] ELSE DOMAIN files[p] \ {newfd}
      /\ DOMAIN stdio'[p] = IF std THEN {newfd} \cup DOMAIN stdio[p] ELSE DOMAIN stdio[p] \ {newfd}
      /\ DOMAIN sockets'[p] = IF sock THEN {newfd} \cup DOMAIN sockets[p] ELSE DOMAIN sockets[p] \ {newfd}
  BY <1>3 DEF Put, Drop
<1>6. (IsFile(p, fd) => ~std /\ ~sock) /\ (std => ~sock)
  BY Zenon DEF std, sock
<1>7. OwnApart(p)'
  <2>1. DOMAIN files'[p] \cap (DOMAIN stdio'[p] \cup DOMAIN sockets'[p]) = {}
    BY <1>4, <1>5, <1>6 DEF OwnApart
  <2>2. DOMAIN stdio'[p] \cap DOMAIN sockets'[p] = {}
    BY <1>4, <1>5, <1>6 DEF OwnApart
  <2>3. ipv6'[p] \subseteq DOMAIN sockets'[p]
    BY <1>3, <1>4, <1>5, <1>6 DEF OwnApart
  <2> QED BY <2>1, <2>2, <2>3, Zenon DEF OwnApart
<1>8. ASSUME NEW x \in DOMAIN files'[p] PROVE \E g \in DOMAIN files[p] : files'[p][x] = files[p][g]
  <2>1. CASE IsFile(p, fd) /\ x = newfd
    <3>1. files'[p] = Put(files[p], newfd, files[p][fd]) /\ fd \in DOMAIN files[p]
      BY <1>3, <2>1, Zenon DEF IsFile
    <3> QED BY <2>1, <3>1, Zenon DEF Put, Drop
  <2>2. CASE IsFile(p, fd) /\ x # newfd
    <3>1. files'[p] = Put(files[p], newfd, files[p][fd]) /\ x \in DOMAIN files[p] \ {newfd}
      BY <1>3, <1>5, <1>8, <2>2
    <3> QED BY <3>1, Zenon DEF Put, Drop
  <2>3. CASE ~IsFile(p, fd)
    <3>1. files'[p] = Drop(files[p], newfd) /\ x \in DOMAIN files[p] \ {newfd}
      BY <1>3, <1>5, <1>8, <2>3
    <3> QED BY <3>1, Zenon DEF Put, Drop
  <2> QED BY <2>1, <2>2, <2>3, Zenon
<1> QED BY <1>2, <1>7, <1>8, Zenon

\* A step on the tables of one process.
LEMMA TableEnd ==
  ASSUME FilesInv, NEW p \in Pid, OnlyTable(p), UNCHANGED <<tree, wrote, program>>,
         DOMAIN files' = Pid, DOMAIN stdio' = Pid, DOMAIN sockets' = Pid, DOMAIN ipv6' = Pid,
         DOMAIN cwd' = Pid, DOMAIN pc' = Pid, alive' \in [Pid -> BOOLEAN], made' \in [Pid -> Nat],
         DOMAIN entry' = 1..MaxOpen, \A e \in 1..MaxOpen : DOMAIN entry'[e] = DOMAIN NoEntry,
         Refer(files', entry'), alive'[p] => OwnApart(p)',
         "call" \in DOMAIN pc'[p], pc'[p].call \in {"none", "gone"}, Sharing'
  PROVE  FilesInv'
<1>1. TypeOK'
  <2>1. \A q \in Pid : "call" \in DOMAIN pc'[q]
    BY Zenon DEF FilesInv, TypeOK, OnlyTable
  <2> QED BY <2>1, Zenon DEF FilesInv, TypeOK
<1>2. Descriptors'
  BY DescriptorsTable, Zenon DEF Opening
<1>3. Alone(p)
  BY Zenon DEF Alone, OnlyTable
<1> QED BY <1>1, <1>2, <1>3, TableStep, Zenon

\* What the sweep after a step on the tables leaves.
LEMMA Swept ==
  ASSUME FilesInv, Refer(files', entry), entry' = Sweep(files', entry)
  PROVE  /\ Refer(files', entry') /\ DOMAIN entry' = 1..MaxOpen
         /\ \A e \in 1..MaxOpen : DOMAIN entry'[e] = DOMAIN NoEntry
         /\ \/ entry'[1] = entry[1]
            \/ entry'[1] = NoEntry /\ \A q \in Pid : \A fd \in DOMAIN files'[q] : files'[q][fd] # 1
<1>1. /\ Refer(files', entry') /\ DOMAIN entry' = 1..MaxOpen
      /\ \A e \in 1..MaxOpen :
           \/ entry'[e] = entry[e]
           \/ entry'[e] = NoEntry /\ \A q \in Pid : \A fd \in DOMAIN files'[q] : files'[q][fd] # e
  <2> DEFINE fs == files'
  <2>1. /\ Refer(fs, Sweep(fs, entry)) /\ DOMAIN Sweep(fs, entry) = 1..MaxOpen
        /\ \A e \in 1..MaxOpen :
             \/ Sweep(fs, entry)[e] = entry[e]
             \/ Sweep(fs, entry)[e] = NoEntry /\ \A q \in Pid : \A fd \in DOMAIN fs[q] : fs[q][fd] # e
    <3>1. Refer(fs, entry)
      OBVIOUS
    <3> HIDE DEF fs
    <3> QED BY <3>1, SweepOp
  <2> QED BY <2>1, Zenon
<1>2. 1 \in 1..MaxOpen
  BY Constants
<1> QED BY <1>1, <1>2, TableDomains, Zenon

\* The descriptors of p are among those there were.
LEMMA Fewer ==
  ASSUME FilesInv, NEW p \in Pid, \A q \in Pid \ {p} : files'[q] = files[q],
         \A fd \in DOMAIN files'[p] : \E q \in Pid : \E gd \in DOMAIN files[q] : files'[p][fd] = files[q][gd]
  PROVE  Refer(files', entry)
<1>1. \A q \in Pid : \A fd \in DOMAIN files[q] : files[q][fd] \in 1..MaxOpen /\ entry[files[q][fd]].live
  BY TablesNow, Zenon DEF Refer
<1> SUFFICES ASSUME NEW q \in Pid, NEW fd \in DOMAIN files'[q]
             PROVE  files'[q][fd] \in 1..MaxOpen /\ entry[files'[q][fd]].live
  BY Zenon DEF Refer
<1>2. \E r \in Pid : \E gd \in DOMAIN files[r] : files'[q][fd] = files[r][gd]
  <2>1. CASE q = p
    BY <2>1, Zenon
  <2>2. CASE q # p
    BY <2>2, Zenon
  <2> QED BY <2>1, <2>2, Zenon
<1> QED BY <1>1, <1>2, Zenon

LEMMA DupKeeps ==
  ASSUME FilesInv, NEW p \in Pid, NEW fd, NEW from, Dup(p, fd, from), In(p, "none"), made' \in [Pid -> Nat]
  PROVE  FilesInv'
<1> DEFINE new == Min(FreeFds(p, from))
<1>1. /\ IsOpenFd(p, fd) /\ CopyTo(p, fd, new) /\ alive[p]
      /\ UNCHANGED <<tree, cwd, alive, entry, wrote, pc, program>>
  BY Zenon DEF Dup, In
<1> HIDE DEF new
<1>2. /\ DOMAIN files' = Pid /\ DOMAIN stdio' = Pid /\ DOMAIN sockets' = Pid /\ DOMAIN ipv6' = Pid
      /\ \A q \in Pid \ {p} : /\ files'[q] = files[q] /\ stdio'[q] = stdio[q]
                              /\ sockets'[q] = sockets[q] /\ ipv6'[q] = ipv6[q]
      /\ OwnApart(p)'
      /\ \A x \in DOMAIN files'[p] : \E g \in DOMAIN files[p] : files'[p][x] = files[p][g]
  BY <1>1, CopyToOp, Zenon
<1>3. OnlyTable(p)
  BY <1>1, <1>2, Zenon DEF OnlyTable
<1>4. Refer(files', entry')
  BY <1>1, <1>2, Fewer, Zenon
<1>5. pc[p].call = "none" /\ pc'[p].call = "none" /\ "call" \in DOMAIN pc'[p]
  BY <1>1, Zenon DEF In, FilesInv, TypeOK
<1>6. Sharing'
  BY <1>1, <1>2, <1>3, <1>5, SharingTable, Zenon
<1>7. alive' \in [Pid -> BOOLEAN]
  BY <1>1, Zenon DEF FilesInv, TypeOK
<1> QED BY <1>1, <1>2, <1>3, <1>4, <1>5, <1>6, <1>7, TableDomains, TableEnd, Zenon

LEMMA Dup2Keeps ==
  ASSUME FilesInv, NEW p \in Pid, NEW fd, NEW newfd, Dup2(p, fd, newfd), In(p, "none"), made' \in [Pid -> Nat]
  PROVE  FilesInv'
<1>1. /\ IsOpenFd(p, fd) /\ CopyTo(p, fd, newfd) /\ alive[p] /\ entry' = Sweep(files', entry)
      /\ UNCHANGED <<tree, cwd, alive, wrote, pc, program>>
  BY Zenon DEF Dup2, In
<1>2. /\ DOMAIN files' = Pid /\ DOMAIN stdio' = Pid /\ DOMAIN sockets' = Pid /\ DOMAIN ipv6' = Pid
      /\ \A q \in Pid \ {p} : /\ files'[q] = files[q] /\ stdio'[q] = stdio[q]
                              /\ sockets'[q] = sockets[q] /\ ipv6'[q] = ipv6[q]
      /\ OwnApart(p)'
      /\ \A x \in DOMAIN files'[p] : \E g \in DOMAIN files[p] : files'[p][x] = files[p][g]
  BY <1>1, CopyToOp, Zenon
<1>3. OnlyTable(p)
  BY <1>1, <1>2, Zenon DEF OnlyTable
<1>4. Refer(files', entry)
  BY <1>2, Fewer, Zenon
<1>5. /\ Refer(files', entry') /\ DOMAIN entry' = 1..MaxOpen
      /\ \A e \in 1..MaxOpen : DOMAIN entry'[e] = DOMAIN NoEntry
      /\ \/ entry'[1] = entry[1]
         \/ entry'[1] = NoEntry /\ \A q \in Pid : \A x \in DOMAIN files'[q] : files'[q][x] # 1
  BY <1>1, <1>4, Swept, Zenon
<1>6. pc[p].call = "none" /\ pc'[p].call = "none" /\ "call" \in DOMAIN pc'[p]
  BY <1>1, Zenon DEF In, FilesInv, TypeOK
<1>7. Sharing'
  BY <1>1, <1>2, <1>3, <1>5, <1>6, SharingTable, Zenon
<1>8. alive' \in [Pid -> BOOLEAN]
  BY <1>1, Zenon DEF FilesInv, TypeOK
<1> QED BY <1>1, <1>2, <1>3, <1>5, <1>6, <1>7, <1>8, TableDomains, TableEnd, Zenon

LEMMA CloseKeeps ==
  ASSUME FilesInv, NEW p \in Pid, NEW fd, Close(p, fd), In(p, "none"), made' \in [Pid -> Nat]
  PROVE  FilesInv'
<1>1. /\ alive[p] /\ entry' = Sweep(files', entry)
      /\ ipv6' = [ipv6 EXCEPT ![p] = @ \ {fd}]
      /\ sockets' = [sockets EXCEPT ![p] = Drop(@, fd)]
      /\ files' = files \/ files' = [files EXCEPT ![p] = Drop(@, fd)]
      /\ stdio' = stdio \/ stdio' = [stdio EXCEPT ![p] = Drop(@, fd)]
      /\ UNCHANGED <<tree, cwd, alive, wrote, pc, program>>
  BY Zenon DEF Close, In
<1>2. /\ DOMAIN files' = Pid /\ DOMAIN stdio' = Pid /\ DOMAIN sockets' = Pid /\ DOMAIN ipv6' = Pid
      /\ \A q \in Pid \ {p} : /\ files'[q] = files[q] /\ stdio'[q] = stdio[q]
                              /\ sockets'[q] = sockets[q] /\ ipv6'[q] = ipv6[q]
      /\ ipv6'[p] = ipv6[p] \ {fd} /\ sockets'[p] = Drop(sockets[p], fd)
      /\ files'[p] = files[p] \/ files'[p] = Drop(files[p], fd)
      /\ stdio'[p] = stdio[p] \/ stdio'[p] = Drop(stdio[p], fd)
  BY <1>1, TableDomains, Zenon
<1>3. /\ DOMAIN sockets'[p] = DOMAIN sockets[p] \ {fd}
      /\ DOMAIN files'[p] \subseteq DOMAIN files[p] /\ DOMAIN stdio'[p] \subseteq DOMAIN stdio[p]
      /\ \A x \in DOMAIN files'[p] : files'[p][x] = files[p][x]
  BY <1>2, Zenon DEF Drop
<1>4. OwnApart(p)'
  <2>1. OwnApart(p)
    BY <1>1, TablesNow, Zenon
  <2> QED BY <1>2, <1>3, <2>1 DEF OwnApart
<1>5. OnlyTable(p)
  BY <1>1, <1>2, Zenon DEF OnlyTable
<1>6. \A x \in DOMAIN files'[p] : \E g \in DOMAIN files[p] : files'[p][x] = files[p][g]
  BY <1>3, Zenon
<1>7. Refer(files', entry)
  BY <1>2, <1>6, Fewer, Zenon
<1>8. /\ Refer(files', entry') /\ DOMAIN entry' = 1..MaxOpen
      /\ \A e \in 1..MaxOpen : DOMAIN entry'[e] = DOMAIN NoEntry
      /\ \/ entry'[1] = entry[1]
         \/ entry'[1] = NoEntry /\ \A q \in Pid : \A x \in DOMAIN files'[q] : files'[q][x] # 1
  BY <1>1, <1>7, Swept, Zenon
<1>9. pc[p].call = "none" /\ pc'[p].call = "none" /\ "call" \in DOMAIN pc'[p]
  BY <1>1, Zenon DEF In, FilesInv, TypeOK
<1>10. Sharing'
  BY <1>1, <1>5, <1>6, <1>8, <1>9, SharingTable, Zenon
<1>11. alive' \in [Pid -> BOOLEAN]
  BY <1>1, Zenon DEF FilesInv, TypeOK
<1> QED BY <1>1, <1>2, <1>4, <1>5, <1>8, <1>9, <1>10, <1>11, TableDomains, TableEnd, Zenon

\* The child has the descriptors of its parent, which is alive.
LEMMA ForkKeeps ==
  ASSUME FilesInv, NEW p \in Pid, NEW q \in Pid, Fork(p, q), In(p, "none"), made' \in [Pid -> Nat]
  PROVE  FilesInv'
<1>1. /\ alive[p] /\ pc[q] = User
      /\ alive' = [alive EXCEPT ![q] = TRUE]
      /\ files' = [files EXCEPT ![q] = files[p]] /\ stdio' = [stdio EXCEPT ![q] = stdio[p]]
      /\ sockets' = [sockets EXCEPT ![q] = sockets[p]] /\ ipv6' = [ipv6 EXCEPT ![q] = ipv6[p]]
      /\ cwd' = [cwd EXCEPT ![q] = cwd[p]]
      /\ UNCHANGED <<tree, entry, wrote, pc, program>>
  BY Zenon DEF Fork, In
<1>2. alive \in [Pid -> BOOLEAN]
  BY Zenon DEF FilesInv, TypeOK
<1>3. /\ DOMAIN files' = Pid /\ DOMAIN stdio' = Pid /\ DOMAIN sockets' = Pid /\ DOMAIN ipv6' = Pid
      /\ DOMAIN cwd' = Pid /\ alive' \in [Pid -> BOOLEAN]
      /\ files'[q] = files[p] /\ stdio'[q] = stdio[p] /\ sockets'[q] = sockets[p] /\ ipv6'[q] = ipv6[p]
  BY <1>1, <1>2, TableDomains, Zenon
<1>4. OnlyTable(q)
  BY <1>1, <1>2, TableDomains, Zenon DEF OnlyTable
<1>5. OwnApart(q)'
  BY <1>1, <1>3, TablesNow, Zenon DEF OwnApart
<1>6. \A fd \in DOMAIN files'[q] : \E r \in Pid : \E gd \in DOMAIN files[r] : files'[q][fd] = files[r][gd]
  BY <1>3, Zenon
<1>7. Refer(files', entry')
  <2>1. \A r \in Pid \ {q} : files'[r] = files[r]
    BY <1>4, Zenon DEF OnlyTable
  <2> QED BY <1>1, <1>6, <2>1, Fewer, Zenon
<1>8. pc[q].call = "none" /\ pc'[q].call = "none" /\ "call" \in DOMAIN pc'[q]
  BY <1>1 DEF User
<1>9. Sharing'
  BY <1>1, <1>4, <1>6, <1>8, SharingTable, Zenon
<1> QED BY <1>1, <1>3, <1>4, <1>5, <1>7, <1>8, <1>9, TableDomains, TableEnd, Zenon

LEMMA ExitKeeps ==
  ASSUME FilesInv, NEW p \in Pid, Exit(p), In(p, "none"), made' \in [Pid -> Nat]
  PROVE  FilesInv'
<1>1. /\ alive' = [alive EXCEPT ![p] = FALSE] /\ Goes(p, [call |-> "gone"])
      /\ files' = [files EXCEPT ![p] = <<>>] /\ sockets' = [sockets EXCEPT ![p] = <<>>]
      /\ entry' = Sweep(files', entry) /\ pc[p].call = "none"
      /\ UNCHANGED <<tree, stdio, ipv6, cwd, wrote, program>>
  BY Zenon DEF Exit, In
<1>2. alive \in [Pid -> BOOLEAN]
  BY Zenon DEF FilesInv, TypeOK
<1>3. DOMAIN files' = Pid /\ DOMAIN sockets' = Pid /\ alive' \in [Pid -> BOOLEAN] /\ ~alive'[p]
  BY <1>1, <1>2, TableDomains, Zenon
<1>4. DOMAIN pc' = Pid /\ pc'[p] = [call |-> "gone"] /\ \A q \in Pid \ {p} : pc'[q] = pc[q]
  BY <1>1, GoesOp, Zenon DEF FilesInv
<1>5. OnlyTable(p)
  BY <1>1, <1>2, <1>4, TableDomains, Zenon DEF OnlyTable
<1>6. DOMAIN files'[p] = {}
  BY <1>1, TableDomains
<1>7. Refer(files', entry)
  <2>1. \A r \in Pid \ {p} : files'[r] = files[r]
    BY <1>5, Zenon DEF OnlyTable
  <2> QED BY <1>6, <2>1, Fewer, Zenon
<1>8. /\ Refer(files', entry') /\ DOMAIN entry' = 1..MaxOpen
      /\ \A e \in 1..MaxOpen : DOMAIN entry'[e] = DOMAIN NoEntry
      /\ \/ entry'[1] = entry[1]
         \/ entry'[1] = NoEntry /\ \A q \in Pid : \A x \in DOMAIN files'[q] : files'[q][x] # 1
  BY <1>1, <1>7, Swept, Zenon
<1>9. pc'[p].call = "gone" /\ "call" \in DOMAIN pc'[p]
  BY <1>4
<1>10. Sharing'
  BY <1>1, <1>5, <1>6, <1>8, <1>9, SharingTable, Zenon
<1>11. DOMAIN stdio' = Pid /\ DOMAIN ipv6' = Pid /\ DOMAIN cwd' = Pid
  BY <1>1, TableDomains, Zenon
<1>12. UNCHANGED <<tree, wrote, program>>
  BY <1>1, Zenon
<1> QED BY <1>3, <1>4, <1>5, <1>8, <1>9, <1>10, <1>11, <1>12, TableEnd, Zenon

LEMMA NextFdOp ==
  ASSUME NEW p, Fit(p)
  PROVE  NextFd(p) \notin DOMAIN files[p] \cup DOMAIN stdio[p] \cup DOMAIN sockets[p]
<1> DEFINE S == FreeFds(p, 3)
<1>1. S \in SUBSET Nat /\ S # {}
  BY Constants DEF Fit, FreeFds, Fd
<1>2. Min(S) \in S
  <2> HIDE DEF S
  <2> QED BY <1>1, MinOp, Zenon
<1> QED BY <1>2, Zenon DEF NextFd, FreeFds, Used

LEMMA SocketMade ==
  ASSUME FilesInv, NEW p \in Pid, NEW kind, NEW six, NEW bound, Socket(p, kind, six, bound),
         In(p, "none"), "socket" \in Makes(p), made' \in [Pid -> Nat],
         NewSocket(net, kind, bound).result = "ok"
  PROVE  FilesInv'
<1> DEFINE fd == NextFd(p)
           id == net.next
<1>1. /\ alive[p] /\ Fit(p) /\ pc[p].call = "none"
      /\ sockets' = [sockets EXCEPT ![p] = Put(@, fd, id)]
      /\ ipv6' = [ipv6 EXCEPT ![p] = IF six THEN @ \cup {fd} ELSE @]
      /\ UNCHANGED <<tree, files, stdio, cwd, alive, entry, wrote, pc, program>>
  BY Zenon DEF Socket, In
<1>2. fd \notin DOMAIN files[p] \cup DOMAIN stdio[p] \cup DOMAIN sockets[p]
  BY <1>1, NextFdOp, Zenon
<1> HIDE DEF fd, id
<1>3. /\ DOMAIN sockets' = Pid /\ DOMAIN ipv6' = Pid /\ sockets'[p] = Put(sockets[p], fd, id)
      /\ ipv6'[p] = (IF six THEN ipv6[p] \cup {fd} ELSE ipv6[p])
      /\ \A q \in Pid \ {p} : sockets'[q] = sockets[q] /\ ipv6'[q] = ipv6[q]
  BY <1>1, TableDomains, Zenon
<1>4. DOMAIN sockets'[p] = {fd} \cup DOMAIN sockets[p]
  BY <1>3, Zenon DEF Put
<1>5. OwnApart(p)'
  <2>1. OwnApart(p)
    BY <1>1, TablesNow, Zenon
  <2> QED BY <1>1, <1>2, <1>3, <1>4, <2>1 DEF OwnApart
<1>6. OnlyTable(p)
  BY <1>1, <1>3, Zenon DEF OnlyTable
<1>7. Refer(files', entry')
  BY <1>1, TablesNow, Zenon
<1>8. pc'[p].call = "none" /\ "call" \in DOMAIN pc'[p] /\ alive' \in [Pid -> BOOLEAN]
  BY <1>1, Zenon DEF FilesInv, TypeOK
<1>9. Sharing'
  BY <1>1, OtherSharing, Zenon
<1> QED BY <1>1, <1>3, <1>5, <1>6, <1>7, <1>8, <1>9, TableDomains, TableEnd, Zenon

LEMMA SocketKeeps ==
  ASSUME FilesInv, NEW p \in Pid, NEW kind, NEW six, NEW bound, Socket(p, kind, six, bound),
         In(p, "none"), "socket" \in Makes(p), made' \in [Pid -> Nat]
  PROVE  FilesInv'
<1>1. CASE NewSocket(net, kind, bound).result = "ok"
  BY <1>1, SocketMade, Zenon
<1>2. CASE NewSocket(net, kind, bound).result # "ok"
  <2>1. UNCHANGED <<tree, files, stdio, sockets, ipv6, cwd, alive, entry, wrote, pc, program>>
    BY <1>2, Zenon DEF Socket
  <2> QED BY <2>1, TableDomains, RestStep, Zenon
<1> QED BY <1>1, <1>2, Zenon

\* The end of openat: there was room for a descriptor when it began, and nobody else uses
\* the table.
LEMMA OpenEndKeeps ==
  ASSUME FilesInv, NEW p \in Pid, OpenEnd(p), made' \in [Pid -> Nat]
  PROVE  FilesInv'
<1>1. /\ In(p, "opened") /\ alive[p] /\ Done(p)
      /\ UNCHANGED <<tree, stdio, sockets, ipv6, cwd, alive, wrote, program>>
      /\ UNCHANGED <<files, entry>> \/ (FreeEntries # {} /\ AllocFd(p, pc[p].node, pc[p].full))
  BY Zenon DEF OpenEnd, In
<1>2. Sharing'
  BY <1>1, PointSharing, Zenon DEF In
<1>3. CASE UNCHANGED <<files, entry>>
  BY <1>1, <1>2, <1>3, DoneStep, Zenon DEF Rest
<1>4. CASE FreeEntries # {} /\ AllocFd(p, pc[p].node, pc[p].full)
  <2> DEFINE fd == NextFd(p)
             e == Min(FreeEntries)
             new == [live |-> TRUE, node |-> pc[p].node, offset |-> 0, path |-> pc[p].full, owner |-> 0]
  <2>1. files' = [files EXCEPT ![p] = Put(@, fd, e)] /\ entry' = [entry EXCEPT ![e] = new]
    BY <1>4, Zenon DEF AllocFd
  <2>2. e \in 1..MaxOpen
    <3>1. FreeEntries \in SUBSET Nat
      BY Constants DEF FreeEntries
    <3>2. Min(FreeEntries) \in FreeEntries
      BY <1>4, <3>1, MinOp, Zenon
    <3> QED BY <3>2, Zenon DEF FreeEntries
  <2>3. new.live /\ DOMAIN new = DOMAIN NoEntry
    BY EntryFields
  <2>4. Fit(p)
    BY <1>1, Zenon DEF FilesInv, Descriptors, OwnDescriptors, Opening, In
  <2>5. fd \notin DOMAIN files[p] \cup DOMAIN stdio[p] \cup DOMAIN sockets[p]
    BY <2>4, NextFdOp, Zenon
  <2> HIDE DEF fd, e, new
  <2>6. /\ DOMAIN files' = Pid /\ files'[p] = Put(files[p], fd, e)
        /\ \A q \in Pid \ {p} : files'[q] = files[q]
    BY <2>1, TableDomains, Zenon
  <2>7. /\ DOMAIN entry' = 1..MaxOpen /\ entry'[e] = new
        /\ \A x \in (1..MaxOpen) \ {e} : entry'[x] = entry[x]
    BY <2>1, <2>2, TableDomains, Zenon
  <2>8. DOMAIN files'[p] = {fd} \cup DOMAIN files[p] /\ files'[p][fd] = e
        /\ \A x \in DOMAIN files[p] : files'[p][x] = files[p][x] \/ files'[p][x] = e
    BY <2>6, Zenon DEF Put
  <2>9. Refer(files', entry')
    <3>1. Refer(files, entry)
      BY TablesNow, Zenon
    <3>2. \A x \in 1..MaxOpen : entry[x].live => entry'[x].live
      BY <2>3, <2>7, Zenon
    <3>3. ASSUME NEW q \in Pid, NEW x \in DOMAIN files'[q]
          PROVE  files'[q][x] \in 1..MaxOpen /\ entry'[files'[q][x]].live
      <4>1. CASE files'[q][x] = e
        BY <2>2, <2>3, <2>7, <4>1, Zenon
      <4>2. CASE files'[q][x] # e
        <5>1. x \in DOMAIN files[q] /\ files'[q][x] = files[q][x]
          BY <2>6, <2>8, <3>3, <4>2, Zenon
        <5> QED BY <3>1, <3>2, <5>1, Zenon DEF Refer
      <4> QED BY <4>1, <4>2, Zenon
    <3> QED BY <3>3, Zenon DEF Refer
  <2>10. OwnApart(p)'
    <3>1. OwnApart(p)
      BY <1>1, TablesNow, Zenon
    <3> QED BY <1>1, <2>5, <2>8, <3>1 DEF OwnApart
  <2>11. \A x \in 1..MaxOpen : DOMAIN entry'[x] = DOMAIN NoEntry
    BY <2>3, <2>7, TableDomains, Zenon
  <2>12. DOMAIN pc' = Pid /\ pc'[p] = User /\ \A q \in Pid \ {p} : pc'[q] = pc[q]
    BY <1>1, GoesOp, Zenon DEF FilesInv, Done
  <2>13. pc'[p].call = "none" /\ "call" \in DOMAIN pc'[p]
    BY <2>12 DEF User
  <2>14. OnlyTable(p)
    BY <1>1, <2>6, <2>12, Zenon DEF OnlyTable
  <2>15. alive' \in [Pid -> BOOLEAN]
    BY <1>1, Zenon DEF FilesInv, TypeOK
  <2> QED BY <1>1, <1>2, <2>6, <2>7, <2>9, <2>10, <2>11, <2>12, <2>13, <2>14, <2>15,
             TableDomains, TableEnd, Zenon
<1> QED BY <1>1, <1>3, <1>4, Zenon
=============================================================================
