----------------------------- MODULE FileProofs -----------------------------
(***************************************************************************)
(* The file calls of korix, for any number of processes, descriptors, open *)
(* files and inodes, and any programs: a descriptor stands for one thing,  *)
(* O_EXCL creates once, writes through one open file lose nothing, and a   *)
(* rename keeps the name of what it moves.                                 *)
(***************************************************************************)
EXTENDS FileLemmas, FiniteSetTheorems

(***************************************************************************)
(* Writing                                                                 *)
(***************************************************************************)

\* write_at touches the bytes of a file, nothing else.
LEMMA WriteAtTree ==
  ASSUME NEW t, TreeOK(t), NEW n, NEW offset, NEW bytes
  PROVE  LET u == WriteAt(t, n, offset, bytes) IN TreeOK(u) /\ u.kind = t.kind /\ u.children = t.children
<1> DEFINE old == t.content[n]
           end == offset + Len(bytes)
           c == [i \in 1..Max({end, Len(old)}) |->
                   CASE i > offset /\ i <= end -> bytes[i - offset]
                     [] i <= offset /\ i <= Len(old) -> old[i]
                     [] i <= offset /\ i > Len(old) -> 0
                     [] OTHER -> old[i]]
           u == WriteAt(t, n, offset, bytes)
<1>1. u = [t EXCEPT !.content[n] = c]
  BY Zenon DEF WriteAt
<1> HIDE DEF c, u
<1>2. TreeOK(u) /\ u.kind = t.kind /\ u.children = t.children
  BY <1>1, TreeFields, Fields DEF TreeOK
<1> QED BY <1>2 DEF u

LEMMA SameNames ==
  ASSUME NEW t, NEW u, u.kind = t.kind, u.children = t.children, Bare(t)
  PROVE  Bare(u) /\ KindsKept(t, u) /\ NamesKept(t, u)
BY Zenon DEF Bare, KindsKept, NamesKept, Names, Child

\* A write to a file begins: it has found the open file of its descriptor.
LEMMA WriteToFileKeeps ==
  ASSUME FilesInv, NEW p \in Pid, NEW fd, NEW left, WriteToFile(p, fd, left), In(p, "none"),
         UNCHANGED <<tree, files, stdio, sockets, ipv6, cwd, alive, entry, wrote, program>>,
         made' \in [Pid -> Nat]
  PROVE  FilesInv'
<1> DEFINE to == [call |-> "write", entry |-> files[p][fd], left |-> left]
<1>1. fd \in DOMAIN files[p] /\ Goes(p, to) /\ alive[p] /\ pc[p].call = "none" /\ Rest
  BY Zenon DEF WriteToFile, IsFile, In, Rest
<1>2. "call" \in DOMAIN to /\ to.call = "write" /\ to.entry = files[p][fd]
  OBVIOUS
<1> HIDE DEF to
<1>3. to.call \notin Opening \cup Renaming \cup {"unlink", "rmdir"}
  BY <1>2, Zenon DEF Opening, Renaming
<1>4. pc'[p] = to /\ \A q \in Pid \ {p} : pc'[q] = pc[q]
  BY <1>1, GoesOp, Zenon DEF FilesInv
<1>5. Sharing'
  <2> SUFFICES ASSUME Appends PROVE Sharing'
    BY NotSharing, Zenon
  <2>1. /\ tree.kind[OpenedNode] = "file" /\ Bytes \in Seq(Pid) /\ OpenFile
        /\ \A q \in Pid : OwnBytes(q)
    BY Zenon DEF FilesInv, Sharing
  <2>2. Bytes' = Bytes /\ \A q \in Pid : BytesOf(q)' = BytesOf(q)
    BY Zenon DEF Bytes, BytesOf
  <2>3. OpenFile'
    <3>1. entry[1].owner # 0 => entry[1].owner \in Pid /\ pc[entry[1].owner].call = "written"
      BY <2>1, Zenon DEF OpenFile
    <3>2. entry[1].owner # 0 => pc'[entry[1].owner].call = "written"
      BY <1>1, <1>4, <3>1
    <3> QED BY <2>1, <2>2, <3>1, <3>2 DEF OpenFile
  <2>4. ASSUME NEW q \in Pid, q # p PROVE OwnBytes(q)'
    <3>1. pc'[q] = pc[q] /\ OwnBytes(q) /\ BytesOf(q)' = BytesOf(q)
      BY <1>4, <2>1, <2>2, <2>4, Zenon
    <3> QED BY <2>2, <3>1 DEF OwnBytes
  <2>5. OwnBytes(p)'
    <3>1. OwnBytes(p) /\ BytesOf(p)' = BytesOf(p)
      BY <2>1, <2>2, Zenon
    <3>2. Cardinality(BytesOf(p)) = wrote[p] + 0 /\ files[p][fd] = 1
      BY <1>1, <3>1 DEF OwnBytes
    <3> QED BY <1>1, <1>2, <1>4, <2>2, <3>1, <3>2 DEF OwnBytes
  <2> QED BY <2>1, <2>2, <2>3, <2>4, <2>5, Zenon DEF Sharing
<1> QED BY <1>1, <1>2, <1>3, <1>5, PlainStep, Zenon

LEMMA WriteKeeps ==
  ASSUME FilesInv, NEW p \in Pid, NEW fd, Write(p, fd) \/ Writev(p, fd), In(p, "none"), made' \in [Pid -> Nat]
  PROVE  FilesInv'
<1>1. UNCHANGED <<tree, files, stdio, sockets, ipv6, cwd, alive, entry, wrote, program>>
  BY Zenon DEF Write, Writev, tables
<1>2. CASE pc' = pc
  BY <1>1, <1>2, TableDomains, RestStep, Zenon
<1>3. CASE \E left : WriteToFile(p, fd, left)
  BY <1>1, <1>3, WriteToFileKeeps, Zenon
<1> QED BY <1>2, <1>3, Zenon DEF Write, Writev

\* The one open file of programs that append.
LEMMA AppendsOpen ==
  ASSUME FilesInv, Appends, NEW p \in Pid, pc[p].call \in {"write", "written"}
  PROVE  /\ alive[p] /\ pc[p].entry = 1 /\ entry[1].live /\ entry[1].node = OpenedNode
         /\ tree.kind[OpenedNode] = "file" /\ OpenedNode \in Node
<1>1. OwnBytes(p) /\ OpenFile /\ tree.kind[OpenedNode] = "file"
  BY Zenon DEF FilesInv, Sharing
<1>2. alive[p] /\ pc[p].entry = 1 /\ \E fd \in DOMAIN files[p] : files[p][fd] = 1
  BY <1>1, Zenon DEF OwnBytes
<1>3. entry[1].live
  BY <1>2, TablesNow, Zenon DEF Refer
<1> QED BY <1>1, <1>2, <1>3, FilesAssumption, Zenon DEF OpenFile

LEMMA WriteAtOffsetShares ==
  ASSUME FilesInv, Appends, NEW p \in Pid, WriteAtOffset(p)
  PROVE  Sharing'
<1> DEFINE e == pc[p].entry
           t == WriteAt(tree, entry[e].node, entry[e].offset, <<p>>)
           to == [call |-> "written", entry |-> e, size |-> Len(t.content[entry[e].node]), left |-> pc[p].left]
           end == Len(Bytes) + 1
<1>1. pc[p].call = "write" /\ entry[e].owner = 0 /\ UNCHANGED <<files, alive, wrote, program>>
  BY Zenon DEF WriteAtOffset, In, tables
<1>2. alive[p] /\ e = 1 /\ entry[1].live /\ entry[1].node = OpenedNode
      /\ tree.kind[OpenedNode] = "file" /\ OpenedNode \in Node
  BY <1>1, AppendsOpen, Zenon
<1>3. tree' = t /\ entry' = [entry EXCEPT ![1].owner = p] /\ Goes(p, to)
  BY <1>2 DEF WriteAtOffset
<1>4. /\ Bytes \in Seq(Pid) /\ OpenFile /\ \A q \in Pid : OwnBytes(q)
      /\ TreeOK(tree)
  BY Zenon DEF FilesInv, Sharing, TypeOK
<1>5. entry[1].owner = 0 /\ entry[1].offset = Len(Bytes)
  BY <1>1, <1>2, <1>4, Zenon DEF OpenFile
<1>6. t = WriteAt(tree, OpenedNode, Len(tree.content[OpenedNode]), <<p>>)
  BY <1>2, <1>5, Zenon DEF Bytes
<1>7. to.call = "written" /\ to.entry = 1 /\ to.size = Len(t.content[OpenedNode])
  BY <1>2
<1> HIDE DEF t, to
<1>8. /\ t.kind = tree.kind
      /\ t.content[OpenedNode] \in Seq(Pid) /\ Len(t.content[OpenedNode]) = end
      /\ t.content[OpenedNode][end] = p
      /\ \A i \in 1..Len(Bytes) : t.content[OpenedNode][i] = Bytes[i]
  BY <1>2, <1>4, <1>6, WriteAtOp, SMTT(30) DEF Bytes
<1>9. /\ Bytes' \in Seq(Pid) /\ Len(Bytes') = end /\ Bytes'[end] = p
      /\ \A i \in 1..Len(Bytes) : Bytes'[i] = Bytes[i]
  BY <1>3, <1>8, Zenon DEF Bytes
<1>10. Len(Bytes) \in Nat /\ Bytes \in Seq(Pid)
  BY <1>4
<1>11. BytesOf(p)' = BytesOf(p) \cup {end} /\ end \notin BytesOf(p)
  BY <1>9, <1>10 DEF BytesOf
<1>12. ASSUME NEW q \in Pid, q # p PROVE BytesOf(q)' = BytesOf(q)
  BY <1>9, <1>10, <1>12 DEF BytesOf
<1>13. IsFiniteSet(BytesOf(p)) /\ Cardinality(BytesOf(p)) \in Nat
  <2>1. IsFiniteSet(1..Len(Bytes))
    BY <1>10, FS_Interval
  <2>2. BytesOf(p) \subseteq 1..Len(Bytes)
    BY Zenon DEF BytesOf
  <2> QED BY <2>1, <2>2, FS_Subset, FS_CardinalityType, Zenon
<1>14. Cardinality(BytesOf(p)') = Cardinality(BytesOf(p)) + 1
  <2> DEFINE S == BytesOf(p)
             x == end
  <2>1. IsFiniteSet(S) /\ x \notin S /\ BytesOf(p)' = S \cup {x}
    BY <1>11, <1>13
  <2> HIDE DEF S, x
  <2>2. Cardinality(S \cup {x}) = Cardinality(S) + 1
    BY <2>1, FS_AddElement
  <2> QED BY <2>1, <2>2 DEF S
<1>15. DOMAIN pc' = Pid /\ pc'[p] = to /\ \A q \in Pid \ {p} : pc'[q] = pc[q]
  BY <1>3, GoesOp, Zenon DEF FilesInv
<1>16. /\ entry'[1].owner = p /\ entry'[1].live /\ entry'[1].node = OpenedNode
       /\ entry'[1].offset = Len(Bytes)
  <2>1. DOMAIN entry = 1..MaxOpen /\ 1 \in 1..MaxOpen /\ DOMAIN entry[1] = {"live", "node", "offset", "path", "owner"}
    BY Constants, EntryFields, TableDomains
  <2> QED BY <1>2, <1>3, <1>5, <2>1
<1>17. p # 0 /\ \A q \in Pid : q # 0
  BY PidType
<1>18. OpenFile'
  BY <1>7, <1>9, <1>10, <1>15, <1>16, <1>17 DEF OpenFile
<1>19. ASSUME NEW q \in Pid, q # p PROVE OwnBytes(q)'
  <2>1. pc'[q] = pc[q] /\ OwnBytes(q) /\ BytesOf(q)' = BytesOf(q)
    BY <1>4, <1>12, <1>15, <1>19, Zenon
  <2>2. pc[q].call # "written"
    BY <1>5, <1>17, <2>1 DEF OwnBytes
  <2> QED BY <1>1, <2>1, <2>2 DEF OwnBytes
<1>20. OwnBytes(p)'
  <2>1. OwnBytes(p)
    BY <1>4, Zenon
  <2>2. Cardinality(BytesOf(p)) = wrote[p] + 0 /\ DOMAIN files[p] # {}
    BY <1>1, <2>1 DEF OwnBytes
  <2>3. Cardinality(BytesOf(p)') = wrote[p] + 1
    BY <1>13, <1>14, <2>2, wrote[p] \in Nat DEF FilesInv, TypeOK
  <2>4. pc'[p].size = Len(Bytes')
    BY <1>3, <1>7, <1>15 DEF Bytes
  <2> QED BY <1>1, <1>2, <1>7, <1>15, <1>16, <2>1, <2>2, <2>3, <2>4 DEF OwnBytes
<1>21. tree'.kind[OpenedNode] = "file"
  BY <1>2, <1>3, <1>8, Zenon
<1> QED BY <1>9, <1>18, <1>19, <1>20, <1>21, Zenon DEF Sharing

LEMMA WriteAtOffsetKeeps ==
  ASSUME FilesInv, NEW p \in Pid, WriteAtOffset(p), made' \in [Pid -> Nat]
  PROVE  FilesInv'
<1> DEFINE e == pc[p].entry
           n == entry[e].node
           t == WriteAt(tree, n, entry[e].offset, <<p>>)
           to == [call |-> "written", entry |-> e, size |-> Len(t.content[n]), left |-> pc[p].left]
<1>1. UNCHANGED <<files, stdio, sockets, ipv6, cwd, alive, wrote, program>>
  BY Zenon DEF WriteAtOffset, tables
<1>2. Sharing'
  BY <1>1, WriteAtOffsetShares, NotSharing, Zenon
<1>3. CASE tree.kind[n] # "file"
  <2>1. Done(p) /\ tree' = tree /\ entry' = entry
    BY <1>3, Zenon DEF WriteAtOffset
  <2> QED BY <1>1, <1>2, <2>1, DoneStep, Zenon DEF Rest
<1>4. CASE tree.kind[n] = "file"
  <2>1. tree' = t /\ entry' = [entry EXCEPT ![e].owner = p] /\ Goes(p, to)
    BY <1>4, Zenon DEF WriteAtOffset
  <2>2. TreeOK(tree) /\ Bare(tree)
    BY Zenon DEF FilesInv, TypeOK, Moving
  <2>3. TreeOK(t) /\ t.kind = tree.kind /\ t.children = tree.children
    BY <2>2, WriteAtTree
  <2>4. "call" \in DOMAIN to /\ to.call = "written"
    OBVIOUS
  <2> HIDE DEF t, to, e
  <2>5. TreeOK(tree') /\ Bare(tree') /\ KindsKept(tree, tree') /\ NamesKept(tree, tree')
    BY <2>1, <2>2, <2>3, SameNames, Zenon
  <2>6. DOMAIN pc' = Pid /\ pc'[p] = to /\ \A q \in Pid \ {p} : pc'[q] = pc[q]
    BY <2>1, GoesOp, Zenon DEF FilesInv
  <2>7. /\ DOMAIN entry' = 1..MaxOpen
        /\ \A x \in 1..MaxOpen : DOMAIN entry'[x] = DOMAIN NoEntry /\ entry'[x].live = entry[x].live
    BY <2>1, TableDomains, EntryFields
  <2>8. pc'[p].call \notin Opening /\ ~Excl(p)' /\ OwnRename(p)'
    BY <2>4, <2>6, NotRenaming, Zenon DEF Opening, Excl, In, Renaming
  <2>9. wrote' \in [Pid -> Nat] /\ DOMAIN cwd' = Pid
    BY <1>1, Zenon DEF FilesInv, TypeOK
  <2> QED BY <1>1, <1>2, <2>4, <2>5, <2>6, <2>7, <2>8, <2>9, CallStep, Zenon
<1> QED BY <1>3, <1>4, Zenon

LEMMA WriteEndShares ==
  ASSUME FilesInv, Appends, NEW p \in Pid, WriteEnd(p)
  PROVE  Sharing'
<1> DEFINE e == pc[p].entry
<1>1. /\ pc[p].call = "written" /\ UNCHANGED <<files, alive, program>>
      /\ tree' = SetSize(tree, entry[e].node, pc[p].size)
      /\ entry' = [entry EXCEPT ![e].offset = @ + 1, ![e].owner = 0]
      /\ wrote' = [wrote EXCEPT ![p] = @ + 1]
      /\ Goes(p, User) \/ Goes(p, [call |-> "write", entry |-> e, left |-> pc[p].left - 1])
  BY Zenon DEF WriteEnd, In, tables, Done
<1>2. alive[p] /\ e = 1 /\ entry[1].live /\ entry[1].node = OpenedNode
      /\ tree.kind[OpenedNode] = "file" /\ OpenedNode \in Node
  BY <1>1, AppendsOpen, Zenon
<1>3. /\ Bytes \in Seq(Pid) /\ OpenFile /\ \A q \in Pid : OwnBytes(q)
      /\ TreeOK(tree) /\ wrote \in [Pid -> Nat]
  BY Zenon DEF FilesInv, Sharing, TypeOK
<1>4. OwnBytes(p)
  BY <1>3, Zenon
<1>5. entry[1].owner = p /\ pc[p].size = Len(Bytes) /\ Cardinality(BytesOf(p)) = wrote[p] + 1
  BY <1>1, <1>4 DEF OwnBytes
<1>6. p # 0 /\ \A q \in Pid : q # 0
  BY PidType
<1>7. entry[1].offset + 1 = Len(Bytes)
  BY <1>2, <1>3, <1>5, <1>6 DEF OpenFile
<1>8. tree'.kind = tree.kind /\ tree'.content = tree.content /\ tree'.size[OpenedNode] = Len(Bytes)
  BY <1>1, <1>2, <1>3, <1>5, SetSizeOp
<1>9. Bytes' = Bytes /\ \A q \in Pid : BytesOf(q)' = BytesOf(q)
  BY <1>8, Zenon DEF Bytes, BytesOf
<1>10. /\ entry'[1].owner = 0 /\ entry'[1].live /\ entry'[1].node = OpenedNode
       /\ entry'[1].offset = entry[1].offset + 1
  <2>1. DOMAIN entry = 1..MaxOpen /\ 1 \in 1..MaxOpen /\ DOMAIN entry[1] = {"live", "node", "offset", "path", "owner"}
    BY Constants, EntryFields, TableDomains
  <2> QED BY <1>1, <1>2, <2>1
<1>11. OpenFile'
  BY <1>7, <1>8, <1>9, <1>10 DEF OpenFile
<1>12. /\ \A q \in Pid \ {p} : pc'[q] = pc[q]
       /\ pc'[p].call \in {"none", "write"} /\ (pc'[p].call = "write" => pc'[p].entry = 1)
  <2>1. CASE Goes(p, User)
    <3>1. pc'[p] = User /\ \A q \in Pid \ {p} : pc'[q] = pc[q]
      BY <2>1, GoesOp, Zenon DEF FilesInv
    <3> QED BY <3>1 DEF User
  <2>2. CASE Goes(p, [call |-> "write", entry |-> e, left |-> pc[p].left - 1])
    <3>1. /\ pc'[p] = [call |-> "write", entry |-> e, left |-> pc[p].left - 1]
          /\ \A q \in Pid \ {p} : pc'[q] = pc[q]
      BY <2>2, GoesOp, Zenon DEF FilesInv
    <3> QED BY <1>2, <3>1
  <2> QED BY <1>1, <2>1, <2>2, Zenon
<1>13. ASSUME NEW q \in Pid, q # p PROVE OwnBytes(q)'
  <2>1. pc'[q] = pc[q] /\ OwnBytes(q) /\ BytesOf(q)' = BytesOf(q) /\ wrote'[q] = wrote[q]
    BY <1>1, <1>3, <1>9, <1>12, <1>13, Zenon
  <2>2. pc[q].call # "written"
    BY <1>5, <1>13, <2>1 DEF OwnBytes
  <2> QED BY <1>1, <2>1, <2>2 DEF OwnBytes
<1>14. OwnBytes(p)'
  <2>1. wrote'[p] = wrote[p] + 1 /\ wrote'[p] \in Nat
    BY <1>1, <1>3
  <2>2. DOMAIN files[p] # {} /\ \A fd \in DOMAIN files[p] : files[p][fd] = 1
    BY <1>1, <1>4, Zenon DEF OwnBytes
  <2>3. Cardinality(BytesOf(p)') = wrote'[p] + 0
    BY <1>5, <1>9, <2>1
  <2> QED BY <1>1, <1>2, <1>12, <2>2, <2>3 DEF OwnBytes
<1>15. tree'.kind[OpenedNode] = "file" /\ Bytes' \in Seq(Pid)
  BY <1>2, <1>3, <1>8, <1>9, Zenon
<1> QED BY <1>11, <1>13, <1>14, <1>15, Zenon DEF Sharing

LEMMA WriteEndKeeps ==
  ASSUME FilesInv, NEW p \in Pid, WriteEnd(p), made' \in [Pid -> Nat]
  PROVE  FilesInv'
<1> DEFINE e == pc[p].entry
           n == entry[e].node
           t == SetSize(tree, n, pc[p].size)
           to == IF pc[p].left = 0 THEN User ELSE [call |-> "write", entry |-> e, left |-> pc[p].left - 1]
<1>1. /\ UNCHANGED <<files, stdio, sockets, ipv6, cwd, alive, program>>
      /\ tree' = t /\ entry' = [entry EXCEPT ![e].offset = @ + 1, ![e].owner = 0]
      /\ wrote' = [wrote EXCEPT ![p] = @ + 1]
      /\ Goes(p, to)
  BY Zenon DEF WriteEnd, tables, Done
<1>2. Sharing'
  BY <1>1, WriteEndShares, NotSharing, Zenon
<1>3. TreeOK(tree) /\ Bare(tree) /\ wrote \in [Pid -> Nat] /\ DOMAIN cwd = Pid
  BY Zenon DEF FilesInv, TypeOK, Moving
<1>4. TreeOK(t) /\ t.kind = tree.kind /\ t.children = tree.children
  BY <1>3, SetSizeOp
<1>5. "call" \in DOMAIN to /\ to.call \in {"none", "write"}
  BY DEF User
<1> HIDE DEF t, to, e
<1>6. TreeOK(tree') /\ Bare(tree') /\ KindsKept(tree, tree') /\ NamesKept(tree, tree')
  BY <1>1, <1>3, <1>4, SameNames, Zenon
<1>7. DOMAIN pc' = Pid /\ pc'[p] = to /\ \A q \in Pid \ {p} : pc'[q] = pc[q]
  BY <1>1, GoesOp, Zenon DEF FilesInv
<1>8. /\ DOMAIN entry' = 1..MaxOpen
      /\ \A x \in 1..MaxOpen : DOMAIN entry'[x] = DOMAIN NoEntry /\ entry'[x].live = entry[x].live
  BY <1>1, TableDomains, EntryFields
<1>9. pc'[p].call \notin Opening /\ ~Excl(p)' /\ OwnRename(p)'
  BY <1>5, <1>7, NotRenaming, Zenon DEF Opening, Excl, In, Renaming
<1>10. wrote' \in [Pid -> Nat]
  BY <1>1, <1>3
<1> QED BY <1>1, <1>2, <1>3, <1>5, <1>6, <1>7, <1>8, <1>9, <1>10, CallStep, Zenon

(***************************************************************************)
(* The invariant, and what it says                                         *)
(***************************************************************************)

LEMMA FilesStart == ASSUME Init PROVE FilesInv
<1> DEFINE opened == [NoEntry EXCEPT !.live = TRUE, !.node = OpenedNode, !.path = OpenedPath]
           first == "open" \notin Makes(1)
<1>1. /\ DOMAIN opened = DOMAIN NoEntry /\ opened.live /\ opened.node = OpenedNode
      /\ opened.offset = 0 /\ opened.owner = 0
      /\ ~NoEntry.live /\ NoEntry.owner = 0
  BY DEF NoEntry
<1>2. /\ User.call = "none" /\ "call" \in DOMAIN User
  BY DEF User
<1>3. /\ tree = Tree /\ program \in Programs
      /\ files = [p \in Pid |-> IF p = 1 /\ first THEN Put(<<>>, 3, 1) ELSE <<>>]
      /\ entry = [x \in 1..MaxOpen |-> IF x = 1 /\ first THEN opened ELSE NoEntry]
      /\ stdio = [p \in Pid |-> <<>>]
      /\ sockets = [p \in Pid |-> <<>>] /\ ipv6 = [p \in Pid |-> {}]
      /\ cwd = [p \in Pid |-> <<>>]
      /\ alive = [p \in Pid |-> p = 1]
      /\ wrote = [p \in Pid |-> 0]
      /\ pc = [p \in Pid |-> User] /\ made = [p \in Pid |-> 0]
  BY Zenon DEF Init
<1> HIDE DEF opened, first
<1>4. TypeOK
  BY <1>1, <1>2, <1>3, FilesAssumption DEF TypeOK
<1>5. \A p \in Pid : pc[p].call = "none"
  BY <1>2, <1>3, Zenon
<1>6. ASSUME NEW p \in Pid, NEW fd \in DOMAIN files[p] PROVE files[p][fd] = 1 /\ first
  <2>1. DOMAIN Put(<<>>, 3, 1) = {3} /\ Put(<<>>, 3, 1)[3] = 1
    BY DEF Put
  <2> QED BY <1>3, <1>6, <2>1
<1>7. 1 \in 1..MaxOpen /\ (first => entry[1] = opened) /\ (~first => entry[1] = NoEntry)
  BY <1>3, Constants
<1>8. Descriptors
  <2>1. \A p \in Pid : DOMAIN stdio[p] = {} /\ DOMAIN sockets[p] = {} /\ ipv6[p] = {}
    BY <1>3
  <2>2. \A p \in Pid : \A fd \in DOMAIN files[p] : files[p][fd] \in 1..MaxOpen /\ entry[files[p][fd]].live
    BY <1>1, <1>6, <1>7
  <2> QED BY <1>5, <2>1, <2>2 DEF Descriptors, OwnDescriptors, Opening
<1>9. Created
  BY <1>5, Zenon DEF Created, ExclusiveCreate, Excl, In
<1>10. Moving
  BY <1>3, <1>5, FilesAssumption, Zenon DEF Moving, OwnRename, Renaming, In
<1>11. Sharing
  <2>1. Bytes = <<>> /\ tree.kind[OpenedNode] = "file" /\ tree.size[OpenedNode] = 0
    BY <1>3, FilesAssumption, Zenon DEF Bytes
  <2>2. Len(Bytes) = 0 /\ Bytes \in Seq(Pid)
    BY <2>1
  <2>3. OpenFile
    BY <1>1, <1>7, <2>1, <2>2 DEF OpenFile
  <2>4. ASSUME NEW p \in Pid PROVE OwnBytes(p)
    <3>1. BytesOf(p) = {}
      BY <2>2 DEF BytesOf
    <3>2. Cardinality(BytesOf(p)) = 0
      BY <3>1, FS_EmptySet
    <3> QED BY <1>3, <1>5, <1>6, <3>2 DEF OwnBytes
  <2> QED BY <2>1, <2>2, <2>3, <2>4, Zenon DEF Sharing
<1> QED BY <1>4, <1>8, <1>9, <1>10, <1>11, Zenon DEF FilesInv

LEMMA FileCallKeeps ==
  ASSUME FilesInv, NEW p \in Pid, NEW c \in Makes(p), FileCall(p, c), In(p, "none"), made' \in [Pid -> Nat]
  PROVE  FilesInv'
<1> PICK fd \in Fd :
      \/ c = "close" /\ Close(p, fd)
      \/ c = "write" /\ Write(p, fd)
      \/ c = "writev" /\ Writev(p, fd)
      \/ c = "read" /\ Read(p, fd)
      \/ c = "getdents" /\ Getdents64(p, fd)
      \/ c = "dup" /\ Dup(p, fd, 3)
      \/ c = "fcntl" /\ \E argument \in {0, 4} : Fcntl(p, fd, argument)
      \/ c = "dup2" /\ \E newfd \in Fd : Dup2(p, fd, newfd)
      \/ c = "lseek" /\ \E offset \in 0..1 : Lseek(p, fd, offset)
      \/ c = "connect" /\ \E link \in {"up", "syn", "closed"} : ConnectTo(p, fd, link)
      \/ c = "send" /\ SendTo(p, fd, TRUE)
      \/ c = "sendmsg" /\ SendMsg(p, fd)
      \/ c = "recv" /\ RecvFrom(p, fd)
      \/ c = "recvmsg" /\ RecvMsg(p, fd)
      \/ c \in {"ppoll", "select"} /\ \E timeout \in Timeout : Wait(p, c, fd, timeout)
  BY Zenon DEF FileCall
<1>1. CASE Close(p, fd) \/ Write(p, fd) \/ Writev(p, fd)
  BY <1>1, CloseKeeps, WriteKeeps, Zenon
<1>2. CASE c = "read" /\ Read(p, fd)
  BY <1>2, ReadKeeps, Zenon
<1>3. CASE c = "getdents" /\ Getdents64(p, fd)
  BY <1>3, GetdentsKeeps, Zenon
<1>4. CASE c = "lseek" /\ \E offset \in 0..1 : Lseek(p, fd, offset)
  BY <1>4, LseekKeeps, Zenon
<1>5. CASE Dup(p, fd, 3) \/ (\E argument \in {0, 4} : Fcntl(p, fd, argument)) \/ \E newfd \in Fd : Dup2(p, fd, newfd)
  BY <1>5, DupKeeps, Dup2Keeps, Zenon DEF Fcntl
<1>6. CASE (\E link \in {"up", "syn", "closed"} : ConnectTo(p, fd, link))
            \/ SendTo(p, fd, TRUE) \/ SendMsg(p, fd)
  <2>1. UNCHANGED <<tree, files, stdio, sockets, ipv6, cwd, alive, entry, wrote, pc, program>>
    BY <1>6, Zenon DEF ConnectTo, SendTo, SendMsg, tables
  <2> QED BY <2>1, TableDomains, RestStep, Zenon
<1>7. CASE c \in {"recv", "recvmsg"} /\ (RecvFrom(p, fd) \/ RecvMsg(p, fd))
  BY <1>7, RecvFromKeeps, Zenon DEF RecvMsg
<1>8. CASE c \in {"ppoll", "select"} /\ \E timeout \in Timeout : Wait(p, c, fd, timeout)
  BY <1>8, WaitKeeps, Zenon
<1> QED BY <1>1, <1>2, <1>3, <1>4, <1>5, <1>6, <1>7, <1>8, Zenon

LEMMA FilesKeep == ASSUME FilesInv, Next PROVE FilesInv'
<1>1. CASE Outside /\ UNCHANGED made
  BY <1>1, OutsideKeeps, Zenon
<1>2. ASSUME NEW p \in Pid, Dispatch(p) PROVE FilesInv'
  <2>1. In(p, "none") /\ made[p] < Len(program[p]) /\ made' = [made EXCEPT ![p] = @ + 1]
    BY <1>2, Zenon DEF Dispatch
  <2>2. made' \in [Pid -> Nat]
    BY <2>1 DEF FilesInv, TypeOK
  <2> PICK c \in program[p][made[p] + 1] :
        \/ FileCall(p, c)
        \/ PathCall(p, c)
        \/ c = "socket" /\ \E kind \in SocketKind \cup {"Raw"}, six, bound \in BOOLEAN :
                             Socket(p, kind, six, bound)
        \/ c = "fork" /\ \E q \in Pid : Fork(p, q)
        \/ c = "exit" /\ Exit(p)
    BY <1>2, Zenon DEF Dispatch
  <2>3. c \in Makes(p)
    BY <2>1, CallMade, Zenon DEF FilesInv
  <2> QED BY <2>1, <2>2, <2>3, FileCallKeeps, PathCallKeeps, SocketKeeps, ForkKeeps, ExitKeeps, Zenon
<1>3. ASSUME NEW p \in Pid, Inside(p), UNCHANGED made PROVE FilesInv'
  <2>1. made' \in [Pid -> Nat]
    BY <1>3, Zenon DEF FilesInv, TypeOK
  <2> QED BY <1>3, <2>1, WriteAtOffsetKeeps, WriteEndKeeps, ConsoleReadKeeps, OpenParentKeeps,
             OpenCreateKeeps, OpenEndKeeps, OneDirKeeps, RenameatKeeps, Zenon DEF Inside
<1> QED BY <1>1, <1>2, <1>3, TurnKeeps, TickKeeps, Zenon DEF Next

\* The descriptors, the files created exclusively, a rename under way and the shared file
\* are in order in every state.
THEOREM FilesInductive == Spec => []FilesInv
<1>1. Init => FilesInv
  BY FilesStart
<1>2. FilesInv /\ UNCHANGED vars => FilesInv'
  <2> SUFFICES ASSUME FilesInv, UNCHANGED vars PROVE FilesInv'
    OBVIOUS
  <2>1. UNCHANGED <<tree, files, stdio, sockets, ipv6, cwd, alive, entry, wrote, pc, program, made>>
    BY Zenon DEF vars
  <2>2. made' \in [Pid -> Nat]
    BY <2>1, Zenon DEF FilesInv, TypeOK
  <2> QED BY <2>1, <2>2, TableDomains, RestStep, Zenon
<1>3. FilesInv /\ [Next]_vars => FilesInv'
  BY <1>2, FilesKeep, Zenon
<1> QED BY <1>1, <1>3, PTL DEF Spec

\* DescriptorsSound: whatever dup, dup2, close, open, socket, fork and exit do in which
\* order, a descriptor is in one table and on an open file that is there.
THEOREM DescriptorsAlwaysSound == Spec => []DescriptorsSound
<1>1. FilesInv => DescriptorsSound
  <2> SUFFICES ASSUME FilesInv PROVE DescriptorsSound
    OBVIOUS
  <2>1. ASSUME NEW p \in Pid, NEW fd \in DOMAIN files[p] PROVE entry[files[p][fd]] # NoEntry
    <3>1. entry[files[p][fd]].live
      BY <2>1, TablesNow, Zenon DEF Refer
    <3> QED BY <3>1, EntryFields
  <2> QED BY <2>1, TablesNow, Zenon DEF DescriptorsSound, OwnApart
<1> QED BY <1>1, FilesInductive, PTL

\* ExclusiveCreate: no two openat calls with O_CREAT and O_EXCL succeed on one file.
THEOREM CreateIsExclusive == Spec => []ExclusiveCreate
<1>1. FilesInv => ExclusiveCreate
  BY Zenon DEF FilesInv, Created
<1> QED BY <1>1, FilesInductive, PTL

\* SharedWrites: write and writev through one open file, by however many processes, leave
\* all their bytes in it.
THEOREM NoByteLost == Spec => []SharedWrites
<1>1. FilesInv => SharedWrites
  <2> SUFFICES ASSUME FilesInv, Appends, \A p \in Pid : ~In(p, "written")
               PROVE  /\ \A p \in Pid : Cardinality(BytesOf(p)) = wrote[p]
                      /\ Bytes \in Seq(Pid) /\ tree.size[OpenedNode] = Len(Bytes)
    BY Zenon DEF SharedWrites
  <2>1. Bytes \in Seq(Pid) /\ OpenFile /\ (\A p \in Pid : OwnBytes(p)) /\ wrote \in [Pid -> Nat]
    BY Zenon DEF FilesInv, Sharing, TypeOK
  <2>2. \A p \in Pid : pc[p].call # "written"
    BY <2>1, Zenon DEF OwnBytes, In
  <2>3. ASSUME NEW p \in Pid PROVE Cardinality(BytesOf(p)) = wrote[p]
    <3>1. OwnBytes(p) /\ wrote[p] \in Nat
      BY <2>1, Zenon
    <3> QED BY <2>2, <3>1 DEF OwnBytes
  <2>4. entry[1].owner = 0
    BY <2>1, <2>2, Zenon DEF OpenFile
  <2> QED BY <2>1, <2>3, <2>4, Zenon DEF OpenFile
<1> QED BY <1>1, FilesInductive, PTL

\* What is not unlink, rmdir or rename takes no name away.
LEMMA OthersKeepNames ==
  ASSUME FilesInv, Next PROVE NamesKept(tree, tree') \/ \E p \in Pid : Unlinkat(p) \/ UnlinkatDir(p) \/ Renameat(p)
<1>1. TreeOK(tree) /\ Bare(tree)
  BY Zenon DEF FilesInv, TypeOK, Moving
<1>2. CASE tree' = tree
  BY <1>2, SameTree, Zenon
<1>3. ASSUME NEW p \in Pid, WriteAtOffset(p) \/ WriteEnd(p) PROVE NamesKept(tree, tree')
  <2>1. tree'.kind = tree.kind /\ tree'.children = tree.children
    <3>1. CASE WriteAtOffset(p)
      <4> DEFINE e == pc[p].entry
                 t == WriteAt(tree, entry[e].node, entry[e].offset, <<p>>)
      <4>1. tree' = t \/ tree' = tree
        BY <3>1, Zenon DEF WriteAtOffset
      <4>2. t.kind = tree.kind /\ t.children = tree.children
        BY <1>1, WriteAtTree
      <4> HIDE DEF t
      <4> QED BY <4>1, <4>2, Zenon
    <3>2. CASE WriteEnd(p)
      <4> DEFINE t == SetSize(tree, entry[pc[p].entry].node, pc[p].size)
      <4>1. tree' = t
        BY <3>2, Zenon DEF WriteEnd
      <4>2. t.kind = tree.kind /\ t.children = tree.children
        BY <1>1, SetSizeOp
      <4> HIDE DEF t
      <4> QED BY <4>1, <4>2, Zenon
    <3> QED BY <1>3, <3>1, <3>2, Zenon
  <2> QED BY <1>1, <2>1, SameNames, Zenon
<1>4. ASSUME NEW p \in Pid, OpenCreate(p) \/ Mkdirat(p) PROVE NamesKept(tree, tree')
  BY <1>1, <1>4, CreateOp, SMTT(30) DEF OpenCreate, Mkdirat
<1>5. ASSUME NEW p \in Pid, Symlinkat(p) PROVE NamesKept(tree, tree')
  BY <1>1, <1>5, SymlinkOp DEF Symlinkat
<1>6. ASSUME NEW p \in Pid, Linkat(p) PROVE NamesKept(tree, tree')
  BY <1>1, <1>6, LinkOp DEF Linkat
<1>7. ASSUME NEW p \in Pid, Dispatch(p) PROVE tree' = tree
  <2>1. \A fd, a : (\/ Close(p, fd) \/ Write(p, fd) \/ Writev(p, fd) \/ Read(p, fd) \/ Getdents64(p, fd)
                   \/ Dup(p, fd, a) \/ Dup2(p, fd, a) \/ Lseek(p, fd, a)) => tree' = tree
    BY Zenon DEF Close, Write, Writev, Read, Getdents64, Dup, Dup2, Lseek
  <2>2. \A fd, a, b : (\/ ConnectTo(p, fd, a) \/ SendTo(p, fd, a) \/ RecvFrom(p, fd)
                      \/ Wait(p, a, fd, b)) => tree' = tree
    BY Zenon DEF ConnectTo, SendTo, RecvFrom, Wait
  <2>3. \A a, b, d : Open(p, a, b, d) \/ Begin(p, a, b, d) => tree' = tree
    BY Zenon DEF Open, Begin
  <2>4. \A a, b : LinkBegin(p, a, b) \/ RenameBegin(p, a, b) => tree' = tree
    BY Zenon DEF LinkBegin, RenameBegin
  <2>5. \A a, b, c : Chdir(p, a) \/ Socket(p, a, b, c) \/ Fork(p, a) \/ Exit(p) => tree' = tree
    BY Zenon DEF Chdir, Socket, Fork, Exit
  <2>6. ASSUME NEW c, FileCall(p, c) PROVE tree' = tree
    BY <2>1, <2>2, <2>6, Zenon DEF FileCall, Fcntl, SendMsg, RecvMsg
  <2>7. ASSUME NEW c, PathCall(p, c) PROVE tree' = tree
    BY <2>3, <2>4, <2>5, <2>7, Zenon DEF PathCall
  <2> QED BY <1>7, <2>5, <2>6, <2>7, Zenon DEF Dispatch
<1>8. ASSUME NEW p \in Pid, Inside(p)
      PROVE  NamesKept(tree, tree') \/ Unlinkat(p) \/ UnlinkatDir(p) \/ Renameat(p)
  <2>1. CASE ConsoleRead(p) \/ OpenParent(p) \/ OpenEnd(p)
    BY <2>1, SameTree, Zenon DEF ConsoleRead, OpenParent, OpenEnd
  <2> QED BY <1>3, <1>4, <1>5, <1>6, <1>8, <2>1, Zenon DEF Inside
<1>9. ASSUME NEW p \in Pid, Turn(p) \/ Tick(p) PROVE tree' = tree
  BY <1>9, Zenon DEF Turn, Tick, Recv, Ppoll, Select, Expire
<1>10. Outside => tree' = tree
  BY Zenon DEF Outside
<1> QED BY <1>2, <1>7, <1>8, <1>9, <1>10, Zenon DEF Next

\* A section of rename: the child it moves has the old name until it has the new one.
LEMMA RenameKeepsName ==
  ASSUME FilesInv, OneMover, NEW p \in Pid, Renameat(p), NEW n \in Node, Named(n)
  PROVE  Named(n)' \/ Replaces(p, n)
<1> DEFINE c == pc[p]
<1>1. TreeOK(tree) /\ Bare(tree) /\ OwnRename(p)
  BY Zenon DEF FilesInv, TypeOK, Moving
<1>2. PICK x \in Node : \E y \in Names(tree, x) : Child(tree, x, y) = n
  BY Zenon DEF Named
<1>3. PICK y \in Names(tree, x) : Child(tree, x, y) = n
  BY <1>2, Zenon
<1>4. CASE In(p, "rename")
  BY <1>4, Zenon DEF Renameat, In, Named
<1>5. CASE In(p, "insert")
  <2> DEFINE u == RenameInsert(tree, c.dir, c.name, c.newDir, c.newName, c.child)
  <2>1. tree' = u /\ IsDir(tree, c.dir) /\ IsDir(tree, c.newDir) /\ AtOld(p)
    BY <1>1, <1>5, Zenon DEF Renameat, In, OwnRename
  <2>2. /\ c.newName \in Names(u, c.newDir) /\ Child(u, c.newDir, c.newName) = c.child
        /\ \A a \in Node : \A b \in Names(tree, a) :
             (a = c.newDir /\ b = c.newName) \/ (c.dir = c.newDir /\ a = c.dir /\ b = c.name)
               \/ (b \in Names(u, a) /\ Child(u, a, b) = Child(tree, a, b))
    BY ONLY <1>1, <2>1, RenameInsertOp, SMTT(30)
  <2> HIDE DEF u
  <2>3. c.newDir \in Node
    BY <2>1, Zenon DEF IsDir, Dirs
  <2>4. CASE x = c.newDir /\ y = c.newName
    BY <1>3, <1>5, <2>4, Zenon DEF Replaces, Has
  <2>5. CASE c.dir = c.newDir /\ x = c.dir /\ y = c.name
    <3>1. c.child = n
      BY <1>3, <2>1, <2>5, Zenon DEF AtOld
    <3> QED BY <2>1, <2>2, <2>3, <3>1, Zenon DEF Named
  <2>6. CASE y \in Names(u, x) /\ Child(u, x, y) = Child(tree, x, y)
    BY <1>3, <2>1, <2>6, Zenon DEF Named
  <2> QED BY <2>2, <2>4, <2>5, <2>6, Zenon
<1>6. CASE In(p, "remove")
  <2> DEFINE u == RenameRemove(tree, c.dir, c.name, c.newDir)
  <2>1. tree' = u /\ IsDir(tree, c.dir) /\ IsDir(tree, c.newDir) /\ (c.dir # c.newDir => AtOld(p) /\ AtNew(p))
    BY <1>1, <1>6, Zenon DEF Renameat, In, OwnRename, Apart
  <2>2. \A a \in Node : \A b \in Names(tree, a) :
          (c.dir # c.newDir /\ a = c.dir /\ b = c.name) \/ (b \in Names(u, a) /\ Child(u, a, b) = Child(tree, a, b))
    BY <1>1, <2>1, RenameRemoveOp, SMTT(30)
  <2> HIDE DEF u
  <2>3. c.newDir \in Node
    BY <2>1, Zenon DEF IsDir, Dirs
  <2>4. CASE c.dir # c.newDir /\ x = c.dir /\ y = c.name
    <3>1. Child(tree, c.newDir, c.newName) = n /\ c.newName \in Names(tree, c.newDir)
      BY <1>3, <2>1, <2>4, Zenon DEF AtOld, AtNew, Has
    <3>2. c.newName \in Names(u, c.newDir) /\ Child(u, c.newDir, c.newName) = n
      BY <2>2, <2>3, <2>4, <3>1, Zenon
    <3> QED BY <2>1, <2>3, <3>2, Zenon DEF Named
  <2>5. CASE y \in Names(u, x) /\ Child(u, x, y) = Child(tree, x, y)
    BY <1>3, <2>1, <2>5, Zenon DEF Named
  <2> QED BY <2>2, <2>4, <2>5, Zenon
<1>7. CASE In(p, "reparent")
  <2>1. tree'.children = tree.children
    BY <1>1, <1>7, RenameParentOp DEF Renameat, In
  <2> QED BY <1>3, <2>1, Zenon DEF Named, Names, Child
<1> QED BY <1>4, <1>5, <1>6, <1>7, Zenon DEF Renameat

\* unlink and rmdir: no name but the one to be removed goes.
LEMMA RemovalKeepsName ==
  ASSUME FilesInv, NEW p \in Pid, Unlinkat(p) \/ UnlinkatDir(p), NEW n \in Node, Named(n)
  PROVE  Named(n)' \/ Removes(p, n)
<1> DEFINE d  == pc[p].dir
           nm == pc[p].name
<1>1. TreeOK(tree) /\ Bare(tree) /\ (In(p, "unlink") \/ In(p, "rmdir"))
  BY Zenon DEF FilesInv, TypeOK, Moving, Unlinkat, UnlinkatDir
<1>2. PICK x \in Node : \E y \in Names(tree, x) : Child(tree, x, y) = n
  BY Zenon DEF Named
<1>3. PICK y \in Names(tree, x) : Child(tree, x, y) = n
  BY <1>2, Zenon
<1>4. tree' = tree \/ (IsDir(tree, d) /\ tree' = Without(tree, d, nm))
  BY DEF Unlinkat, UnlinkatDir, Unlink, Rmdir, Failed, Found
<1>5. CASE tree' = tree
  BY <1>5, Zenon DEF Named
<1>6. CASE IsDir(tree, d) /\ tree' = Without(tree, d, nm)
  <2>1. /\ Names(tree', d) = Names(tree, d) \ {nm}
        /\ \A b \in Names(tree', d) : Child(tree', d, b) = Child(tree, d, b)
        /\ \A a \in Node \ {d} : tree'.children[a] = tree.children[a]
    BY <1>1, <1>6, WithoutOp, SMTT(30)
  <2>2. CASE x = d /\ y = nm
    BY <1>1, <1>3, <2>2, Zenon DEF Removes, Has
  <2>3. CASE x = d /\ y # nm
    BY <1>3, <2>1, <2>3, Zenon DEF Named
  <2>4. CASE x # d
    BY <1>3, <2>1, <2>4, Zenon DEF Named, Names, Child
  <2> QED BY <2>2, <2>3, <2>4, Zenon
<1> QED BY <1>4, <1>5, <1>6, Zenon

\* NameIsKept: with one process that renames, no step leaves a file without a name except
\* the removal of it and the rename that replaces it.
THEOREM NamesAreKept == Spec => NameIsKept
<1> DEFINE A == OneMover =>
                  \A n \in Node : Named(n) /\ ~Named(n)' => \E p \in Movers : Replaces(p, n) \/ Removes(p, n)
<1>1. ASSUME FilesInv, Next, OneMover, NEW n \in Node, Named(n), ~Named(n)'
      PROVE  \E p \in Movers : Replaces(p, n) \/ Removes(p, n)
  <2>1. ~NamesKept(tree, tree')
    <3> SUFFICES ASSUME NamesKept(tree, tree') PROVE Named(n)'
      BY <1>1, Zenon
    <3> QED BY <1>1, Zenon DEF NamesKept, Named
  <2>2. PICK p \in Pid : Unlinkat(p) \/ UnlinkatDir(p) \/ Renameat(p)
    BY <1>1, <2>1, OthersKeepNames, Zenon
  <2>3. p \in Movers
    BY <1>1, <2>2, Zenon DEF FilesInv, Moving, OwnRename, Renaming, Unlinkat, UnlinkatDir, Renameat, In
  <2>4. CASE Unlinkat(p) \/ UnlinkatDir(p)
    BY <1>1, <2>3, <2>4, RemovalKeepsName, Zenon
  <2>5. CASE Renameat(p)
    BY <1>1, <2>3, <2>5, RenameKeepsName, Zenon
  <2> QED BY <2>2, <2>4, <2>5, Zenon
<1>2. FilesInv /\ [Next]_vars => [A]_vars
  BY <1>1, Zenon
<1> QED BY <1>2, FilesInductive, PTL DEF Spec, NameIsKept
=============================================================================
