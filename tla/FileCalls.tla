------------------------------ MODULE FileCalls ------------------------------
(***************************************************************************)
(* The calls of apps/korix/src/syscall/mod.rs that take a path, the socket *)
(* calls and the calls that wait, on top of Files; and what all of them    *)
(* promise together.                                                       *)
(***************************************************************************)
EXTENDS Files

CONSTANTS OpenFlags      \* the sets of flags openat is called with

\* The tree at the start has an empty file to be open, and no unused inode holds names.
ASSUME FilesAssumption ==
  /\ MaxPid \in Nat /\ MaxFd \in Nat /\ MaxOpen \in Nat \ {0} /\ MaxNode \in Nat
  /\ TreeOK(Tree)
  /\ Bare(Tree)
  /\ OpenedNode \in Node /\ Tree.kind[OpenedNode] = "file"
  /\ Tree.content[OpenedNode] = <<>> /\ Tree.size[OpenedNode] = 0
  /\ \A calls \in Programs : \A p \in Pid : calls[p] \in Seq(SUBSET STRING)

NoDir == MaxFd + 1       \* AT_FDCWD

\* absolute_path: from the root, from the working directory or from an open directory.
CanStart(p, dirfd) ==
  dirfd = NoDir \/ (IsFile(p, dirfd) /\ IsDir(tree, entry[files[p][dirfd]].node))
AbsolutePath(p, dirfd, path) ==
  IF path # <<>> /\ Head(path) = "/" THEN Normalize(Tail(path))
  ELSE Normalize((IF dirfd = NoDir THEN cwd[p] ELSE entry[files[p][dirfd]].path) \o path)

At(path)     == Resolve(tree, Mounts, path)
ParentOf(path) == At(ParentPath(path))

Quiet == UNCHANGED <<tables, cwd, alive, entry, net, rx, wrote, program>>

----------------------------------------------------------------------------
(* sys_openat.                                                             *)

\* The path is resolved; O_TMPFILE creates a name of its own in the directory instead.
Open(p, dirfd, path, flags) ==
  /\ CanStart(p, dirfd)
  /\ LET full == AbsolutePath(p, dirfd, path)
         r    == At(full)
         tmp  == Append(full, "tmp")
     IN
       /\ FreeEntries # {} /\ Fit(p)
       /\ \/ /\ "TMPFILE" \in flags
             /\ Goes(p, [call |-> "parent", full |-> tmp, flags |-> flags])
          \/ /\ "TMPFILE" \notin flags /\ r.result = "ok" /\ ~({"CREAT", "EXCL"} \subseteq flags)
             /\ Goes(p, [call |-> "opened", full |-> full, flags |-> flags, node |-> r.node])
          \/ /\ "TMPFILE" \notin flags /\ r.result = "NotFound" /\ "CREAT" \in flags
             /\ HasParent(full)
             /\ Goes(p, [call |-> "parent", full |-> full, flags |-> flags])
       /\ UNCHANGED tree /\ Quiet

\* The directory the new file goes to is resolved.
OpenParent(p) ==
  LET r == ParentOf(pc[p].full) IN
  /\ In(p, "parent")
  /\ IF r.result = "ok"
     THEN Goes(p, [call |-> "create", full |-> pc[p].full, flags |-> pc[p].flags, node |-> r.node])
     ELSE Done(p)
  /\ UNCHANGED tree /\ Quiet

\* The file is created.  For O_TMPFILE a file that is there already is emptied, which
\* this filesystem does not do.
OpenCreate(p) ==
  LET r == Create(tree, pc[p].node, FileName(pc[p].full), "file") IN
  /\ In(p, "create") /\ HasRoom(tree)
  /\ tree' = r.t
  /\ IF r.result = "ok"
     THEN Goes(p, [call |-> "opened", full |-> pc[p].full, flags |-> pc[p].flags, node |-> r.node])
     ELSE Done(p)
  /\ Quiet

\* The checks on the inode, and a descriptor.
OpenEnd(p) ==
  LET n == pc[p].node IN
  /\ In(p, "opened")
  /\ IF \/ "DIRECTORY" \in pc[p].flags /\ ~IsDir(tree, n)
        \/ "TRUNC" \in pc[p].flags /\ tree.kind[n] = "file" /\ tree.size[n] # 0
        \/ FreeEntries = {}
     THEN UNCHANGED <<files, entry>>
     ELSE AllocFd(p, n, pc[p].full)
  /\ Done(p)
  /\ UNCHANGED <<tree, stdio, sockets, ipv6, cwd, alive, net, rx, wrote, program>>

----------------------------------------------------------------------------
(* The other calls with paths: the directory is resolved, then used.       *)

\* sys_chdir
Chdir(p, path) ==
  \E full \in {AbsolutePath(p, NoDir, path)} :
    /\ At(full).result = "ok" /\ IsDir(tree, At(full).node)
    /\ cwd' = [cwd EXCEPT ![p] = full]
    /\ UNCHANGED <<tree, tables, alive, entry, net, rx, wrote, pc, program>>

\* sys_mkdirat, sys_unlinkat, sys_symlinkat: up to the call on the directory.
OneDir == {"mkdir", "unlink", "rmdir", "symlink"}
Begin(p, c, dirfd, path) ==
  /\ CanStart(p, dirfd)
  /\ LET full   == AbsolutePath(p, dirfd, path)
         parent == ParentOf(full)
     IN /\ HasParent(full) /\ parent.result = "ok"
        /\ Goes(p, [call |-> c, dir |-> parent.node, name |-> FileName(full)])
  /\ UNCHANGED tree /\ Quiet

\* Their calls on the directory.
Mkdirat(p) ==
  /\ In(p, "mkdir") /\ HasRoom(tree)
  /\ tree' = Create(tree, pc[p].dir, pc[p].name, "dir").t /\ Done(p) /\ Quiet
Unlinkat(p) ==
  /\ In(p, "unlink")
  /\ tree' = Unlink(tree, pc[p].dir, pc[p].name).t /\ Done(p) /\ Quiet
UnlinkatDir(p) ==
  /\ In(p, "rmdir")
  /\ tree' = Rmdir(tree, pc[p].dir, pc[p].name).t /\ Done(p) /\ Quiet
Symlinkat(p) ==
  /\ In(p, "symlink") /\ HasRoom(tree)
  /\ \E target \in Paths : tree' = Symlink(tree, pc[p].dir, pc[p].name, target).t
  /\ Done(p) /\ Quiet

\* sys_linkat: the target, links followed, and the new directory; then the new name.
LinkBegin(p, path, newPath) ==
  /\ LET full   == AbsolutePath(p, NoDir, newPath)
         target == At(AbsolutePath(p, NoDir, path))
         parent == ParentOf(full)
     IN /\ target.result = "ok" /\ HasParent(full) /\ parent.result = "ok"
        /\ Goes(p, [call |-> "link", node |-> target.node, dir |-> parent.node,
                    name |-> FileName(full)])
  /\ UNCHANGED tree /\ Quiet
Linkat(p) ==
  /\ In(p, "link")
  /\ tree' = Link(tree, pc[p].dir, pc[p].name, pc[p].node).t /\ Done(p) /\ Quiet

\* sys_renameat: both directories; then the sections of rename.
RenameBegin(p, path, newPath) ==
  /\ LET old       == AbsolutePath(p, NoDir, path)
         new       == AbsolutePath(p, NoDir, newPath)
         oldParent == ParentOf(old)
         newParent == ParentOf(new)
     IN /\ HasParent(old) /\ HasParent(new)
        /\ oldParent.result = "ok" /\ newParent.result = "ok"
        /\ Goes(p, [call |-> "rename", dir |-> oldParent.node, name |-> FileName(old),
                    newDir |-> newParent.node, newName |-> FileName(new), child |-> 0])
  /\ UNCHANGED tree /\ Quiet
Renameat(p) ==
  LET c == pc[p]
      found == RenameFind(tree, c.dir, c.name, c.newDir, c.newName)
  IN \/ /\ In(p, "rename")
        /\ IF found.result = "ok"
           THEN Goes(p, [c EXCEPT !.call = "insert", !.child = found.node]) ELSE Done(p)
        /\ UNCHANGED tree /\ Quiet
     \/ /\ In(p, "insert")
        /\ tree' = RenameInsert(tree, c.dir, c.name, c.newDir, c.newName, c.child)
        /\ Goes(p, [c EXCEPT !.call = "remove"]) /\ Quiet
     \/ /\ In(p, "remove")
        /\ tree' = RenameRemove(tree, c.dir, c.name, c.newDir)
        /\ Goes(p, [c EXCEPT !.call = "reparent"]) /\ Quiet
     \/ /\ In(p, "reparent")
        /\ tree' = RenameParent(tree, c.child, c.newDir)
        /\ Done(p) /\ Quiet

----------------------------------------------------------------------------
(* Sockets.                                                                *)

\* sys_socket: the socket, then a descriptor for it.
Socket(p, kind, six, bound) ==
  LET r == NewSocket(net, kind, bound) IN
  /\ net.next <= MaxSocket /\ Fit(p)
  /\ net' = r.net
  /\ \/ /\ r.result = "ok"
        /\ sockets' = [sockets EXCEPT ![p] = Put(@, NextFd(p), net.next)]
        /\ ipv6' = [ipv6 EXCEPT ![p] = IF six THEN @ \cup {NextFd(p)} ELSE @]
     \/ r.result # "ok" /\ UNCHANGED <<sockets, ipv6>>
  /\ UNCHANGED <<tree, files, stdio, cwd, alive, entry, rx, wrote, pc, program>>

\* sys_connect
ConnectTo(p, fd, link) ==
  /\ IsSocket(p, fd)
  /\ net' = Connect(net, sockets[p][fd], link).net
  /\ UNCHANGED <<tree, tables, cwd, alive, entry, rx, wrote, pc, program>>

\* sys_sendto
SendTo(p, fd, destination) ==
  /\ IsSocket(p, fd)
  /\ net' = Send(net, sockets[p][fd], destination).net
  /\ UNCHANGED <<tree, tables, cwd, alive, entry, rx, wrote, pc, program>>

\* sys_sendmsg: its buffers are gathered and sent at once, to the peer of the socket when
\* the header has no name.
SendMsg(p, fd) == \E named \in BOOLEAN : SendTo(p, fd, named)

\* sys_recvfrom: the id is looked up once, then the stack is asked again
\* and again.
RecvFrom(p, fd) ==
  /\ IsSocket(p, fd)
  /\ Goes(p, [call |-> "recv", socket |-> sockets[p][fd]])
  /\ UNCHANGED tree /\ Quiet

\* sys_recvmsg receives as recvfrom does, then scatters what it has.
RecvMsg(p, fd) == RecvFrom(p, fd)

\* A slip: a socket that is gone is waited for.
RecvPatient(p) ==
  LET r == RecvTurn(net, pc[p].socket) IN
  /\ In(p, "recv") /\ r.result \notin {"again", "EBADF"}
  /\ net' = r.net /\ Done(p)
  /\ UNCHANGED <<tree, tables, cwd, alive, entry, rx, wrote, program>>

Recv(p) ==
  LET r == RecvTurn(net, pc[p].socket) IN
  /\ In(p, "recv") /\ r.result # "again"
  /\ net' = r.net /\ Done(p)
  /\ UNCHANGED <<tree, tables, cwd, alive, entry, rx, wrote, program>>

----------------------------------------------------------------------------
(* Waiting: sys_ppoll and sys_select.                                      *)

Timeout == {"null", "zero", "some"}

\* A descriptor can be read: console input for 0, data for a socket.
Readable(p, fd) == (fd = 0 /\ RxHasData) \/ (IsSocket(p, fd) /\ HasData(net, sockets[p][fd]))
\* and, for select, written.
Writable(p, fd) == IsSocket(p, fd) \/ IsFile(p, fd) \/ (Stdio(p, fd) \cap {1, 2}) # {}

Wait(p, c, fd, timeout) ==
  /\ Goes(p, [call |-> c, fd |-> fd, timeout |-> timeout, due |-> timeout = "zero"])
  /\ UNCHANGED tree /\ Quiet

\* The deadline passes.
Expire(p) ==
  /\ (In(p, "ppoll") \/ In(p, "select")) /\ pc[p].timeout = "some" /\ ~pc[p].due
  /\ Goes(p, [pc[p] EXCEPT !.due = TRUE])
  /\ UNCHANGED tree /\ Quiet

\* A turn of ppoll's loop that ends it.
Ppoll(p) ==
  /\ In(p, "ppoll") /\ (Readable(p, pc[p].fd) \/ pc[p].due)
  /\ Done(p) /\ UNCHANGED tree /\ Quiet

\* The same for select, which takes a new deadline in every turn: only an empty timeout
\* has passed by then.
Select(p) ==
  /\ In(p, "select")
  /\ \/ Readable(p, pc[p].fd) \/ Writable(p, pc[p].fd) \/ pc[p].timeout = "zero"
  /\ Done(p) /\ UNCHANGED tree /\ Quiet

\* What the outside does: a packet, the state of a connection, a byte on the console.
Outside ==
  /\ \/ \E id \in DOMAIN net.states :
          \/ CanArrive(net, id) /\ net' = Arrive(net, id)
          \/ \E link \in Answers(net, id) : net' = PeerAnswers(net, id, link)
        /\ UNCHANGED rx
     \/ rx < 1 /\ rx' = rx + 1 /\ UNCHANGED net
          /\ \E p \in Pid : Makes(p) \cap {"read", "ppoll", "select"} # {}
  /\ UNCHANGED <<tree, tables, cwd, alive, entry, wrote, pc, program>>
----------------------------------------------------------------------------
\* dispatch_inner, for the calls of this module: the next of p's program.
FileCall(p, c) ==
  \E fd \in Fd :
    \/ c = "close" /\ Close(p, fd)
    \/ c = "write" /\ Write(p, fd)
    \/ c = "writev" /\ Writev(p, fd)
    \/ c = "read" /\ Read(p, fd)
    \/ c = "getdents" /\ Getdents64(p, fd)
    \/ c = "dup" /\ Dup(p, fd, 3)
    \/ c = "fcntl" /\ \E argument \in {0, 4} : Fcntl(p, fd, argument)
    \/ c = "dup2" /\ \E newfd \in Fd : Dup2(p, fd, newfd)
    \/ c = "lseek" /\ \E offset \in 0..1 : Lseek(p, fd, offset)
    \/ c = "connect" /\ \E link \in {"up", "syn", "closed"} : ConnectTo(p, fd, link)
    \/ c = "send" /\ SendTo(p, fd, TRUE)
    \/ c = "sendmsg" /\ SendMsg(p, fd)
    \/ c = "recv" /\ RecvFrom(p, fd)
    \/ c = "recvmsg" /\ RecvMsg(p, fd)
    \/ c \in {"ppoll", "select"} /\ \E timeout \in Timeout : Wait(p, c, fd, timeout)
PathCall(p, c) ==
  \E path \in Paths :
    \/ c = "chdir" /\ Chdir(p, path)
    \/ \E dirfd \in {3, NoDir} :
         \/ c = "open" /\ \E flags \in OpenFlags : Open(p, dirfd, path, flags)
         \/ c \in OneDir /\ Begin(p, c, dirfd, path)
    \/ c = "link" /\ \E newPath \in Paths : LinkBegin(p, path, newPath)
    \/ c = "rename" /\ \E newPath \in Paths : RenameBegin(p, path, newPath)
Dispatch(p) ==
  /\ In(p, "none") /\ made[p] < Len(program[p])
  /\ made' = [made EXCEPT ![p] = @ + 1]
  /\ \E c \in program[p][made[p] + 1] :
       \/ FileCall(p, c)
       \/ PathCall(p, c)
       \/ c = "socket" /\ \E kind \in SocketKind \cup {"Raw"}, six, bound \in BOOLEAN :
                            Socket(p, kind, six, bound)
       \/ c = "fork" /\ \E q \in Pid : Fork(p, q)
       \/ c = "exit" /\ Exit(p)

\* The rest of a call; and a turn of the loop of one that waits.
Inside(p) ==
  \/ WriteAtOffset(p) \/ WriteEnd(p) \/ ConsoleRead(p)
  \/ OpenParent(p) \/ OpenCreate(p) \/ OpenEnd(p)
  \/ Mkdirat(p) \/ Unlinkat(p) \/ UnlinkatDir(p) \/ Symlinkat(p) \/ Linkat(p) \/ Renameat(p)
Turn(p) == (Recv(p) \/ Ppoll(p) \/ Select(p)) /\ UNCHANGED made
Tick(p) == Expire(p) /\ UNCHANGED made

Next == \/ Outside /\ UNCHANGED made
        \/ \E p \in Pid : Dispatch(p) \/ (Inside(p) /\ UNCHANGED made) \/ Turn(p) \/ Tick(p)

\* A process that waits is scheduled and the clock advances; nothing is assumed of programs
\* or of the outside.
Spec == Init /\ [][Next]_vars /\ \A p \in Pid : WF_vars(Turn(p)) /\ WF_vars(Tick(p))

----------------------------------------------------------------------------
(* What the calls promise.                                                 *)

\* A descriptor stands for one thing: no sequence of dup, dup2, close, open, socket, fork
\* and exit leaves one in two tables, on an open file that is gone, or with the address
\* family of a socket it no longer is.
DescriptorsSound ==
  \A p \in Pid : alive[p] =>
    /\ DOMAIN files[p] \cap (DOMAIN stdio[p] \cup DOMAIN sockets[p]) = {}
    /\ DOMAIN stdio[p] \cap DOMAIN sockets[p] = {}
    /\ ipv6[p] \subseteq DOMAIN sockets[p]
    /\ \A fd \in DOMAIN files[p] : entry[files[p][fd]] # NoEntry

\* O_CREAT with O_EXCL: of the calls that race for a name, however the steps of resolving
\* and creating fall, no two succeed on one file.
Excl(p) == In(p, "opened") /\ {"CREAT", "EXCL"} \subseteq pc[p].flags
ExclusiveCreate ==
  \A p, q \in Pid : p # q /\ Excl(p) /\ Excl(q) => pc[p].node # pc[q].node

\* Processes that write through the open file they share lose no byte: as many bytes of
\* each as its calls have returned are in the file, and its size is theirs together.
Bytes == tree.content[OpenedNode]
BytesOf(p) == {i \in 1..Len(Bytes) : Bytes[i] = p}
Appends == \A p \in Pid : Makes(p) \subseteq {"fork", "write", "writev", "dup", "close", "exit"}
SharedWrites ==
  Appends /\ (\A p \in Pid : ~In(p, "written")) =>
    /\ \A p \in Pid : Cardinality(BytesOf(p)) = wrote[p]
    /\ Bytes \in Seq(Pid) /\ tree.size[OpenedNode] = Len(Bytes)

\* Where at most one process renames and removes names, a file or directory that has a name
\* keeps one in every state in between, unless it is what the rename is to replace or the
\* removal to remove.
Movers   == {p \in Pid : Makes(p) \cap {"rename", "unlink", "rmdir"} # {}}
OneMover == \A p, q \in Movers : p = q
Named(n) == \E d \in Node : \E nm \in Names(tree, d) : Child(tree, d, nm) = n
Replaces(p, n) == /\ In(p, "insert")
                  /\ Has(tree, pc[p].newDir, pc[p].newName)
                  /\ Child(tree, pc[p].newDir, pc[p].newName) = n
Removes(p, n)  == /\ In(p, "unlink") \/ In(p, "rmdir")
                  /\ Has(tree, pc[p].dir, pc[p].name)
                  /\ Child(tree, pc[p].dir, pc[p].name) = n
NameIsKept ==
  [][OneMover =>
       \A n \in Node : Named(n) /\ ~Named(n)' => \E p \in Movers : Replaces(p, n) \/ Removes(p, n)]_vars

\* A process that waits for data of a socket is let go when another process closes it.
RecvEnds ==
  \A p \in Pid : (In(p, "recv") /\ ~IsOpen(net, pc[p].socket)) ~> ~In(p, "recv")

----------------------------------------------------------------------------
(* The inductive invariant.                                                *)

TypeOK ==
  /\ TreeOK(tree)
  /\ DOMAIN files = Pid /\ DOMAIN stdio = Pid /\ DOMAIN sockets = Pid /\ DOMAIN ipv6 = Pid
  /\ DOMAIN cwd = Pid /\ DOMAIN pc = Pid
  /\ alive \in [Pid -> BOOLEAN]
  /\ wrote \in [Pid -> Nat] /\ made \in [Pid -> Nat]
  /\ program \in Programs
  /\ DOMAIN entry = 1..MaxOpen
  /\ \A e \in 1..MaxOpen : DOMAIN entry[e] = DOMAIN NoEntry
  /\ \A p \in Pid : "call" \in DOMAIN pc[p]

\* A descriptor of any process, gone or not, keeps its open file; a call that is to end
\* with a new descriptor has room for it, because only the process itself uses its table.
Opening == {"parent", "create", "opened"}
OwnDescriptors(p) ==
  /\ \A fd \in DOMAIN files[p] : files[p][fd] \in 1..MaxOpen /\ entry[files[p][fd]].live
  /\ alive[p] =>
       /\ DOMAIN files[p] \cap (DOMAIN stdio[p] \cup DOMAIN sockets[p]) = {}
       /\ DOMAIN stdio[p] \cap DOMAIN sockets[p] = {}
       /\ ipv6[p] \subseteq DOMAIN sockets[p]
       /\ pc[p].call \in Opening => Fit(p)
Descriptors == \A p \in Pid : OwnDescriptors(p)

\* The file an exclusive open has made is an inode in use, so the next one is another.
Created ==
  /\ \A p \in Pid : Excl(p) => pc[p].node \in Node /\ tree.kind[pc[p].node] # "none"
  /\ ExclusiveCreate

\* While one process only moves and removes names, what its rename has found stays where it
\* is until the new name is there too.
Renaming == {"rename", "insert", "remove", "reparent"}
Apart(p)    == pc[p].dir # pc[p].newDir
AtOld(p)    == /\ Has(tree, pc[p].dir, pc[p].name)
               /\ Child(tree, pc[p].dir, pc[p].name) = pc[p].child
AtNew(p)    == /\ Has(tree, pc[p].newDir, pc[p].newName)
               /\ Child(tree, pc[p].newDir, pc[p].newName) = pc[p].child
OwnRename(p) ==
  /\ alive[p] /\ pc[p].call \in Renaming \cup {"unlink", "rmdir"} => p \in Movers
  /\ pc[p].call \in Renaming => DOMAIN pc[p] = {"call", "dir", "name", "newDir", "newName", "child"}
  /\ In(p, "insert") \/ In(p, "remove") => IsDir(tree, pc[p].dir) /\ IsDir(tree, pc[p].newDir)
  /\ OneMover =>
       /\ In(p, "insert") => AtOld(p)
       /\ In(p, "remove") /\ Apart(p) => AtOld(p) /\ AtNew(p)
Moving == Bare(tree) /\ \A p \in Pid : OwnRename(p)

\* The one open file of programs that append: its offset is the end of the file, except
\* for the process that holds its lock and has written one byte more.
OwnBytes(p) ==
  /\ \A fd \in DOMAIN files[p] : files[p][fd] = 1
  /\ pc[p].call \in {"none", "gone", "write", "written"}
  /\ pc[p].call \in {"write", "written"} => alive[p] /\ pc[p].entry = 1 /\ DOMAIN files[p] # {}
  /\ pc[p].call = "written" => entry[1].owner = p /\ pc[p].size = Len(Bytes)
  /\ Cardinality(BytesOf(p)) = wrote[p] + (IF pc[p].call = "written" THEN 1 ELSE 0)
OpenFile ==
  /\ entry[1].live => /\ entry[1].node = OpenedNode
                      /\ entry[1].owner = 0 => entry[1].offset = Len(Bytes)
                      /\ entry[1].owner # 0 => entry[1].offset + 1 = Len(Bytes)
  /\ entry[1].owner # 0 => entry[1].owner \in Pid /\ pc[entry[1].owner].call = "written"
  /\ entry[1].owner = 0 => tree.size[OpenedNode] = Len(Bytes)
Sharing ==
  Appends => /\ tree.kind[OpenedNode] = "file" /\ Bytes \in Seq(Pid)
             /\ OpenFile
             /\ \A p \in Pid : OwnBytes(p)

FilesInv == TypeOK /\ Descriptors /\ Created /\ Moving /\ Sharing

=============================================================================
