-------------------------------- MODULE Files --------------------------------
(***************************************************************************)
(* The file, directory and socket calls of apps/korix/src/syscall/mod.rs   *)
(* on the RAM filesystem: the descriptor tables of processes that were     *)
(* forked from one another, the open files they share, and the calls in    *)
(* the steps between which another process can run: a path is resolved,    *)
(* the inode found is used, the result is entered in the table.            *)
(***************************************************************************)
EXTENDS Path, Net

CONSTANTS MaxPid, MaxFd,
          MaxOpen,       \* open files (FileEntry)
          MaxBytes,      \* bytes one process writes
          Paths,         \* the paths calls are made with, relative to a directory
          Tree,          \* the tree at the start
          OpenedNode, OpenedPath,   \* a file of it that may be open at the start
          Mounts,        \* mount paths and the roots mounted there
          Programs       \* per process, a sequence of sets of calls: one of each is made

VARIABLES tree,
          files, stdio, sockets, ipv6,   \* process -> descriptor -> open file, 0..2, socket
          cwd, alive,
          entry,        \* open file -> [live, node, offset, path], and who holds its lock
          net,
          rx,           \* bytes of console input (RX_BUF)
          wrote,        \* process -> bytes its writes to files have returned
          pc,           \* process -> the call it is in, and what the call knows
          program,
          made          \* process -> how many calls of its program it has made

vars == <<tree, files, stdio, sockets, ipv6, cwd, alive, entry, net, rx, wrote, pc, program, made>>
tables == <<files, stdio, sockets, ipv6>>

Pid  == 1..MaxPid
Fd   == 0..MaxFd
User == [call |-> "none"]
NoEntry == [live |-> FALSE, node |-> 0, offset |-> 0, path |-> <<>>, owner |-> 0]

In(p, c) == alive[p] /\ pc[p].call = c
Goes(p, to) == pc' = [pc EXCEPT ![p] = to]
Done(p) == Goes(p, User)
Makes(p) == UNION {program[p][i] : i \in DOMAIN program[p]}

\* A program that opens no files starts with one open, at descriptor 3.
Init ==
  /\ tree = Tree /\ net = EmptyStack /\ rx = 0
  /\ program \in Programs
  /\ files = [p \in Pid |-> IF p = 1 /\ "open" \notin Makes(1) THEN Put(<<>>, 3, 1) ELSE <<>>]
  /\ entry = [e \in 1..MaxOpen |-> IF e = 1 /\ "open" \notin Makes(1)
                                   THEN [NoEntry EXCEPT !.live = TRUE, !.node = OpenedNode, !.path = OpenedPath]
                                   ELSE NoEntry]
  /\ stdio = [p \in Pid |-> <<>>]
  /\ sockets = [p \in Pid |-> <<>>] /\ ipv6 = [p \in Pid |-> {}]
  /\ cwd = [p \in Pid |-> <<>>]
  /\ alive = [p \in Pid |-> p = 1]
  /\ wrote = [p \in Pid |-> 0]
  /\ pc = [p \in Pid |-> User] /\ made = [p \in Pid |-> 0]

----------------------------------------------------------------------------
(* Descriptors.                                                            *)

Used(p) == DOMAIN files[p] \cup DOMAIN stdio[p] \cup DOMAIN sockets[p]
FreeFds(p, from) == {fd \in Fd : fd >= from /\ fd \notin Used(p)}
NextFd(p) == Min(FreeFds(p, 3))
Fit(p) == FreeFds(p, 3) # {}

\* current_file, socket_id, stdio_target
IsFile(p, fd)   == fd \in DOMAIN files[p]
IsSocket(p, fd) == fd \in DOMAIN sockets[p]
Stdio(p, fd)    == IF fd <= 2 THEN {fd} ELSE IF fd \in DOMAIN stdio[p] THEN {stdio[p][fd]} ELSE {}
IsOpenFd(p, fd) == IsFile(p, fd) \/ IsSocket(p, fd) \/ Stdio(p, fd) # {}

FreeEntries == {e \in 1..MaxOpen : entry[e] = NoEntry}

\* An open file lasts as long as a descriptor refers to it (Arc<Mutex<FileEntry>>).
Sweep(fs, ent) ==
  [e \in 1..MaxOpen |-> IF \E p \in Pid : \E fd \in DOMAIN fs[p] : fs[p][fd] = e
                        THEN ent[e] ELSE NoEntry]

\* alloc_fd
AllocFd(p, n, path) ==
  LET e == Min(FreeEntries) IN
  /\ files' = [files EXCEPT ![p] = Put(@, NextFd(p), e)]
  /\ entry' = [entry EXCEPT ![e] = [live |-> TRUE, node |-> n, offset |-> 0, path |-> path, owner |-> 0]]

\* sys_close
Close(p, fd) ==
  /\ fd > 2
  /\ ipv6' = [ipv6 EXCEPT ![p] = @ \ {fd}]
  /\ sockets' = [sockets EXCEPT ![p] = Drop(@, fd)]
  /\ net' = IF IsSocket(p, fd) THEN CloseSocket(net, sockets[p][fd]) ELSE net
  /\ files' = IF IsSocket(p, fd) THEN files ELSE [files EXCEPT ![p] = Drop(@, fd)]
  /\ stdio' = IF IsSocket(p, fd) \/ IsFile(p, fd) THEN stdio ELSE [stdio EXCEPT ![p] = Drop(@, fd)]
  /\ entry' = Sweep(files', entry)
  /\ UNCHANGED <<tree, cwd, alive, rx, wrote, pc, program>>

\* A slip: what newfd stood for stays in the other tables.
CopyOver(p, fd, newfd) ==
  /\ files' = [files EXCEPT ![p] = IF IsFile(p, fd) THEN Put(@, newfd, @[fd]) ELSE @]
  /\ stdio' = [stdio EXCEPT ![p] =
       IF ~IsFile(p, fd) /\ Stdio(p, fd) # {} THEN Put(@, newfd, Min(Stdio(p, fd))) ELSE @]
  /\ sockets' = [sockets EXCEPT ![p] = IF ~IsFile(p, fd) /\ Stdio(p, fd) = {} THEN Put(@, newfd, @[fd]) ELSE @]
  /\ ipv6' = [ipv6 EXCEPT ![p] = IF ~IsFile(p, fd) /\ Stdio(p, fd) = {} /\ fd \in @ THEN @ \cup {newfd} ELSE @]

\* The tail that dup, dup2 and fcntl share: newfd stands for what fd stands for.
CopyTo(p, fd, newfd) ==
  /\ files' = [files EXCEPT ![p] = IF IsFile(p, fd) THEN Put(@, newfd, @[fd]) ELSE Drop(@, newfd)]
  /\ stdio' = [stdio EXCEPT ![p] =
       IF ~IsFile(p, fd) /\ Stdio(p, fd) # {} THEN Put(@, newfd, Min(Stdio(p, fd))) ELSE Drop(@, newfd)]
  /\ sockets' = [sockets EXCEPT ![p] =
       IF ~IsFile(p, fd) /\ Stdio(p, fd) = {} THEN Put(@, newfd, @[fd]) ELSE Drop(@, newfd)]
  /\ ipv6' = [ipv6 EXCEPT ![p] =
       IF ~IsFile(p, fd) /\ Stdio(p, fd) = {} /\ fd \in @ THEN @ \cup {newfd} ELSE @ \ {newfd}]

\* sys_dup: the first free descriptor from 3 on.
Dup(p, fd, from) ==
  /\ IsOpenFd(p, fd) /\ FreeFds(p, from) # {}
  /\ CopyTo(p, fd, Min(FreeFds(p, from)))
  /\ UNCHANGED <<tree, cwd, alive, entry, net, rx, wrote, pc, program>>

\* sys_fcntl with F_DUPFD; its other commands change nothing.
Fcntl(p, fd, argument) == Dup(p, fd, Max({argument, 3}))

\* sys_dup2: what newfd stood for is dropped; a socket is not closed by that.
Dup2(p, fd, newfd) ==
  /\ IsOpenFd(p, fd) /\ fd # newfd
  /\ CopyTo(p, fd, newfd)
  /\ entry' = Sweep(files', entry)
  /\ UNCHANGED <<tree, cwd, alive, net, rx, wrote, pc, program>>

\* The descriptor half of sys_clone: the child has all of the parent's descriptors.
Fork(p, q) ==
  /\ ~alive[q] /\ pc[q] = User /\ program[q] # <<>> /\ q > p
  /\ alive' = [alive EXCEPT ![q] = TRUE]
  /\ files' = [files EXCEPT ![q] = files[p]] /\ stdio' = [stdio EXCEPT ![q] = stdio[p]]
  /\ sockets' = [sockets EXCEPT ![q] = sockets[p]] /\ ipv6' = [ipv6 EXCEPT ![q] = ipv6[p]]
  /\ cwd' = [cwd EXCEPT ![q] = cwd[p]]
  /\ UNCHANGED <<tree, entry, net, rx, wrote, pc, program>>

\* The descriptor half of exit_current: sockets are forgotten, not closed.
Exit(p) ==
  /\ alive' = [alive EXCEPT ![p] = FALSE]
  /\ Goes(p, [call |-> "gone"])
  /\ files' = [files EXCEPT ![p] = <<>>] /\ sockets' = [sockets EXCEPT ![p] = <<>>]
  /\ entry' = Sweep(files', entry)
  /\ UNCHANGED <<tree, stdio, ipv6, cwd, net, rx, wrote, program>>

----------------------------------------------------------------------------
(* Reading and writing.                                                    *)

\* sys_write: to a socket, else an open file, else the console.  Only the write to a file
\* has steps; `left` are the buffers of a writev after this one.
WriteToFile(p, fd, left) ==
  /\ ~IsSocket(p, fd) /\ IsFile(p, fd) /\ wrote[p] + left < MaxBytes
  /\ Goes(p, [call |-> "write", entry |-> files[p][fd], left |-> left])
  /\ UNCHANGED net
Write(p, fd) ==
  /\ \/ /\ IsSocket(p, fd)
        /\ net' = Send(net, sockets[p][fd], FALSE).net
        /\ UNCHANGED pc
     \/ WriteToFile(p, fd, 0)
  /\ UNCHANGED <<tree, tables, cwd, alive, entry, rx, wrote, program>>

\* sys_writev: one write for each buffer, two of them here.
Writev(p, fd) ==
  /\ \/ /\ IsSocket(p, fd)
        /\ net' = Send(Send(net, sockets[p][fd], FALSE).net, sockets[p][fd], FALSE).net
        /\ UNCHANGED pc
     \/ WriteToFile(p, fd, 1)
  /\ UNCHANGED <<tree, tables, cwd, alive, entry, rx, wrote, program>>

\* A slip: the open file is not locked.
WriteAtOffsetUnlocked(p) ==
  LET e == pc[p].entry
      n == entry[e].node
  IN /\ In(p, "write")
     /\ tree' = IF tree.kind[n] = "file" THEN WriteAt(tree, n, entry[e].offset, <<p>>) ELSE tree
     /\ Goes(p, IF tree.kind[n] = "file"
                THEN [call |-> "written", entry |-> e, size |-> Len(tree'.content[n]), left |-> pc[p].left]
                ELSE User)
     /\ UNCHANGED <<tables, cwd, alive, entry, net, rx, wrote, program>>

\* The open file is locked and the bytes go in at its offset; a directory or a link has
\* no bytes.
WriteAtOffset(p) ==
  LET e == pc[p].entry
      n == entry[e].node
      t == WriteAt(tree, n, entry[e].offset, <<p>>)
  IN /\ In(p, "write") /\ entry[e].owner = 0
     /\ IF tree.kind[n] = "file"
        THEN /\ tree' = t
             /\ entry' = [entry EXCEPT ![e].owner = p]
             /\ Goes(p, [call |-> "written", entry |-> e, size |-> Len(t.content[n]),
                         left |-> pc[p].left])
        ELSE /\ Done(p) /\ UNCHANGED <<tree, entry>>
     /\ UNCHANGED <<tables, cwd, alive, net, rx, wrote, program>>

\* The size is noted, the offset moves on, the lock is released.
WriteEnd(p) ==
  LET e == pc[p].entry IN
  /\ In(p, "written")
  /\ tree' = SetSize(tree, entry[e].node, pc[p].size)
  /\ entry' = [entry EXCEPT ![e].offset = @ + 1, ![e].owner = 0]
  /\ wrote' = [wrote EXCEPT ![p] = @ + 1]
  /\ IF pc[p].left = 0 THEN Done(p)
     ELSE Goes(p, [call |-> "write", entry |-> e, left |-> pc[p].left - 1])
  /\ UNCHANGED <<tables, cwd, alive, net, rx, program>>

\* sys_read: a socket, the console when the descriptor is or stands for 0, a file.
Read(p, fd) ==
  /\ \/ /\ IsSocket(p, fd)
        /\ Goes(p, [call |-> "recv", socket |-> sockets[p][fd]])
        /\ UNCHANGED entry
     \/ /\ ~IsSocket(p, fd) /\ Stdio(p, fd) = {0}
        /\ Goes(p, [call |-> "console"])
        /\ UNCHANGED entry
     \/ /\ ~IsSocket(p, fd) /\ Stdio(p, fd) # {0} /\ IsFile(p, fd)
        /\ entry[files[p][fd]].owner = 0
        /\ tree.kind[entry[files[p][fd]].node] = "file"
        /\ entry' = [entry EXCEPT ![files[p][fd]].offset =
                        @ + ReadAt(tree, entry[files[p][fd]].node, @, 1)]
        /\ UNCHANGED pc
  /\ UNCHANGED <<tree, tables, cwd, alive, net, rx, wrote, program>>

\* rx_has_data; rx_get, k times.
RxHasData == rx > 0
RxGet(k) == rx >= k /\ rx' = rx - k

\* The console half of sys_read waits for a byte, and takes what else there is.
ConsoleRead(p) ==
  /\ In(p, "console") /\ RxHasData
  /\ \E k \in 1..rx : RxGet(k)
  /\ Done(p)
  /\ UNCHANGED <<tree, tables, cwd, alive, entry, net, wrote, program>>

\* sys_lseek, absolute or relative; and sys_getdents64, whose offset counts entries.
Lseek(p, fd, offset) ==
  /\ IsFile(p, fd) /\ entry[files[p][fd]].owner = 0
  /\ entry' = [entry EXCEPT ![files[p][fd]].offset = offset]
  /\ UNCHANGED <<tree, tables, cwd, alive, net, rx, wrote, pc, program>>
Getdents64(p, fd) ==
  /\ IsFile(p, fd) /\ entry[files[p][fd]].owner = 0
  /\ IsDir(tree, entry[files[p][fd]].node)
  /\ LET n == Cardinality(Names(tree, entry[files[p][fd]].node)) IN
     \E k \in Min({entry[files[p][fd]].offset, n})..n :
       entry' = [entry EXCEPT ![files[p][fd]].offset = k]
  /\ UNCHANGED <<tree, tables, cwd, alive, net, rx, wrote, pc, program>>
=============================================================================
