------------------------------ MODULE MCFiles ------------------------------
(***************************************************************************)
(* A root with a directory, a file and a mounted filesystem; two processes *)
(* and, per initial state, the calls each of them makes.                   *)
(***************************************************************************)
EXTENDS FileCalls

MCTree == [EmptyTree EXCEPT !.kind = [n \in Node |-> CASE n \in {1, 2, 4} -> "dir" [] n = 3 -> "file" [] OTHER -> "none"],
                            !.children[1] = ("a" :> 2) @@ ("f" :> 3),
                            !.parent[2] = 1, !.parent[3] = 1]
MCMounts == (<<>> :> 1) @@ (<<"m">> :> 4)
MCOpenedPath == <<"f">>
MCPaths == {<<"f">>, <<"a", "b">>, <<"..", "m", "f">>, <<"/", "a">>}
MCOpenFlags == {{"DIRECTORY"}, {"CREAT", "EXCL"}, {"CREAT", "TRUNC"}, {"TMPFILE"}}
\* Appending; racing opens; a mover and a maker of names; descriptors; sockets; waiting;
\* the other calls.
MCPrograms == {
  <<<<{"fork"}, {"write", "dup"}, {"write", "exit"}>>, <<{"writev"}, {"write", "close"}>>>>,
  <<<<{"fork"}, {"open"}, {"open"}>>, <<{"open"}, {"unlink"}>>>>,
  <<<<{"fork"}, {"rename", "chdir"}, {"rename"}>>, <<{"link", "mkdir"}>>>>,
  <<<<{"fork"}, {"rename"}>>, <<{"symlink"}, {"open"}>>>>,
  <<<<{"mkdir"}, {"rename", "rmdir"}, {"rmdir"}>>, <<>>>>,
  <<[i \in 1..4 |-> {"fcntl", "dup2", "close", "socket"}], <<>>>>,
  <<<<{"socket"}, {"fork"}, {"recv", "connect"}, {"recv"}>>, <<{"recvmsg", "sendmsg", "send"}, {"close"}>>>>,
  <<<<{"socket"}, {"fork"}, {"ppoll", "select"}>>, <<{"read", "close"}, {"close"}>>>>,
  <<<<{"open"}, {"write", "mkdir"}, {"read", "lseek", "getdents"}, {"read"}>>, <<>>>>}
=============================================================================
