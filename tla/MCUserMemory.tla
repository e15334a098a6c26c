---------------------------- MODULE MCUserMemory ----------------------------
EXTENDS UserMemory

\* A program with two segments that share its only page.
MCImages == {<<[first |-> 0, last |-> 0, flags |-> {"R", "X"}],
               [first |-> 0, last |-> 0, flags |-> {"R", "W"}]>>}
MCRanges == {<<0, 0>>, <<3, 4>>}
MCFlags  == {{"R", "W"}, {}}

\* Replacing pages while another processor allocates; unmapping and allocating what was
\* written; executing programs and leaving.
MCPrograms == {<<{"fork", "brk"}, {"fixed", "mprotect"}>>,
               <<{"fork", "mmap"}, {"write", "munmap"}>>,
               <<{"fork", "brk"}, {"write", "munmap", "mremap"}>>,
               <<{"fork", "execve", "brk"}, {"execve", "brk", "exit"}>>}
=============================================================================
