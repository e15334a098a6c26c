------------------------------ MODULE Ext2Dir ------------------------------
(***************************************************************************)
(* The linear directories of filesystems/kor-ext2/src/dir.rs.  A directory *)
(* is a sequence of blocks and a block a sequence of records, each with an *)
(* inode number (0 when deleted), its length rec_len and a name.  Lengths  *)
(* are in units of four bytes, the alignment of records.                   *)
(***************************************************************************)
EXTENDS Naturals, Sequences, SequencesExt, FiniteSets

CONSTANTS DirBlock,      \* the length of a block
          Name,          \* the names files are given, besides "." and ".."
          NameLength     \* name -> its length

HeaderSize == 2          \* DIR_ENTRY_HEADER_SIZE
MinEntry   == 3

Dots == {".", ".."}
\* The name of the free rest of a record is a piece of an older name.
Stale == "?"

\* entry_size
EntrySize(nm) ==
  LET length == IF nm \in Name THEN NameLength[nm] ELSE 1
  IN IF HeaderSize + length < MinEntry THEN MinEntry ELSE HeaderSize + length

Record(ino, rec, nm) == [ino |-> ino, rec |-> rec, name |-> nm]

\* Positions <<block, record>> of a directory, and the first of some of them.
Positions(d) == UNION {{<<i, j>> : j \in DOMAIN d[i]} : i \in DOMAIN d}
At(d, x) == d[x[1]][x[2]]
FirstOf(S) == CHOOSE x \in S : \A y \in S : x[1] < y[1] \/ (x[1] = y[1] /\ x[2] <= y[2])

\* DirIterator and lookup: the first live record of the name, 0 when there is none.
Holds(d, nm) == {x \in Positions(d) : At(d, x).ino # 0 /\ At(d, x).name = nm}
LookupName(d, nm) == IF Holds(d, nm) = {} THEN 0 ELSE At(d, FirstOf(Holds(d, nm))).ino

\* list, without the dots
Listed(d) == {At(d, x).name : x \in {y \in Positions(d) : At(d, y).ino # 0}} \ Dots

\* add_dir_entry, its first case: a deleted record that is long enough; what is left of it
\* becomes a record of its own when a header fits.
Reuse(block, j, ino, nm) ==
  LET left == block[j].rec - EntrySize(nm) IN
  SubSeq(block, 1, j - 1)
    \o (IF left >= HeaderSize
        THEN <<Record(ino, EntrySize(nm), nm), Record(0, left, Stale)>>
        ELSE <<Record(ino, block[j].rec, nm)>>)
    \o SubSeq(block, j + 1, Len(block))

\* Its second case: the last record gives up what its name does not need.
Split(block, ino, nm) ==
  LET last == Last(block) IN
  Front(block) \o <<[last EXCEPT !.rec = EntrySize(last.name)],
                    Record(ino, last.rec - EntrySize(last.name), nm)>>

\* A slip: any deleted record will do.
AddDirEntryAny(d, nm, ino) ==
  LET need == EntrySize(nm)
      free == {x \in Positions(d) : At(d, x).ino = 0}
      last == Last(Last(d))
  IN CASE free # {} -> LET x == FirstOf(free) IN
            [result |-> "ok", at |-> x[1], block |-> Reuse(d[x[1]], x[2], ino, nm)]
       [] free = {} /\ d # <<>> /\ last.rec < EntrySize(last.name) -> [result |-> "panic"]
       [] free = {} /\ d # <<>> /\ last.rec >= need + EntrySize(last.name) ->
            [result |-> "ok", at |-> Len(d), block |-> Split(Last(d), ino, nm)]
       [] OTHER -> [result |-> "ok", at |-> Len(d) + 1, block |-> <<Record(ino, DirBlock, nm)>>]

\* add_dir_entry: which block is written (one past the last is a new one) and what with.
\* The length a last record can give up is computed without a check (dir.rs:387): when
\* the name is said to be longer than the record, as with a rest of two units, the
\* subtraction overflows or the slice after it is out of range.
AddDirEntry(d, nm, ino) ==
  LET need == EntrySize(nm)
      free == {x \in Positions(d) : At(d, x).ino = 0 /\ At(d, x).rec >= need}
      last == Last(Last(d))
  IN CASE free # {} -> LET x == FirstOf(free) IN
            [result |-> "ok", at |-> x[1], block |-> Reuse(d[x[1]], x[2], ino, nm)]
       [] free = {} /\ d # <<>> /\ last.rec < EntrySize(last.name) -> [result |-> "panic"]
       [] free = {} /\ d # <<>> /\ last.rec >= need + EntrySize(last.name) ->
            [result |-> "ok", at |-> Len(d), block |-> Split(Last(d), ino, nm)]
       [] OTHER -> [result |-> "ok", at |-> Len(d) + 1, block |-> <<Record(ino, DirBlock, nm)>>]

\* remove_dir_entry: the record is deleted, and takes in a deleted one that follows it in
\* its block.
RemoveDirEntry(d, nm) ==
  LET x == FirstOf(Holds(d, nm))
      b == d[x[1]]
      j == x[2]
  IN [at |-> x[1],
      block |-> IF j < Len(b) /\ b[j + 1].ino = 0
                THEN SubSeq(b, 1, j - 1) \o <<Record(0, b[j].rec + b[j + 1].rec, nm)>>
                       \o SubSeq(b, j + 2, Len(b))
                ELSE [b EXCEPT ![j].ino = 0]]

\* The blocks tile their length and no record is too short for its live name; no two live
\* records have one name.
BlockLength(block) == FoldLeft(LAMBDA n, r : n + r.rec, 0, block)
WellFormed(d) ==
  /\ \A i \in DOMAIN d : BlockLength(d[i]) = DirBlock
  /\ \A x \in Positions(d) : At(d, x).ino # 0 => At(d, x).rec >= EntrySize(At(d, x).name)
  /\ \A x, y \in Positions(d) :
       At(d, x).ino # 0 /\ At(d, y).ino # 0 /\ At(d, x).name = At(d, y).name => x = y
=============================================================================
