----------------------------- MODULE Ext2Mount -----------------------------
(***************************************************************************)
(* Opening, mounting, syncing and unmounting an ext2 filesystem            *)
(* (filesystems/kor-ext2/src/lib.rs and the mount and unmount of           *)
(* kor-fs/src/mount.rs) over the block cache.  The superblock and the      *)
(* group descriptors live in memory and are written, with every backup     *)
(* copy, by sync and unmount; their counters count what the bitmaps hold   *)
(* and stand here for the set of what they count.                          *)
(* A call holds the metadata transaction to its end, but the device and a  *)
(* power failure come between any two of its accesses to the cache.        *)
(*                                                                         *)
(* One task uses the filesystem: no change overlaps or follows an unmount. *)
(* The filesystem is not read-only.                                        *)
(***************************************************************************)
EXTENDS BlockCache

CONSTANTS Supers,      \* the blocks with a copy of the superblock, the primary first
          Descs,       \* the blocks with a copy of the group descriptors, likewise
          Unit,        \* what the bitmaps account for: blocks and inodes
          BitmapOf,    \* the block with the bit of each
          MaxFaults    \* bound on the failures

ASSUME Ext2MountAssumption ==
  /\ Supers \in Seq(Block) /\ Supers # <<>>
  /\ Descs \in Seq(Block) /\ Descs # <<>>
  /\ Range(Supers) \cap Range(Descs) = {}
  /\ BitmapOf \in [Unit -> Block \ (Range(Supers) \cup Range(Descs))]
  /\ [clean : BOOLEAN, n : SUBSET Unit] \subseteq Value
  /\ MaxFaults \in Nat

VARIABLES
  sb,        \* super_block: EXT2_VALID_FS and the counters
  bg,        \* block_groups: the counters
  previous,  \* the marker as the call found it
  st,        \* what has become of the filesystem
  call,      \* the call it is in
  accesses,  \* the accesses to the cache that are left of the call
  faults,
  checked,   \* history: no image that was not marked clean has been opened
  exposed    \* history: an unmount has failed after it had set the marker

fsVars    == <<sb, bg, previous, st, call, accesses>>
historyVars == <<checked, exposed>>
mountVars == <<vars, fsVars, faults, historyVars>>

Primary == Supers[1]
Content(clean, n) == [clean |-> clean, n |-> n]

\* A filesystem as mkfs leaves it, opened.
MountInit ==
  /\ cache = Empty /\ order = <<>>
  /\ vol = [b \in Block |-> Content(b \in Range(Supers), {})]
  /\ disk = vol /\ latest = vol /\ since = [b \in Block |-> {vol[b]}]
  /\ sb = Content(TRUE, {}) /\ bg = {} /\ previous = TRUE
  /\ st = "open" /\ call = "none" /\ accesses = <<>> /\ faults = 0
  /\ checked = TRUE /\ exposed = FALSE

(***************************************************************************)
(* The accesses to the cache that the calls consist of                     *)
(***************************************************************************)
Access(op, b) == [op |-> op, b |-> b]
Barrier == <<Access("sync", Primary)>>

\* A read and a write for each of the blocks.
Patched(blocks, op) ==
  [i \in 1..(2 * Len(blocks)) |->
     IF i % 2 = 1 THEN Access("read", blocks[(i + 1) \div 2]) ELSE Access(op, blocks[i \div 2])]

\* write_super_block, patch_super_block_copy
WriteSuperBlock == Patched(Supers, "super")
\* write_block_group_descriptors, write_bgdt_at
WriteBlockGroupDescriptors == Patched(Descs, "desc")
\* sync, and the first half of on_unmount
Flush == WriteSuperBlock \o WriteBlockGroupDescriptors \o Barrier

Busy(c, left) == call' = c /\ accesses' = left
Quiet == UNCHANGED <<vars, faults>>

(***************************************************************************)
(* The calls                                                               *)
(***************************************************************************)

\* Ext2Fs::open, on what the device answers; the cache is new.
Open ==
  /\ st \in {"closed", "unmounted", "failed"} /\ call = "none"
  /\ cache' = Empty /\ order' = <<>>
  /\ latest' = vol
  /\ sb' = vol[Primary] /\ bg' = vol[Descs[1]].n
  /\ st' = "open"
  /\ checked' = (checked /\ vol[Primary].clean)
  /\ UNCHANGED <<devVars, since, previous, call, accesses, faults, exposed>>

\* mount: on_mount clears the marker in memory and makes that durable.
Mount ==
  /\ st = "open" /\ call = "none"
  /\ previous' = sb.clean /\ sb' = [sb EXCEPT !.clean = FALSE]
  /\ Busy("mount", WriteSuperBlock \o Barrier)
  /\ Quiet /\ UNCHANGED <<bg, st, historyVars>>

SyncCall ==
  /\ st = "mounted" /\ call = "none"
  /\ Busy("sync", Flush)
  /\ Quiet /\ UNCHANGED <<sb, bg, previous, st, historyVars>>

\* A slip: the marker is set at once.
UnmountMarked ==
  /\ st = "mounted" /\ call = "none"
  /\ sb' = [sb EXCEPT !.clean = TRUE]
  /\ Busy("flush", Flush)
  /\ Quiet /\ UNCHANGED <<bg, previous, st, historyVars>>

\* unmount: on_unmount makes everything durable first ...
Unmount ==
  /\ st = "mounted" /\ call = "none"
  /\ Busy("flush", Flush)
  /\ Quiet /\ UNCHANGED <<sb, bg, previous, st, historyVars>>

\* An operation that allocates or frees u, in the bitmap and in the counters.  (One
\* whose own access to the device fails is left to Ext2Meta.)
Change(u) ==
  LET b == BitmapOf[u]
      Flip(S) == IF u \in latest[b].n THEN S \ {u} ELSE S \cup {u}
  IN
  /\ st = "mounted" /\ call = "none"
  /\ WriteBlockCached(b, Content(FALSE, Flip(latest[b].n)))
  /\ Cached(b) \/ Cardinality(DOMAIN cache') <= MaxBlocks
  /\ sb' = Content(sb.clean, Flip(sb.n)) /\ bg' = Flip(bg)
  /\ UNCHANGED <<previous, st, call, accesses, faults, historyVars>>

(***************************************************************************)
(* The steps of a call                                                     *)
(***************************************************************************)

\* The call goes on to its next access ...
Continues == accesses' = Tail(accesses) /\ UNCHANGED <<sb, bg, st, call, faults, historyVars>>

\* ... or the access has failed.  on_mount and the second half of on_unmount put the
\* marker back as it was and write the superblock once more, whatever comes of that.
Fails ==
  /\ faults < MaxFaults /\ faults' = faults + 1
  /\ \/ /\ call \in {"mount", "mark"}
        /\ sb' = [sb EXCEPT !.clean = previous]
        /\ Busy("back", WriteSuperBlock)
        /\ st' = IF call = "mount" THEN "failed" ELSE st
        /\ exposed' = (exposed \/ call = "mark")
     \/ /\ call \in {"sync", "flush", "back"}
        /\ Busy("none", <<>>)
        /\ UNCHANGED <<sb, st, exposed>>
  /\ UNCHANGED <<bg, checked>>

\* The cache has no more blocks than it may hold, unless a victim could not be written.
Outcome(b) ==
  IF Cached(b) \/ Cardinality(DOMAIN cache') <= MaxBlocks THEN Continues ELSE Fails

\* The next access of the call.  A read the device refuses changes nothing.
Step ==
  /\ accesses # <<>>
  /\ UNCHANGED previous
  /\ LET a == Head(accesses) IN
     \/ a.op = "read" /\ ReadBlockCached(a.b) /\ Outcome(a.b)
     \/ a.op = "read" /\ ~Cached(a.b) /\ UNCHANGED vars /\ Fails
     \/ a.op = "super" /\ WriteBlockCached(a.b, sb) /\ Outcome(a.b)
     \/ a.op = "desc" /\ WriteBlockCached(a.b, Content(FALSE, bg)) /\ Outcome(a.b)
     \/ a.op = "sync" /\ WriteBack(Block) /\ Continues
     \/ a.op = "sync" /\ WriteBackFails(Block) /\ Fails

\* A slip: no barrier after the marker.
ReturnUnsynced ==
  /\ accesses = <<>> /\ call # "none"
  /\ IF call = "flush"
     THEN /\ previous' = sb.clean /\ sb' = [sb EXCEPT !.clean = TRUE]
          /\ Busy("mark", WriteSuperBlock)
     ELSE Busy("none", <<>>) /\ UNCHANGED <<sb, previous>>
  /\ st' = CASE call = "mount" -> "mounted" [] call = "mark" -> "unmounted" [] OTHER -> st
  /\ exposed' = (exposed /\ call = "back")
  /\ Quiet /\ UNCHANGED <<bg, checked>>

\* The last access is done.  ... only then on_unmount sets the marker and makes it
\* durable as well.
Return ==
  /\ accesses = <<>> /\ call # "none"
  /\ IF call = "flush"
     THEN /\ previous' = sb.clean /\ sb' = [sb EXCEPT !.clean = TRUE]
          /\ Busy("mark", WriteSuperBlock \o Barrier)
     ELSE Busy("none", <<>>) /\ UNCHANGED <<sb, previous>>
  /\ st' = CASE call = "mount" -> "mounted" [] call = "mark" -> "unmounted" [] OTHER -> st
  /\ exposed' = (exposed /\ call = "back")
  /\ Quiet /\ UNCHANGED <<bg, checked>>

\* The power fails; what was in doubt stays so.
PowerFailure ==
  /\ Crash
  /\ st' = "closed" /\ Busy("none", <<>>)
  /\ checked' = (checked /\ ~exposed) /\ exposed' = FALSE
  /\ UNCHANGED <<sb, bg, previous, faults>>

DevicePersists == \E b \in Block : Persist(b) /\ UNCHANGED <<fsVars, faults, historyVars>>

MountNext ==
  \/ Open \/ Mount \/ SyncCall \/ Unmount \/ \E u \in Unit : Change(u)
  \/ Step \/ Return
  \/ DevicePersists \/ PowerFailure

MountSpec == MountInit /\ [][MountNext]_mountVars

(***************************************************************************)
(* Properties                                                              *)
(***************************************************************************)

\* The counters of the image d are those of its bitmaps.
Used(d) == {u \in Unit : u \in d[BitmapOf[u]].n}
Consistent(d) == d[Primary].n = Used(d) /\ d[Descs[1]].n = Used(d)

\* Whenever the power fails, an image that is marked clean has counters that agree with
\* its bitmaps: on_mount makes the removal of the marker durable before the first
\* change, and on_unmount makes every change durable before it sets the marker.
\* Excepted are an image that had been opened although it was not marked clean (open
\* never looks at the marker) and the time after a failed unmount up to the next sync.
CleanIsConsistent ==
  (checked /\ ~exposed /\ disk[Primary].clean) => Consistent(disk)

\* Once unmount has returned Ok, no power failure undoes it: every copy of the
\* superblock carries the marker and the last counters, and every block is on the disk
\* as it was last stored.
UnmountIsDurable ==
  st = "unmounted" =>
    /\ \A b \in Range(Supers) : disk[b] = Content(TRUE, sb.n)
    /\ disk = latest

(***************************************************************************)
(* The inductive invariant behind them                                     *)
(***************************************************************************)
Contents == [clean : BOOLEAN, n : SUBSET Unit]
Synced == disk = latest /\ vol = latest

MountTypeOK ==
  /\ {vol, disk, latest} \subseteq [Block -> Contents]
  /\ sb \in Contents /\ bg \in SUBSET Unit /\ previous \in BOOLEAN
  /\ accesses \in Seq([op : {"read", "super", "desc", "sync"}, b : Block])
  /\ \/ call = "none" /\ st \in {"closed", "open", "failed", "unmounted", "mounted"}
     \/ call = "mount" /\ st = "open"
     \/ call = "back" /\ st \in {"failed", "mounted"}
     \/ call \in {"sync", "flush", "mark"} /\ st = "mounted"

\* A call ends with its only barrier, if it has one, and until then the superblock and
\* the descriptors are stored or still to be stored: behind the barrier they are on
\* the disk.
Ordered ==
  LET left == Range(accesses) IN
  /\ call = "none" => accesses = <<>>
  /\ \A i \in 1..Len(accesses) :
       LET a == accesses[i] IN
       /\ a.op = "sync" <=> (i = Len(accesses) /\ call # "back")
       /\ a.op = "super" => a.b \in Range(Supers)
       /\ a.op = "desc" => a.b \in Range(Descs) /\ call \in {"sync", "flush"}
  /\ call # "none" =>
       \A b \in Range(Supers) : latest[b] = sb \/ Access("super", b) \in left
  /\ call \in {"sync", "flush"} =>
       \A b \in Range(Descs) : latest[b] = Content(FALSE, bg) \/ Access("desc", b) \in left
  /\ (accesses = <<>> /\ call \notin {"none", "back"}) \/ st \in {"closed", "unmounted"} => Synced

\* The marker is off, in memory and wherever it may be read from, while the filesystem
\* is mounted, up to the last part of an unmount.
Marked ==
  /\ exposed => st = "mounted"
  /\ call = "mount" => ~sb.clean
  /\ st = "mounted" /\ call # "mark" =>
       /\ ~sb.clean
       /\ exposed \/ \A d \in {disk, vol, latest} : ~d[Primary].clean
  /\ call = "mark" => sb.clean /\ ~previous /\ ~exposed
  /\ st = "unmounted" => sb.clean /\ \A b \in Range(Supers) : latest[b] = sb

\* The counters in memory are those of the bitmaps.  Outside the time when it is
\* mounted, nothing the device or a write can still bring back tells otherwise.
Counted ==
  checked =>
    /\ st = "mounted" => sb.n = Used(latest) /\ bg = Used(latest)
    /\ st \in {"open", "failed", "unmounted"} \/ call = "mark" =>
         /\ \A b \in {Primary, Descs[1]} \cup Range(BitmapOf), d \in {disk, vol} :
              d[b].n = latest[b].n
         /\ sb.n = latest[Primary].n /\ bg = latest[Descs[1]].n
         /\ Consistent(latest)
    /\ st = "closed" => CleanIsConsistent

MountInv == CacheInv /\ MountTypeOK /\ Ordered /\ Marked /\ Counted

=============================================================================
