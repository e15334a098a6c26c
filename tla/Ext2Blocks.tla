----------------------------- MODULE Ext2Blocks -----------------------------
(***************************************************************************)
(* The filesystem-block I/O of kor-ext2 over the block cache: single       *)
(* blocks go through the cache; runs of whole blocks bypass it, after      *)
(* read_fs_blocks has flushed the range or write_fs_blocks has dropped it. *)
(* Between that and the device request the lock of the cache is free.      *)
(* Writers hold the metadata transaction; Ext2INode::read_at holds nothing.*)
(* A filesystem block is one device block here (per = 1).                  *)
(***************************************************************************)
EXTENDS BlockCache

CONSTANTS Task, None

ASSUME Ext2BlocksAssumption == None \notin Task

VARIABLES
  txn,     \* the task inside the metadata transaction
  todo,    \* the run each task is about to transfer: an interval, or {}
  lost,    \* history: blocks whose last value a bulk write has thrown away with the cache
           \* entry, and neither it nor a later write has replaced
  stale,   \* history: entries that a reader cached anew between the two halves of the bulk
           \* write that then changed the block
  seen     \* history: the values of each block since a task began to read it in bulk

ext2Vars == <<vars, txn, todo, lost, stale, seen>>

Ext2Init ==
  /\ Init
  /\ txn = None
  /\ todo = [t \in Task |-> {}]
  /\ lost = {} /\ stale = {}
  /\ seen = [t \in Task |-> [b \in Block |-> {}]]

\* A stale entry is one until it leaves the cache or is written.
KeepStale == stale' = {b \in stale \cap DOMAIN cache' : ~cache'[b].dirty}

Idle(t) == txn # t /\ todo[t] = {}

\* write_at: lock_metadata_transaction(), and its guard dropped on return.
Begin(t) == Idle(t) /\ txn = None /\ txn' = t /\ UNCHANGED <<vars, todo, lost, stale>>
End(t)   == txn = t /\ todo[t] = {} /\ txn' = None /\ UNCHANGED <<vars, todo, lost, stale>>

\* read_fs_block and write_fs_block (the partial blocks of read_at and write_at).
ReadFsBlock(t, b) ==
  /\ todo[t] = {}
  /\ ReadBlockCached(b)
  /\ KeepStale
  /\ UNCHANGED <<txn, todo, lost>>

WriteFsBlock(t, b, v) ==
  /\ txn = t /\ todo[t] = {}
  /\ WriteBlockCached(b, v)
  /\ lost' = lost \ {b}
  /\ KeepStale
  /\ UNCHANGED <<txn, todo>>

\* A slip: the range is not flushed.
ReadFsBlocksStale(t, S) ==
  /\ Idle(t)
  /\ todo' = [todo EXCEPT ![t] = S]
  /\ UNCHANGED <<vars, txn, lost, stale>>

\* read_fs_blocks: flush_range under the lock; its failure is the caller's error ...
ReadFsBlocks(t, S) ==
  /\ Idle(t)
  /\ \/ WriteBackBut(S, lost) /\ todo' = [todo EXCEPT ![t] = S]
     \/ WriteBackFails(S) /\ UNCHANGED todo
  /\ KeepStale
  /\ UNCHANGED <<txn, lost>>

\* ... and device.read_blocks without it.
DirectRead(t) ==
  /\ txn # t /\ todo[t] # {}
  /\ todo' = [todo EXCEPT ![t] = {}]
  /\ UNCHANGED <<vars, txn, lost, stale>>

InvalidateClean(S) ==
  /\ cache' = Drop(cache, S \ Dirty(cache, S))
  /\ order' = SelectSeq(order, LAMBDA x : x \in DOMAIN cache')

\* write_fs_blocks: invalidate_range under the lock ...
InvalidateRange(S) ==
  /\ cache' = Drop(cache, S)
  /\ order' = SelectSeq(order, LAMBDA x : x \notin S)

WriteFsBlocks(t, S) ==
  /\ txn = t /\ todo[t] = {}
  /\ InvalidateRange(S)
  /\ todo' = [todo EXCEPT ![t] = S]
  /\ lost' = lost \cup Dirty(cache, S)
  /\ KeepStale
  /\ UNCHANGED <<devVars, ghostVars, txn>>

\* ... and device.write_blocks without it.  A failed request has written some of the blocks,
\* W; the others keep what the device has, and what was last stored in them is what it was.
DirectWrite(t) ==
  LET S == todo[t] IN
  /\ txn = t /\ S # {}
  /\ \E data \in [S -> Value], W \in SUBSET S :
       /\ vol' = [b \in Block |-> IF b \in W THEN data[b] ELSE vol[b]]
       /\ latest' = [b \in Block |-> IF b \in W THEN data[b] ELSE latest[b]]
       /\ since' = [b \in Block |-> IF b \in S THEN since[b] \cup {data[b]} ELSE since[b]]
       /\ lost' = lost \ W
       /\ stale' = stale \cup (W \cap DOMAIN cache)
  /\ todo' = [todo EXCEPT ![t] = {}]
  /\ UNCHANGED <<cache, order, disk, txn>>

\* Sync (Ext2Fs::sync) runs inside the transaction.
SyncFs(t) ==
  /\ txn = t /\ todo[t] = {}
  /\ WriteBackBut(Block, lost) \/ WriteBackFails(Block)
  /\ KeepStale
  /\ UNCHANGED <<txn, todo, lost>>

Device == (\E b \in Block : Persist(b)) /\ UNCHANGED <<txn, todo, lost, stale>>

\* A power failure: locks and transfers are gone with the memory.
PowerCut ==
  /\ Crash
  /\ txn' = None
  /\ todo' = [t \in Task |-> {}]
  /\ lost' = {} /\ stale' = {}

Action ==
  \/ Device
  \/ PowerCut
  \/ \E t \in Task :
       \/ Begin(t) \/ End(t) \/ SyncFs(t) \/ DirectRead(t) \/ DirectWrite(t)
       \/ \E b \in Block : ReadFsBlock(t, b) \/ \E v \in Value : WriteFsBlock(t, b, v)
       \/ \E S \in Interval : ReadFsBlocks(t, S) \/ WriteFsBlocks(t, S)

\* A block has the value last stored in it; if that was lost, what the device has.
Reading(t) == txn # t /\ todo[t] # {}
Current(b) == {latest[b]} \cup (IF b \in lost THEN {vol[b]} ELSE {})
Watch ==
  seen' = [t \in Task |-> [b \in Block |->
             IF Reading(t)' THEN Current(b)' \cup (IF Reading(t) THEN seen[t][b] ELSE {}) ELSE {}]]

Ext2Next == Action /\ Watch

Ext2Spec == Ext2Init /\ [][Ext2Next]_ext2Vars

(***************************************************************************)
(* Properties                                                              *)
(***************************************************************************)

\* "Cached entries are kept (and remain valid, matching the device)": a block reads as it
\* was last written, by whichever path and whichever of the writes, barriers and evictions
\* before failed, and only a dirty block may differ from the device; but for a block that
\* was dirty when a bulk write dropped it, until it is written again (invalidate_range
\* trusts the bulk write not to fail), and for an entry that a reader cached in the middle
\* of a bulk write.
BypassCoherent ==
  \A b \in Block \ (lost \cup stale) :
    /\ latest[b] = IF Cached(b) THEN cache[b].data ELSE vol[b]
    /\ Cached(b) => cache[b].dirty \/ cache[b].data = vol[b]

\* "so a direct (bypass-cache) read of that range sees the latest data": whenever the device
\* answers a bulk read, each block has a value that was current at the flush or has become
\* so since, whatever writers, evictions and other readers do in between.
BulkReadSeesLatest ==
  \A t \in Task : Reading(t) => \A b \in todo[t] : vol[b] \in seen[t][b]

\* The inductive invariant behind the three: in addition, no block that is being written in
\* bulk is dirty, and a reader may also see the value to come.
Ext2TypeOK ==
  /\ StoreTypeOK
  /\ txn \in Task \cup {None}
  /\ todo \in [Task -> SUBSET Block]

Ext2Inv ==
  /\ Ext2TypeOK /\ Dated
  /\ CoherentBut(lost, stale)
  /\ \A t \in Task : txn = t => \A b \in todo[t] : ~IsDirty(b)
  /\ \A t \in Task : Reading(t) => \A b \in todo[t] : {vol[b], latest[b]} \subseteq seen[t][b]
=============================================================================
