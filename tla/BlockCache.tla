----------------------------- MODULE BlockCache -----------------------------
(***************************************************************************)
(* The write-back LRU block cache of kor-fs over a block device with a     *)
(* volatile cache of its own.  Every operation runs under the lock of the  *)
(* cache and is one action, with one disjunct per point where the device   *)
(* may fail.  A crash in the middle of an operation leaves the device as   *)
(* the failure at that point does, so Crash between operations covers it.  *)
(* A failed read of the device changes nothing and is left out.            *)
(***************************************************************************)
EXTENDS Naturals, Sequences, FiniteSets, Functions

CONSTANTS Block, Value,
          Zero,         \* what the device holds at first
          MaxBlocks     \* max_blocks

ASSUME BlockCacheAssumption ==
  /\ Block \subseteq Nat
  /\ IsFiniteSet(Block)
  /\ Zero \in Value
  /\ MaxBlocks \in Nat

VARIABLES
  cache,     \* the cached blocks: id -> [data, dirty]
  order,     \* access_order, least recently used first
  vol,       \* what the device answers
  disk,      \* what it answers after a power failure
  latest,    \* history: the last value stored in each block
  since      \* history: the values a power failure may leave in each block

devVars   == <<vol, disk>>
ghostVars == <<latest, since>>
vars == <<cache, order, devVars, ghostVars>>

Entry == [data : Value, dirty : BOOLEAN]

StoreTypeOK ==
  /\ DOMAIN cache \subseteq Block
  /\ cache \in [DOMAIN cache -> Entry]
  /\ vol \in [Block -> Value]
  /\ disk \in [Block -> Value]
  /\ latest \in [Block -> Value]
  /\ since \in [Block -> SUBSET Value]

TypeOK == StoreTypeOK /\ order \in Seq(Block)

\* BlockCache::new
Empty == [b \in {} |-> Zero]

Init ==
  /\ cache = Empty
  /\ order = <<>>
  /\ vol = [b \in Block |-> Zero]
  /\ disk = vol
  /\ latest = vol
  /\ since = [b \in Block |-> {Zero}]

(***************************************************************************)
(* Helpers                                                                 *)
(***************************************************************************)
Cached(b) == b \in DOMAIN cache
Dirty(c, S) == {b \in S \cap DOMAIN c : c[b].dirty}
Clean(c, S) == [b \in DOMAIN c |-> IF b \in S THEN [c[b] EXCEPT !.dirty = FALSE] ELSE c[b]]
Drop(c, S)  == [b \in DOMAIN c \ S |-> c[b]]
Put(c, b, data, dirty) ==
  [x \in DOMAIN c \cup {b} |-> IF x = b THEN [data |-> data, dirty |-> dirty] ELSE c[x]]

\* The device after the cached data of S has been written to it.
WrittenBack(c, S) == [b \in Block |-> IF b \in S THEN c[b].data ELSE vol[b]]

\* touch: to the most-recently-used end.
Touch(b) == Append(SelectSeq(order, LAMBDA x : x # b), b)

\* The blocks of S written before a failure, in the order of their numbers.
WrittenFirst(S) == {{b \in S : b < n} : n \in S \cup {x + 1 : x \in S}} \cup {{}}

\* A successful barrier: what is in S is durable now.
Durable(S) == since' = [b \in Block |-> IF b \in S THEN {latest'[b]} ELSE since[b]]

Store(b, v) ==
  /\ latest' = [latest EXCEPT ![b] = v]
  /\ since' = [since EXCEPT ![b] = @ \cup {v}]

(***************************************************************************)
(* evict_if_needed, on the cache c with access order o, after a write of   *)
(* `stored` (no block or one).  The victims are the first blocks of o; a   *)
(* dirty one is written and flushed before it goes.                        *)
(***************************************************************************)
Excess(c) == IF Cardinality(DOMAIN c) > MaxBlocks THEN Cardinality(DOMAIN c) - MaxBlocks ELSE 0

\* The first k victims go.  The device sees the dirty ones.
Evict(c, o, k) ==
  /\ cache' = Drop(c, Range(SubSeq(o, 1, k)))
  /\ order' = SubSeq(o, k + 1, Len(o))

EvictIfNeeded(c, o, b, v, write) ==
  /\ latest' = IF write THEN [latest EXCEPT ![b] = v] ELSE latest
  /\ \E k \in 0..Excess(c) :
       LET gone == Dirty(c, Range(SubSeq(o, 1, k)))
           kept == IF write THEN [since EXCEPT ![b] = @ \cup {v}] ELSE since
       IN
       /\ Evict(c, o, k)
       /\ disk' = IF gone = {} THEN disk ELSE WrittenBack(c, gone)
       /\ since' = [x \in Block |-> IF x \in gone THEN {latest'[x]} ELSE kept[x]]
       /\ \/ k = Excess(c) /\ vol' = WrittenBack(c, gone)
          \* the write or the barrier of the next victim fails
          \/ /\ k < Excess(c) /\ o[k + 1] \in Dirty(c, Block)
             /\ vol' \in {WrittenBack(c, gone), WrittenBack(c, gone \cup {o[k + 1]})}

(***************************************************************************)
(* The operations                                                          *)
(***************************************************************************)
ReadBlockCached(b) ==
  \/ /\ Cached(b)
     /\ order' = Touch(b)
     /\ UNCHANGED <<cache, devVars, ghostVars>>
  \/ /\ ~Cached(b)
     /\ EvictIfNeeded(Put(cache, b, vol[b], FALSE), Append(order, b), b, vol[b], FALSE)

WriteBlockCached(b, v) ==
  \/ /\ Cached(b)
     /\ cache' = Put(cache, b, v, TRUE)
     /\ order' = Touch(b)
     /\ Store(b, v)
     /\ UNCHANGED devVars
  \/ /\ ~Cached(b)
     /\ EvictIfNeeded(Put(cache, b, v, TRUE), Append(order, b), b, v, TRUE)

\* A slip: no barrier.
WriteBackOnly(S, lost) ==
  /\ vol' = WrittenBack(cache, Dirty(cache, S))
  /\ cache' = Clean(cache, S)
  /\ UNCHANGED <<order, disk, latest>>
  /\ Durable(S \ lost)

\* sync(), and flush_range() on the blocks S: the dirty ones are written, then the
\* barrier makes everything the device was given durable, also what is not in S.  The last
\* value of some blocks may have been lost before, by invalidate_range.
WriteBackBut(S, lost) ==
  /\ vol' = WrittenBack(cache, Dirty(cache, S))
  /\ disk' = vol'
  /\ cache' = Clean(cache, S)
  /\ UNCHANGED <<order, latest>>
  /\ Durable(S \ lost)
WriteBack(S) == WriteBackBut(S, {})

\* One of the writes, or the barrier, fails: the flags stay.
WriteBackFails(S) ==
  /\ \E P \in WrittenFirst(Dirty(cache, S)) : vol' = WrittenBack(cache, P)
  /\ UNCHANGED <<cache, order, disk, ghostVars>>

FlushRange(S) == WriteBack(S) \/ WriteBackFails(S)
Sync == WriteBack(Block) \/ WriteBackFails(Block)

(***************************************************************************)
(* The device (external): it may write its volatile cache back at any      *)
(* time.  A power failure loses that cache and the one in memory.          *)
(***************************************************************************)
Persist(b) ==
  /\ vol[b] # disk[b]
  /\ disk' = [disk EXCEPT ![b] = vol[b]]
  /\ UNCHANGED <<cache, order, vol, ghostVars>>

Crash ==
  /\ cache' = Empty
  /\ order' = <<>>
  /\ vol' = disk
  /\ latest' = disk
  /\ since' = [b \in Block |-> {disk[b]}]
  /\ UNCHANGED disk

Interval == {{x \in Block : i <= x /\ x <= j} : i, j \in Block} \ {{}}

Next ==
  \/ \E b \in Block : ReadBlockCached(b) \/ Persist(b)
  \/ \E b \in Block, v \in Value : WriteBlockCached(b, v)
  \/ \E S \in Interval : FlushRange(S)
  \/ Sync
  \/ Crash

Spec == Init /\ [][Next]_vars

(***************************************************************************)
(* Properties                                                              *)
(***************************************************************************)

\* After a power failure a block holds a value it had at, or since, the last
\* barrier that covered it: a successful sync, flush_range or eviction is never
\* undone, and a failed one never takes a block back to an older value.
Recoverable == \A b \in Block : disk[b] \in since[b]

\* The inductive invariant behind it.  A dirty entry is what was last stored in its block;
\* else the device has that, but for blocks whose last value is lost; and a clean entry is
\* what the device has, unless it is stale.  Both what the device answers now and what it
\* would answer after a power failure date from the last barrier or later.  Which entries
\* are evicted does not matter: `order` is free.
IsDirty(b) == Cached(b) /\ cache[b].dirty

CoherentBut(lost, stale) ==
  \A b \in Block :
    /\ IsDirty(b) => b \notin lost /\ latest[b] = cache[b].data
    /\ b \notin lost /\ ~IsDirty(b) => latest[b] = vol[b]
    /\ b \notin stale /\ Cached(b) /\ ~IsDirty(b) => cache[b].data = vol[b]

Dated == \A b \in Block : {disk[b], vol[b], latest[b]} \subseteq since[b]

CacheBut(lost, stale) == StoreTypeOK /\ CoherentBut(lost, stale) /\ Dated
CacheInv == CacheBut({}, {})
=============================================================================
