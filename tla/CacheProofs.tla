---------------------------- MODULE CacheProofs -----------------------------
(***************************************************************************)
(* The block cache never loses what a barrier made durable, whatever its   *)
(* size, the order of eviction and the failures of the device; and the bulk *)
(* transfers of kor-ext2, which bypass it, stay coherent with it.  An ext2 *)
(* image that is marked clean is consistent whenever the power fails, and  *)
(* a successful unmount is durable.                                        *)
(***************************************************************************)
EXTENDS Ext2Blocks, Ext2Mount, TLAPS

USE BlockCacheAssumption, Ext2BlocksAssumption

\* What a cache may be.
LEMMA EntryOp ==
  ASSUME NEW e \in Entry
  PROVE  /\ [e EXCEPT !.dirty = FALSE] \in Entry
         /\ [e EXCEPT !.dirty = FALSE].data = e.data
         /\ [e EXCEPT !.dirty = FALSE].dirty = FALSE
         /\ e.data \in Value
  BY ZenonT(30) DEF Entry

\* The device after a write-back of entries of a well-typed cache.
LEMMA WrittenBackOp ==
  ASSUME StoreTypeOK, NEW c, c \in [DOMAIN c -> Entry], NEW S, S \subseteq DOMAIN c
  PROVE  /\ WrittenBack(c, S) \in [Block -> Value]
         /\ \A x \in Block : WrittenBack(c, S)[x] = IF x \in S THEN c[x].data ELSE vol[x]
<1>1. \A x \in S : c[x].data \in Value
  BY Zenon DEF Entry
<1>2. \A x \in Block : vol[x] \in Value
  BY Zenon DEF StoreTypeOK
<1> QED BY <1>1, <1>2, Zenon DEF WrittenBack

LEMMA PutOp ==
  ASSUME StoreTypeOK, NEW b \in Block, NEW e \in Entry,
         NEW c, c = [x \in DOMAIN cache \cup {b} |-> IF x = b THEN e ELSE cache[x]]
  PROVE  /\ DOMAIN c = DOMAIN cache \cup {b}
         /\ DOMAIN c \subseteq Block
         /\ c \in [DOMAIN c -> Entry]
         /\ c[b] = e
         /\ \A x \in DOMAIN cache : x # b => c[x] = cache[x]
  BY Zenon DEF StoreTypeOK

(***************************************************************************)
(* The invariant after a step, given the blocks X whose last value is lost *)
(* and the stale entries Y.                                                *)
(***************************************************************************)
CoherentAfter(X, Y) ==
  \A b \in Block :
    /\ IsDirty(b)' => b \notin X /\ latest'[b] = cache'[b].data
    /\ b \notin X /\ ~IsDirty(b)' => latest'[b] = vol'[b]
    /\ b \notin Y /\ Cached(b)' /\ ~IsDirty(b)' => cache'[b].data = vol'[b]

After(X, Y) == StoreTypeOK' /\ CoherentAfter(X, Y) /\ Dated'

LEMMA NoneLost == After({}, {}) <=> CacheInv'
  BY Zenon DEF After, CoherentAfter, CacheInv, CacheBut, CoherentBut

\* What the device answers, now or after a power failure, is what it had or the last
\* value stored.
Moved == \A x \in Block : {vol'[x], disk'[x]} \subseteq {disk[x], vol[x], latest'[x]}
VolMoved == \A x \in Block : vol'[x] \in {vol[x], latest'[x]}

(***************************************************************************)
(* evict_if_needed, on a cache c that agrees with the device and with the  *)
(* last values stored, L, all of which are among the values K.             *)
(***************************************************************************)
EvictsFirst(c, o, k, L, K) ==
  LET gone == Dirty(c, Range(SubSeq(o, 1, k))) IN
  /\ latest' = L
  /\ Evict(c, o, k)
  /\ disk' = IF gone = {} THEN disk ELSE WrittenBack(c, gone)
  /\ since' = [x \in Block |-> IF x \in gone THEN {L[x]} ELSE K[x]]
  /\ \/ vol' = WrittenBack(c, gone)
     \/ /\ o[k + 1] \in Dirty(c, Block)
        /\ vol' \in {WrittenBack(c, gone), WrittenBack(c, gone \cup {o[k + 1]})}

Agrees(c, L, X, Y) ==
  /\ \A x \in DOMAIN c : c[x].dirty => x \notin X /\ L[x] = c[x].data
  /\ \A x \in Block : x \notin X /\ ~(x \in DOMAIN c /\ c[x].dirty) => L[x] = vol[x]
  /\ \A x \in DOMAIN c : x \notin Y /\ ~c[x].dirty => c[x].data = vol[x]

LEMMA EvictKeeps ==
  ASSUME NEW c, NEW o, NEW k, NEW L, NEW K, NEW X, NEW Y, StoreTypeOK,
         L \in [Block -> Value], K \in [Block -> SUBSET Value],
         DOMAIN c \subseteq Block, c \in [DOMAIN c -> Entry],
         Agrees(c, L, X, Y),
         \A x \in Block : {disk[x], vol[x], L[x]} \subseteq K[x],
         EvictsFirst(c, o, k, L, K)
  PROVE  After(X, Y) /\ Moved /\ VolMoved
<1> DEFINE gone == Dirty(c, Range(SubSeq(o, 1, k)))
<1>0. /\ latest' = L /\ Evict(c, o, k)
      /\ disk' = IF gone = {} THEN disk ELSE WrittenBack(c, gone)
      /\ since' = [x \in Block |-> IF x \in gone THEN {L[x]} ELSE K[x]]
      /\ \/ vol' = WrittenBack(c, gone)
         \/ /\ o[k + 1] \in Dirty(c, Block)
            /\ vol' \in {WrittenBack(c, gone), WrittenBack(c, gone \cup {o[k + 1]})}
  BY Zenon DEF EvictsFirst
<1> DEFINE V == Range(SubSeq(o, 1, k))
<1>1. cache' = [x \in DOMAIN c \ V |-> c[x]] /\ gone = {x \in V \cap DOMAIN c : c[x].dirty}
  BY <1>0, Zenon DEF Evict, Drop, Dirty
<1> HIDE DEF V, gone
<1>2. PICK W \in SUBSET DOMAIN c :
        /\ gone \subseteq W /\ \A x \in W : c[x].dirty
        /\ vol' = WrittenBack(c, W)
  <2>1. CASE vol' = WrittenBack(c, gone)
    BY <1>1, <2>1, ZenonT(30)
  <2>2. CASE o[k + 1] \in Dirty(c, Block) /\ vol' = WrittenBack(c, gone \cup {o[k + 1]})
    <3>1. o[k + 1] \in DOMAIN c /\ c[o[k + 1]].dirty
      BY <2>2, Zenon DEF Dirty
    <3> QED BY <1>1, <2>2, <3>1, ZenonT(30)
  <2> QED BY <1>0, <2>1, <2>2, Zenon
<1>3. /\ vol' \in [Block -> Value]
      /\ \A x \in Block : vol'[x] = IF x \in W THEN c[x].data ELSE vol[x]
  BY <1>2, WrittenBackOp
<1>a. \A x \in W : x \notin X /\ L[x] = c[x].data
  BY <1>2, Zenon DEF Agrees
<1>4. /\ disk' \in [Block -> Value]
      /\ \A x \in Block : disk'[x] \in {disk[x], vol[x], L[x]} /\ (x \in gone => disk'[x] = L[x])
  <2>1. CASE gone = {}
    BY <1>0, <2>1, Zenon DEF StoreTypeOK
  <2>2. CASE gone # {}
    <3>1. gone \subseteq DOMAIN c /\ disk' = WrittenBack(c, gone)
      BY <1>0, <1>1, <2>2, Zenon
    <3>2. /\ disk' \in [Block -> Value]
          /\ \A x \in Block : disk'[x] = IF x \in gone THEN c[x].data ELSE vol[x]
      BY <3>1, WrittenBackOp
    <3> QED BY <1>2, <1>a, <3>1, <3>2, Zenon
  <2> QED BY <2>1, <2>2, Zenon
<1>5. StoreTypeOK'
  <2>1. DOMAIN cache' \subseteq Block /\ cache' \in [DOMAIN cache' -> Entry]
    BY <1>1, Zenon
  <2>2. since' \in [Block -> SUBSET Value]
    BY <1>0
  <2> QED BY <1>0, <1>3, <1>4, <2>1, <2>2, Zenon DEF StoreTypeOK
<1>6. CoherentAfter(X, Y)
  <2> SUFFICES ASSUME NEW b \in Block
               PROVE  LET d == b \in DOMAIN cache' /\ cache'[b].dirty IN
                      /\ d => b \notin X /\ L[b] = cache'[b].data
                      /\ b \notin X /\ ~d => L[b] = vol'[b]
                      /\ b \notin Y /\ b \in DOMAIN cache' /\ ~d => cache'[b].data = vol'[b]
    BY <1>0, Zenon DEF CoherentAfter, Cached, IsDirty
  <2>1. CASE b \in DOMAIN cache'
    <3>1. b \in DOMAIN c /\ cache'[b] = c[b] /\ b \notin V
      BY <1>1, <2>1, Zenon
    <3>2. CASE c[b].dirty
      BY <2>1, <3>1, <3>2, Zenon DEF Agrees
    <3>3. CASE ~c[b].dirty
      <4>1. vol'[b] = vol[b]
        BY <1>2, <1>3, <3>3, Zenon
      <4> QED BY <2>1, <3>1, <3>3, <4>1, Zenon DEF Agrees
    <3> QED BY <3>2, <3>3, Zenon
  <2>2. CASE b \notin DOMAIN cache' /\ b \in W
    BY <1>3, <1>a, <2>2, Zenon
  <2>3. CASE b \notin DOMAIN cache' /\ b \notin W
    <3>1. ~(b \in DOMAIN c /\ c[b].dirty) /\ vol'[b] = vol[b]
      BY <1>1, <1>2, <1>3, <2>3, Zenon
    <3> QED BY <2>3, <3>1, Zenon DEF Agrees
  <2> QED BY <2>1, <2>2, <2>3, Zenon
<1>7. Dated'
  <2> SUFFICES ASSUME NEW b \in Block
               PROVE  {disk'[b], vol'[b], L[b]} \subseteq since'[b]
    BY <1>0, ZenonT(30) DEF Dated
  <2>1. CASE b \in gone
    BY <1>0, <1>2, <1>3, <1>a, <1>4, <2>1, Zenon
  <2>2. CASE b \notin gone
    BY <1>0, <1>3, <1>a, <1>4, <2>2
  <2> QED BY <2>1, <2>2, Zenon
<1>8. Moved /\ VolMoved
  BY <1>0, <1>3, <1>a, <1>4 DEF Moved, VolMoved
<1> QED BY <1>5, <1>6, <1>7, <1>8, Zenon DEF After

(***************************************************************************)
(* The operations of the cache and of the device keep what they found.     *)
(***************************************************************************)
LEMMA SameStore ==
  ASSUME NEW X, NEW Y, CacheBut(X, Y), UNCHANGED <<cache, vol, disk, latest, since>>
  PROVE  After(X, Y) /\ Moved /\ VolMoved
<1>1. StoreTypeOK' /\ Dated'
  BY Zenon DEF CacheBut, StoreTypeOK, Dated
<1>2. CoherentAfter(X, Y)
  BY Zenon DEF CacheBut, CoherentBut, CoherentAfter, IsDirty, Cached
<1> QED BY <1>1, <1>2, ZenonT(30) DEF After, Moved, VolMoved

LEMMA ReadOp == ASSUME NEW X, NEW Y, CacheBut(X, Y), NEW b \in Block, ReadBlockCached(b)
                PROVE  After(X, Y) /\ Moved /\ VolMoved /\ latest' = latest
<1>1. CASE Cached(b)
  <2>1. UNCHANGED <<cache, vol, disk, latest, since>>
    BY <1>1, Zenon DEF ReadBlockCached, devVars, ghostVars
  <2> QED BY <2>1, SameStore, Zenon
<1>2. CASE ~Cached(b)
  <2> DEFINE c == Put(cache, b, vol[b], FALSE)
             o == Append(order, b)
  <2>1. vol[b] \in Value /\ b \notin DOMAIN cache /\ StoreTypeOK
    BY <1>2, Zenon DEF CacheBut, StoreTypeOK, Cached
  <2>2. /\ DOMAIN c = DOMAIN cache \cup {b} /\ DOMAIN c \subseteq Block
        /\ c \in [DOMAIN c -> Entry]
        /\ c[b].data = vol[b] /\ ~c[b].dirty
        /\ \A x \in DOMAIN cache : c[x] = cache[x]
    <3> DEFINE e == [data |-> vol[b], dirty |-> FALSE]
    <3>1. e \in Entry /\ e.data = vol[b] /\ ~e.dirty
      BY <2>1, Zenon DEF Entry
    <3>2. c = [x \in DOMAIN cache \cup {b} |-> IF x = b THEN e ELSE cache[x]]
      BY Zenon DEF Put
    <3> HIDE DEF c, e
    <3>3. /\ DOMAIN c = DOMAIN cache \cup {b} /\ DOMAIN c \subseteq Block
          /\ c \in [DOMAIN c -> Entry] /\ c[b] = e
          /\ \A x \in DOMAIN cache : x # b => c[x] = cache[x]
      BY <2>1, <3>1, <3>2, PutOp
    <3> QED BY <2>1, <3>1, <3>3, Zenon
  <2>3. EvictIfNeeded(c, o, b, vol[b], FALSE)
    BY <1>2, ZenonT(30) DEF ReadBlockCached
  <2>4. /\ latest' = latest
        /\ \E k \in 0..Excess(c) : EvictsFirst(c, o, k, latest, since)
    <3> HIDE DEF c, o
    <3> QED BY <2>3, ZenonT(30) DEF EvictIfNeeded, EvictsFirst
  <2> HIDE DEF c, o
  <2>5. Agrees(c, latest, X, Y)
    <3>1. DOMAIN cache \subseteq Block
      BY <2>1, Zenon DEF StoreTypeOK
    <3>2. ASSUME NEW x \in DOMAIN c, c[x].dirty PROVE x \notin X /\ latest[x] = c[x].data
      BY <2>2, <3>1, <3>2, Zenon DEF CacheBut, CoherentBut, IsDirty, Cached
    <3>3. ASSUME NEW x \in Block, x \notin X, ~(x \in DOMAIN c /\ c[x].dirty) PROVE latest[x] = vol[x]
      BY <2>2, <3>3, Zenon DEF CacheBut, CoherentBut, IsDirty, Cached
    <3>4. ASSUME NEW x \in DOMAIN c, x \notin Y, ~c[x].dirty PROVE c[x].data = vol[x]
      BY <2>2, <3>1, <3>4, Zenon DEF CacheBut, CoherentBut, IsDirty, Cached
    <3> QED BY <3>2, <3>3, <3>4, Zenon DEF Agrees
  <2>7. /\ latest \in [Block -> Value] /\ since \in [Block -> SUBSET Value]
        /\ \A x \in Block : {disk[x], vol[x], latest[x]} \subseteq since[x]
    BY <2>1, Zenon DEF CacheBut, Dated, StoreTypeOK
  <2> QED BY <2>1, <2>2, <2>4, <2>5, <2>7, EvictKeeps
<1> QED BY <1>1, <1>2, Zenon

LEMMA WriteOp ==
  ASSUME NEW X, NEW Y, CacheBut(X, Y), NEW b \in Block, NEW v \in Value, WriteBlockCached(b, v)
  PROVE  After(X \ {b}, Y) /\ Moved /\ VolMoved /\ latest' = [latest EXCEPT ![b] = v]
<1> DEFINE c == Put(cache, b, v, TRUE)
           L == [latest EXCEPT ![b] = v]
           K == [since EXCEPT ![b] = @ \cup {v}]
<1>1. /\ DOMAIN c = DOMAIN cache \cup {b} /\ DOMAIN c \subseteq Block
      /\ c \in [DOMAIN c -> Entry]
      /\ c[b].data = v /\ c[b].dirty
      /\ \A x \in DOMAIN cache : x # b => c[x] = cache[x]
  <2> DEFINE e == [data |-> v, dirty |-> TRUE]
  <2>1. e \in Entry /\ e.data = v /\ e.dirty
    BY Zenon DEF Entry
  <2>2. c = [x \in DOMAIN cache \cup {b} |-> IF x = b THEN e ELSE cache[x]]
    BY Zenon DEF Put
  <2> HIDE DEF c, e
  <2> QED BY <2>1, <2>2, PutOp DEF CacheBut
<1>2. /\ StoreTypeOK
      /\ L \in [Block -> Value] /\ K \in [Block -> SUBSET Value]
      /\ L[b] = v /\ K[b] = since[b] \cup {v}
      /\ \A x \in Block : x # b => L[x] = latest[x] /\ K[x] = since[x]
  BY Zenon DEF CacheBut, StoreTypeOK
<1>3. Agrees(c, L, X \ {b}, Y)
  <2> HIDE DEF c, L, K
  <2>1. ASSUME NEW x \in DOMAIN c, c[x].dirty PROVE x \notin X \ {b} /\ L[x] = c[x].data
    BY <1>1, <1>2, <2>1, Zenon DEF CacheBut, CoherentBut, IsDirty, Cached
  <2>2. ASSUME NEW x \in Block, x \notin X \ {b}, ~(x \in DOMAIN c /\ c[x].dirty) PROVE L[x] = vol[x]
    <3>1. x # b
      BY <1>1, <2>2, Zenon
    <3> QED BY <1>1, <1>2, <2>2, <3>1, Zenon DEF CacheBut, CoherentBut, IsDirty, Cached
  <2>3. ASSUME NEW x \in DOMAIN c, x \notin Y, ~c[x].dirty PROVE c[x].data = vol[x]
    BY <1>1, <2>3, Zenon DEF CacheBut, CoherentBut, IsDirty, Cached
  <2> QED BY <2>1, <2>2, <2>3, Zenon DEF Agrees
<1>5. \A x \in Block : {disk[x], vol[x], L[x]} \subseteq K[x]
  <2> HIDE DEF c, L, K
  <2> QED BY <1>2, ZenonT(30) DEF CacheBut, Dated
<1>6. CASE Cached(b)
  <2>1. cache' = c /\ latest' = L /\ since' = K /\ UNCHANGED <<vol, disk>>
    BY <1>6, Zenon DEF WriteBlockCached, Store, devVars
  <2>2. Moved /\ VolMoved
    BY <2>1, ZenonT(30) DEF Moved, VolMoved
  <2>3. StoreTypeOK' /\ Dated'
    <3> HIDE DEF c, L, K
    <3> QED BY <1>1, <1>2, <1>5, <2>1, Zenon DEF StoreTypeOK, Dated
  <2>4. CoherentAfter(X \ {b}, Y)
    <3> HIDE DEF c, L, K
    <3> QED BY <1>3, <2>1, Zenon DEF Agrees, CoherentAfter, IsDirty, Cached
  <2> QED BY <2>1, <2>2, <2>3, <2>4, Zenon DEF After
<1>7. CASE ~Cached(b)
  <2> DEFINE o == Append(order, b)
  <2>1. EvictIfNeeded(c, o, b, v, TRUE)
    BY <1>7, ZenonT(30) DEF WriteBlockCached
  <2>2. latest' = L /\ \E k \in 0..Excess(c) : EvictsFirst(c, o, k, L, K)
    <3> HIDE DEF c, o
    <3> QED BY <2>1, ZenonT(30) DEF EvictIfNeeded, EvictsFirst
  <2>3. After(X \ {b}, Y) /\ Moved /\ VolMoved
    <3> HIDE DEF c, o, L, K
    <3> QED BY <1>1, <1>2, <1>3, <1>5, <2>2, EvictKeeps
  <2> QED BY <2>2, <2>3, Zenon
<1> QED BY <1>6, <1>7, Zenon

\* sync and flush_range, on every block and on a range.
LEMMA WriteBackOp ==
  ASSUME NEW X, NEW Y, CacheBut(X, Y), NEW S, S \subseteq Block, WriteBackBut(S, X)
  PROVE  /\ After(X, Y) /\ Moved /\ VolMoved /\ latest' = latest /\ disk' = vol'
         /\ \A x \in S \ X : vol'[x] = latest'[x]
<1> DEFINE D == Dirty(cache, S)
<1>1. StoreTypeOK /\ D \subseteq DOMAIN cache /\ cache \in [DOMAIN cache -> Entry]
  BY Zenon DEF CacheBut, StoreTypeOK, Dirty
<1>2. /\ vol' \in [Block -> Value]
      /\ \A x \in Block : vol'[x] = IF x \in D THEN cache[x].data ELSE vol[x]
  BY <1>1, WrittenBackOp DEF WriteBackBut
<1>3. /\ DOMAIN cache' = DOMAIN cache /\ cache' \in [DOMAIN cache -> Entry]
      /\ \A x \in DOMAIN cache : cache'[x].data = cache[x].data
      /\ \A x \in DOMAIN cache : x \in S => ~cache'[x].dirty
      /\ \A x \in DOMAIN cache \ S : cache'[x] = cache[x]
  <2>1. cache' = [b \in DOMAIN cache |-> IF b \in S THEN [cache[b] EXCEPT !.dirty = FALSE] ELSE cache[b]]
    BY Zenon DEF WriteBackBut, Clean
  <2>2. \A b \in DOMAIN cache : cache[b] \in Entry
    BY <1>1, Zenon
  <2> QED BY <2>1, <2>2, EntryOp, Zenon
<1>4. /\ disk' = vol' /\ latest' = latest
      /\ since' = [b \in Block |-> IF b \in S \ X THEN {latest[b]} ELSE since[b]]
  BY Zenon DEF WriteBackBut, Durable
<1>5. \A x \in Block : (x \in S \ X => vol'[x] = latest[x]) /\ vol'[x] \in {vol[x], latest[x]}
  BY <1>2, ZenonT(30) DEF CacheBut, CoherentBut, IsDirty, Cached, Dirty
<1>6. StoreTypeOK'
  BY <1>1, <1>2, <1>3, <1>4 DEF StoreTypeOK
<1>7. CoherentAfter(X, Y)
  <2> SUFFICES ASSUME NEW b \in Block
               PROVE  LET d == b \in DOMAIN cache' /\ cache'[b].dirty IN
                      /\ d => b \notin X /\ latest[b] = cache'[b].data
                      /\ b \notin X /\ ~d => latest[b] = vol'[b]
                      /\ b \notin Y /\ b \in DOMAIN cache' /\ ~d => cache'[b].data = vol'[b]
    BY <1>4, Zenon DEF CoherentAfter, Cached, IsDirty
  <2>1. CASE b \in D
    <3>1. b \in S /\ b \in DOMAIN cache /\ cache[b].dirty
      BY <2>1, Zenon DEF Dirty
    <3>2. b \notin X /\ latest[b] = cache[b].data
      BY <3>1, Zenon DEF CacheBut, CoherentBut, IsDirty, Cached
    <3> QED BY <1>2, <1>3, <2>1, <3>1, <3>2, Zenon
  <2>2. CASE b \notin D
    <3>1. vol'[b] = vol[b]
      BY <1>2, <2>2, Zenon
    <3>2. b \in DOMAIN cache => cache'[b].data = cache[b].data /\ (cache'[b].dirty <=> cache[b].dirty)
      BY <1>3, <2>2, Zenon DEF Dirty
    <3> QED BY <1>3, <3>1, <3>2, Zenon DEF CacheBut, CoherentBut, IsDirty, Cached
  <2> QED BY <2>1, <2>2, Zenon
<1>8. Dated'
  <2> SUFFICES ASSUME NEW b \in Block PROVE {vol'[b], latest[b]} \subseteq since'[b]
    BY <1>4, Zenon DEF Dated
  <2>1. CASE b \in S \ X
    BY <1>4, <1>5, <2>1, ZenonT(30)
  <2>2. CASE b \notin S \ X
    <3>1. {vol[b], latest[b]} \subseteq since[b]
      BY Zenon DEF CacheBut, Dated
    <3> QED BY <1>4, <1>5, <2>2, <3>1
  <2> QED BY <2>1, <2>2, Zenon
<1>9. Moved /\ VolMoved
  BY <1>4, <1>5, ZenonT(30) DEF Moved, VolMoved
<1> QED BY <1>4, <1>5, <1>6, <1>7, <1>8, <1>9, ZenonT(30) DEF After

LEMMA WriteBackFailsOp ==
  ASSUME NEW X, NEW Y, CacheBut(X, Y), NEW S, S \subseteq Block, WriteBackFails(S)
  PROVE  After(X, Y) /\ Moved /\ VolMoved /\ latest' = latest
<1>1. PICK P \in WrittenFirst(Dirty(cache, S)) : vol' = WrittenBack(cache, P)
  BY Zenon DEF WriteBackFails
<1>2. P \subseteq Dirty(cache, S)
  BY Zenon DEF WrittenFirst
<1>3. \A x \in P : x \in DOMAIN cache /\ cache[x].dirty
  BY <1>2, Zenon DEF Dirty
<1>4. /\ vol' \in [Block -> Value]
      /\ \A x \in Block : vol'[x] = IF x \in P THEN cache[x].data ELSE vol[x]
  BY <1>1, <1>3, WrittenBackOp DEF CacheBut, StoreTypeOK
<1>5. UNCHANGED <<cache, disk, latest, since>>
  BY Zenon DEF WriteBackFails, ghostVars
<1>6. StoreTypeOK'
  BY <1>4, <1>5, Zenon DEF CacheBut, StoreTypeOK
<1>7. CoherentAfter(X, Y)
  BY <1>3, <1>4, <1>5, Zenon DEF CacheBut, CoherentBut, CoherentAfter, IsDirty, Cached
<1>8. VolMoved
  BY <1>3, <1>4, <1>5, Zenon DEF VolMoved, CacheBut, CoherentBut, IsDirty, Cached
<1>9. Dated' /\ Moved
  BY <1>5, <1>8 DEF CacheBut, Dated, Moved, VolMoved
<1> QED BY <1>5, <1>6, <1>7, <1>8, <1>9, Zenon DEF After

LEMMA PersistOp == ASSUME NEW X, NEW Y, CacheBut(X, Y), NEW b \in Block, Persist(b)
                   PROVE  After(X, Y) /\ Moved /\ VolMoved /\ latest' = latest
<1>1. disk' = [disk EXCEPT ![b] = vol[b]] /\ UNCHANGED <<cache, vol, latest, since>>
  BY Zenon DEF Persist, ghostVars
<1>2. StoreTypeOK' /\ Dated' /\ Moved /\ VolMoved
  BY <1>1 DEF CacheBut, StoreTypeOK, Dated, Moved, VolMoved
<1>3. CoherentAfter(X, Y)
  BY <1>1, Zenon DEF CacheBut, CoherentBut, CoherentAfter, IsDirty, Cached
<1> QED BY <1>1, <1>2, <1>3, Zenon DEF After

LEMMA CrashKeeps == ASSUME NEW X, NEW Y, CacheBut(X, Y), Crash PROVE CacheInv'
<1>1. DOMAIN cache' = {} /\ cache' \in [DOMAIN cache' -> Entry]
  BY Zenon DEF Crash, Empty
<1> QED BY <1>1, Zenon DEF Crash, CacheInv, CacheBut, StoreTypeOK, CoherentBut, IsDirty, Dated, Cached

\* With no block lost and no entry stale, they preserve CacheInv.
LEMMA ReadKeeps == ASSUME CacheInv, NEW b \in Block, ReadBlockCached(b)
                   PROVE  CacheInv' /\ Moved /\ latest' = latest
  BY ReadOp, NoneLost, Zenon DEF CacheInv

LEMMA WriteKeeps ==
  ASSUME CacheInv, NEW b \in Block, NEW v \in Value, WriteBlockCached(b, v)
  PROVE  CacheInv' /\ Moved /\ latest' = [latest EXCEPT ![b] = v]
<1>1. {} \ {b} = {}
  BY Zenon
<1>2. After({} \ {b}, {}) /\ Moved /\ latest' = [latest EXCEPT ![b] = v]
  BY WriteOp, Zenon DEF CacheInv
<1> QED BY <1>1, <1>2, NoneLost, Zenon

LEMMA WriteBackKeeps == ASSUME CacheInv, NEW S, S \subseteq Block, WriteBack(S)
                        PROVE  /\ CacheInv' /\ Moved /\ latest' = latest /\ disk' = vol'
                               /\ \A x \in S : vol'[x] = latest'[x]
<1>1. /\ After({}, {}) /\ Moved /\ latest' = latest /\ disk' = vol'
      /\ \A x \in S \ {} : vol'[x] = latest'[x]
  BY WriteBackOp, Zenon DEF CacheInv, WriteBack
<1> QED BY <1>1, NoneLost, Zenon

LEMMA WriteBackFailsKeeps ==
  ASSUME CacheInv, NEW S, S \subseteq Block, WriteBackFails(S)
  PROVE  CacheInv' /\ Moved /\ latest' = latest
  BY WriteBackFailsOp, NoneLost, Zenon DEF CacheInv

LEMMA DeviceKeeps == ASSUME CacheInv, NEW b \in Block, Persist(b)
                     PROVE  CacheInv' /\ Moved /\ latest' = latest
  BY PersistOp, NoneLost, Zenon DEF CacheInv

LEMMA InitCacheInv == Init => CacheInv
<1> SUFFICES ASSUME Init PROVE CacheInv
  BY Zenon
<1>1. DOMAIN cache = {} /\ cache \in [DOMAIN cache -> Entry]
  BY Zenon DEF Init, Empty
<1> QED BY <1>1, Zenon DEF Init, CacheInv, CacheBut, StoreTypeOK, CoherentBut, IsDirty, Dated, Cached

LEMMA NextCacheInv == CacheInv /\ [Next]_vars => CacheInv'
<1> SUFFICES ASSUME CacheInv, [Next]_vars PROVE CacheInv'
  BY Zenon
<1>1. ASSUME NEW b \in Block, ReadBlockCached(b) \/ Persist(b) PROVE CacheInv'
  BY <1>1, ReadKeeps, DeviceKeeps, Zenon
<1>2. ASSUME NEW b \in Block, NEW v \in Value, WriteBlockCached(b, v) PROVE CacheInv'
  BY <1>2, WriteKeeps, Zenon
<1>3. ASSUME NEW S \in Interval, FlushRange(S) PROVE CacheInv'
  <2>1. S \subseteq Block
    BY DEF Interval
  <2> QED BY <1>3, <2>1, WriteBackKeeps, WriteBackFailsKeeps, ZenonT(30) DEF FlushRange
<1>4. CASE Sync
  BY <1>4, WriteBackKeeps, WriteBackFailsKeeps, Zenon DEF Sync
<1>5. CASE Crash
  BY <1>5, CrashKeeps, Zenon DEF CacheInv
<1>6. CASE UNCHANGED vars
  BY <1>6, SameStore, NoneLost, Zenon DEF vars, devVars, ghostVars, CacheInv
<1> QED BY <1>1, <1>2, <1>3, <1>4, <1>5, <1>6, Zenon DEF Next

\* The invariant holds for every cache size, every order of calls and every failure.
THEOREM CacheInductive == Spec => []CacheInv
<1>1. Init => CacheInv
  BY InitCacheInv, Zenon
<1>2. CacheInv /\ [Next]_vars => CacheInv'
  BY NextCacheInv, Zenon
<1> QED BY <1>1, <1>2, PTL DEF Spec

\* What a barrier of the cache made durable is never undone by a power failure, and a
\* failed one never takes a block back (BlockCache::sync, flush_range,
\* evict_if_needed).
THEOREM NothingUndone == Spec => []Recoverable
<1>1. CacheInv => Recoverable
  BY Zenon DEF CacheInv, CacheBut, Dated, Recoverable
<1> QED BY <1>1, CacheInductive, PTL

-----------------------------------------------------------------------------
(* The filesystem-block I/O, used by any number of tasks *)

\* What a step must show of the tasks besides the cache.
CleanRun   == \A t \in Task : txn = t => \A b \in todo[t] : ~IsDirty(b)
Watched == \A t \in Task : Reading(t) => \A b \in todo[t] : {vol[b], latest[b]} \subseteq seen[t][b]

LEMMA Ext2Parts == Ext2Inv <=> /\ CacheBut(lost, stale)
                               /\ txn \in Task \cup {None} /\ todo \in [Task -> SUBSET Block]
                               /\ CleanRun /\ Watched
  BY Zenon DEF Ext2Inv, Ext2TypeOK, CacheBut, CleanRun, Watched

LEMMA Ext2PartsAfter ==
  ASSUME After(lost', stale'), txn' \in Task \cup {None}, todo' \in [Task -> SUBSET Block],
         CleanRun', Watched'
  PROVE  Ext2Inv'
<1>1. CoherentBut(lost, stale)'
  BY Zenon DEF After, CoherentAfter, CoherentBut
<1> QED BY <1>1, Zenon DEF Ext2Inv, Ext2TypeOK, After, CleanRun, Watched

\* A stale entry that has left the cache or was written is not one any more.
LEMMA StaleGoes ==
  ASSUME NEW X, After(X, stale), KeepStale
  PROVE  After(X, stale')
<1>1. \A b \in stale : Cached(b)' /\ ~IsDirty(b)' => b \in stale'
  BY Zenon DEF KeepStale, Cached, IsDirty
<1> QED BY <1>1, Zenon DEF After, CoherentAfter

\* A bulk read that goes on has seen the new value too.
LEMMA GoesOn ==
  ASSUME Ext2Inv, Watch, VolMoved, NEW t \in Task, Reading(t), Reading(t)',
         todo'[t] = todo[t]
  PROVE  \A b \in todo'[t] : {vol'[b], latest'[b]} \subseteq seen'[t][b]
<1> SUFFICES ASSUME NEW b \in todo[t] PROVE {vol'[b], latest'[b]} \subseteq seen'[t][b]
  BY Zenon
<1>1. b \in Block /\ vol[b] \in seen[t][b]
  BY Ext2Parts DEF Watched
<1>2. seen'[t][b] = Current(b)' \cup seen[t][b]
  BY <1>1, ZenonT(30) DEF Watch
<1>3. latest'[b] \in Current(b)' /\ vol'[b] \in {vol[b], latest'[b]}
  BY <1>1, Zenon DEF Current, VolMoved
<1> QED BY <1>1, <1>2, <1>3, Zenon

\* So it is for all of them, when no other begins.
LEMMA NoneBegins ==
  ASSUME Ext2Inv, Watch, VolMoved,
         \A t \in Task : Reading(t)' => Reading(t) /\ todo'[t] = todo[t]
  PROVE  Watched'
<1> SUFFICES ASSUME NEW t \in Task, Reading(t)'
             PROVE  \A b \in todo'[t] : {vol'[b], latest'[b]} \subseteq seen'[t][b]
  BY Zenon DEF Watched
<1> QED BY GoesOn, Zenon

\* A step of the cache that writes nothing anew leaves the run of a bulk write clean.
LEMMA StaysQuiet ==
  ASSUME CleanRun, UNCHANGED <<txn, todo>>, todo \in [Task -> SUBSET Block],
         \A b \in Block : IsDirty(b)' => IsDirty(b)
  PROVE  CleanRun'
  BY ZenonT(30) DEF CleanRun

LEMMA ReadStaysClean ==
  ASSUME NEW X, NEW Y, CacheBut(X, Y), NEW b \in Block, ReadBlockCached(b)
  PROVE  \A x \in Block : IsDirty(x)' => IsDirty(x)
<1>1. CASE Cached(b)
  BY <1>1, Zenon DEF ReadBlockCached, IsDirty, Cached
<1>2. CASE ~Cached(b)
  <2>1. \E k : cache' = Drop(Put(cache, b, vol[b], FALSE), Range(SubSeq(Append(order, b), 1, k)))
    BY <1>2, ZenonT(30) DEF ReadBlockCached, EvictIfNeeded, Evict
  <2>2. PICK V : cache' = Drop(Put(cache, b, vol[b], FALSE), V)
    BY <2>1, Zenon
  <2>3. ASSUME NEW x \in DOMAIN cache', cache'[x].dirty PROVE x \in DOMAIN cache /\ cache[x].dirty
    <3>1. cache'[x] = IF x = b THEN [data |-> vol[b], dirty |-> FALSE] ELSE cache[x]
      BY <2>2, Zenon DEF Drop, Put
    <3>2. x # b
      <4>1. [data |-> vol[b], dirty |-> FALSE].dirty = FALSE
        BY Zenon
      <4> QED BY <2>3, <3>1, <4>1, Zenon
    <3>3. x \in DOMAIN cache
      BY <2>2, <3>2, Zenon DEF Drop, Put
    <3> QED BY <2>3, <3>1, <3>2, <3>3, Zenon
  <2> QED BY <2>3, Zenon DEF IsDirty, Cached
<1> QED BY <1>1, <1>2, Zenon

LEMMA WriteBackStaysClean ==
  ASSUME StoreTypeOK, NEW X, NEW S, WriteBackBut(S, X) \/ WriteBackFails(S)
  PROVE  \A x \in Block : IsDirty(x)' => IsDirty(x)
<1>1. CASE WriteBackFails(S)
  BY <1>1, Zenon DEF WriteBackFails, IsDirty, Cached
<1>2. CASE WriteBackBut(S, X)
  <2>1. cache' = [b \in DOMAIN cache |-> IF b \in S THEN [cache[b] EXCEPT !.dirty = FALSE] ELSE cache[b]]
    BY <1>2, Zenon DEF WriteBackBut, Clean
  <2>2. ASSUME NEW x \in DOMAIN cache, cache'[x].dirty, x \in S PROVE cache[x].dirty
    <3>1. cache[x] \in Entry /\ cache'[x] = [cache[x] EXCEPT !.dirty = FALSE]
      BY <2>1, <2>2, Zenon DEF StoreTypeOK
    <3> QED BY <2>2, <3>1, EntryOp, Zenon
  <2> QED BY <2>1, <2>2, ZenonT(30) DEF IsDirty, Cached
<1> QED BY <1>1, <1>2, Zenon

LEMMA WriteFsBlocksKeeps ==
  ASSUME Ext2Inv, Watch, NEW t \in Task, NEW S \in Interval, WriteFsBlocks(t, S)
  PROVE  Ext2Inv'
<1>1. /\ S \subseteq Block /\ CacheBut(lost, stale) /\ todo \in [Task -> SUBSET Block]
      /\ txn \in Task \cup {None}
  BY Ext2Parts DEF Interval
<1>2. /\ cache' = [b \in DOMAIN cache \ S |-> cache[b]] /\ txn = t
      /\ todo' = [todo EXCEPT ![t] = S]
      /\ lost' = lost \cup Dirty(cache, S)
      /\ KeepStale
      /\ UNCHANGED <<vol, disk, latest, since, txn>>
  BY Zenon DEF WriteFsBlocks, InvalidateRange, Drop, devVars, ghostVars
<1>3. StoreTypeOK' /\ Dated'
  BY <1>1, <1>2, Zenon DEF CacheBut, StoreTypeOK, Dated
<1>4. CoherentAfter(lost', stale)
  <2> SUFFICES ASSUME NEW b \in Block
               PROVE  /\ IsDirty(b)' => b \notin lost' /\ latest[b] = cache'[b].data
                      /\ b \notin lost' /\ ~IsDirty(b)' => latest[b] = vol[b]
                      /\ b \notin stale /\ Cached(b)' /\ ~IsDirty(b)' => cache'[b].data = vol[b]
    BY <1>2, Zenon DEF CoherentAfter
  <2>1. CASE b \in S
    BY <1>1, <1>2, <2>1, Zenon DEF CacheBut, CoherentBut, IsDirty, Cached, Dirty
  <2>2. CASE b \notin S
    BY <1>1, <1>2, <2>2, Zenon DEF CacheBut, CoherentBut, IsDirty, Cached, Dirty
  <2> QED BY <2>1, <2>2, Zenon
<1>5. After(lost', stale')
  BY <1>2, <1>3, <1>4, StaleGoes, Zenon DEF After
<1>6. todo' \in [Task -> SUBSET Block] /\ txn' \in Task \cup {None} /\ todo'[t] = S
  BY <1>1, <1>2, Zenon
<1>7. CleanRun'
  BY <1>2, <1>6, ZenonT(30) DEF CleanRun, IsDirty, Cached
<1>8. Watched'
  <2>1. VolMoved
    BY <1>2, Zenon DEF VolMoved
  <2>2. \A u \in Task : Reading(u)' => Reading(u) /\ todo'[u] = todo[u]
    BY <1>1, <1>2, Zenon DEF Reading
  <2> QED BY <2>1, <2>2, NoneBegins, Zenon
<1> QED BY <1>5, <1>6, <1>7, <1>8, Ext2PartsAfter, Zenon

LEMMA DirectWriteKeeps ==
  ASSUME Ext2Inv, Watch, NEW t \in Task, DirectWrite(t)
  PROVE  Ext2Inv'
<1> DEFINE S == todo[t]
<1>1. /\ txn = t /\ S \subseteq Block /\ CacheBut(lost, stale) /\ todo \in [Task -> SUBSET Block]
      /\ \A b \in S : ~IsDirty(b)
  BY Ext2Parts DEF DirectWrite, CleanRun
<1>2. PICK data \in [S -> Value], W \in SUBSET S :
        /\ vol' = [b \in Block |-> IF b \in W THEN data[b] ELSE vol[b]]
        /\ latest' = [b \in Block |-> IF b \in W THEN data[b] ELSE latest[b]]
        /\ since' = [b \in Block |-> IF b \in S THEN since[b] \cup {data[b]} ELSE since[b]]
        /\ lost' = lost \ W
        /\ stale' = stale \cup (W \cap DOMAIN cache)
  BY ZenonT(30) DEF DirectWrite
<1>3. /\ todo' = [todo EXCEPT ![t] = {}]
      /\ UNCHANGED <<cache, disk, txn>>
  BY Zenon DEF DirectWrite
<1>4. todo' \in [Task -> SUBSET Block] /\ todo'[t] = {} /\ txn' \in Task \cup {None}
  BY <1>1, <1>3, Zenon
<1> HIDE DEF S
<1>5. \A b \in W : b \in S /\ data[b] \in Value
  BY <1>2, Zenon
<1>6. StoreTypeOK'
  <2>1. StoreTypeOK
    BY <1>1, Zenon DEF CacheBut
  <2>2. vol' \in [Block -> Value] /\ latest' \in [Block -> Value]
    BY <1>2, <1>5, <2>1, Zenon DEF StoreTypeOK
  <2>3. since' \in [Block -> SUBSET Value]
    BY <1>2, <2>1 DEF StoreTypeOK
  <2> QED BY <1>3, <2>1, <2>2, <2>3, Zenon DEF StoreTypeOK
<1>7. CoherentAfter(lost', stale')
  <2> SUFFICES ASSUME NEW b \in Block
               PROVE  /\ IsDirty(b) => b \notin lost' /\ latest'[b] = cache[b].data
                      /\ b \notin lost' /\ ~IsDirty(b) => latest'[b] = vol'[b]
                      /\ b \notin stale' /\ Cached(b) /\ ~IsDirty(b) => cache[b].data = vol'[b]
    BY <1>3, Zenon DEF CoherentAfter, IsDirty, Cached
  <2>1. CASE b \in W
    <3>1. ~IsDirty(b) /\ vol'[b] = data[b] /\ latest'[b] = data[b]
      BY <1>1, <1>2, <1>5, <2>1, Zenon
    <3> QED BY <1>2, <2>1, <3>1, Zenon DEF Cached
  <2>2. CASE b \notin W
    <3>1. vol'[b] = vol[b] /\ latest'[b] = latest[b]
      BY <1>2, <2>2, Zenon
    <3> QED BY <1>1, <1>2, <2>2, <3>1, Zenon DEF CacheBut, CoherentBut
  <2> QED BY <2>1, <2>2, Zenon
<1>8. Dated'
  <2> SUFFICES ASSUME NEW b \in Block PROVE {disk[b], vol'[b], latest'[b]} \subseteq since'[b]
    BY <1>3, Zenon DEF Dated
  <2>1. {disk[b], vol[b], latest[b]} \subseteq since[b]
    BY <1>1, Zenon DEF CacheBut, Dated
  <2> QED BY <1>2, <1>5, <2>1
<1>9. CleanRun'
  BY <1>1, <1>3, <1>4, ZenonT(30) DEF CleanRun
<1>10. Watched'
  <2>1. VolMoved
    BY <1>2, Zenon DEF VolMoved
  <2>2. \A u \in Task : Reading(u)' => Reading(u) /\ todo'[u] = todo[u]
    BY <1>1, <1>3, Zenon DEF Reading
  <2> QED BY <2>1, <2>2, NoneBegins, Zenon
<1> QED BY <1>4, <1>6, <1>7, <1>8, <1>9, <1>10, Ext2PartsAfter, Zenon DEF After

LEMMA ReadFsBlocksKeeps ==
  ASSUME Ext2Inv, Watch, NEW t \in Task, NEW S \in Interval, ReadFsBlocks(t, S)
  PROVE  Ext2Inv'
<1>1. /\ S \subseteq Block /\ CacheBut(lost, stale) /\ todo \in [Task -> SUBSET Block]
      /\ txn \in Task \cup {None} /\ CleanRun
  BY Ext2Parts DEF Interval
<1>2. txn' = txn /\ txn # t /\ todo[t] = {} /\ lost' = lost /\ KeepStale
  BY Zenon DEF ReadFsBlocks, Idle
<1>3. After(lost, stale) /\ VolMoved
  BY <1>1, WriteBackOp, WriteBackFailsOp, ZenonT(30) DEF ReadFsBlocks
<1>4. After(lost', stale')
  BY <1>2, <1>3, StaleGoes, Zenon
<1>5. \A b \in Block : IsDirty(b)' => IsDirty(b)
  BY <1>1, WriteBackStaysClean, Zenon DEF ReadFsBlocks, CacheBut
<1>6. CASE WriteBackFails(S) /\ UNCHANGED todo
  <2>1. Watched'
    BY <1>2, <1>3, <1>6, NoneBegins, ZenonT(30) DEF Reading
  <2>2. CleanRun'
    BY <1>1, <1>2, <1>5, <1>6, StaysQuiet, Zenon
  <2> QED BY <1>1, <1>2, <1>4, <1>6, <2>1, <2>2, Ext2PartsAfter, Zenon
<1>7. CASE WriteBackBut(S, lost) /\ todo' = [todo EXCEPT ![t] = S]
  <2>1. /\ todo' \in [Task -> SUBSET Block] /\ todo'[t] = S
        /\ \A u \in Task : u # t => todo'[u] = todo[u]
    BY <1>1, <1>7, Zenon
  <2>2. CleanRun'
    BY <1>1, <1>2, <1>5, <2>1, ZenonT(30) DEF CleanRun
  <2>3. Watched'
    <3> SUFFICES ASSUME NEW u \in Task, Reading(u)'
                 PROVE  \A b \in todo'[u] : {vol'[b], latest'[b]} \subseteq seen'[u][b]
      BY Zenon DEF Watched
    <3>1. CASE u # t
      <4>1. Reading(u) /\ todo'[u] = todo[u]
        BY <1>2, <2>1, <3>1, Zenon DEF Reading
      <4> QED BY <1>3, <4>1, GoesOn, Zenon
    <3>2. CASE u = t
      <4> SUFFICES ASSUME NEW b \in S PROVE {vol'[b], latest'[b]} \subseteq seen'[t][b]
        BY <2>1, <3>2, Zenon
      <4>1. b \in Block /\ (b \notin lost' => vol'[b] = latest'[b])
        BY <1>1, <1>2, <1>7, WriteBackOp, ZenonT(30)
      <4>2. Current(b)' \subseteq seen'[t][b]
        BY <3>2, <4>1, ZenonT(30) DEF Watch
      <4>3. latest'[b] \in Current(b)' /\ (b \in lost' => vol'[b] \in Current(b)')
        BY Zenon DEF Current
      <4> QED BY <4>1, <4>2, <4>3, Zenon
    <3> QED BY <3>1, <3>2, Zenon
  <2> QED BY <1>1, <1>2, <1>4, <2>1, <2>2, <2>3, Ext2PartsAfter, Zenon
<1> QED BY <1>6, <1>7, Zenon DEF ReadFsBlocks

LEMMA NextExt2Inv == ASSUME Ext2Inv, [Ext2Next]_ext2Vars PROVE Ext2Inv'
<1>0. /\ CacheBut(lost, stale) /\ CleanRun /\ Watched
      /\ txn \in Task \cup {None} /\ todo \in [Task -> SUBSET Block]
  BY Ext2Parts, Zenon
\* the cache alone moves
<1>a. ASSUME Watch, After(lost', stale'), VolMoved, UNCHANGED <<txn, todo>>, CleanRun' PROVE Ext2Inv'
  <2>1. Watched'
    BY <1>a, NoneBegins, Zenon DEF Reading
  <2> QED BY <1>0, <1>a, <2>1, Ext2PartsAfter, Zenon
<1>1. ASSUME Watch, NEW t \in Task, Begin(t) \/ End(t) \/ DirectRead(t) PROVE Ext2Inv'
  <2>1. UNCHANGED <<cache, vol, disk, latest, since, lost, stale>>
    BY <1>1, Zenon DEF Begin, End, DirectRead, vars, devVars, ghostVars
  <2>2. After(lost', stale') /\ VolMoved
    BY <1>0, <2>1, SameStore, Zenon
  <2>3. /\ txn' \in Task \cup {None} /\ todo' \in [Task -> SUBSET Block] /\ todo'[t] = {}
        /\ \A u \in Task : u # t => todo'[u] = todo[u] /\ (txn' = u <=> txn = u)
    BY <1>0, <1>1, Ext2BlocksAssumption, Zenon DEF Begin, End, DirectRead, Idle
  <2>4. CleanRun'
    <3>1. \A b \in Block : IsDirty(b)' <=> IsDirty(b)
      BY <2>1, Zenon DEF IsDirty, Cached
    <3> QED BY <1>0, <2>3, <3>1, ZenonT(30) DEF CleanRun
  <2>5. \A u \in Task : Reading(u)' => Reading(u) /\ todo'[u] = todo[u]
    BY <2>3, Zenon DEF Reading
  <2> QED BY <1>1, <2>2, <2>3, <2>4, <2>5, NoneBegins, Ext2PartsAfter, Zenon
<1>2. ASSUME Watch, NEW t \in Task, SyncFs(t) PROVE Ext2Inv'
  <2>1. After(lost, stale) /\ VolMoved
    BY <1>0, <1>2, WriteBackOp, WriteBackFailsOp, Zenon DEF SyncFs
  <2>2. KeepStale /\ UNCHANGED <<txn, todo, lost>>
    BY <1>2, Zenon DEF SyncFs
  <2>3. \A b \in Block : IsDirty(b)' => IsDirty(b)
    BY <1>0, <1>2, WriteBackStaysClean, Zenon DEF SyncFs, CacheBut
  <2>4. CleanRun' /\ After(lost', stale')
    BY <1>0, <2>1, <2>2, <2>3, StaysQuiet, StaleGoes, Zenon
  <2> QED BY <1>2, <1>a, <2>1, <2>2, <2>4, Zenon
<1>3. ASSUME Watch, NEW t \in Task, NEW b \in Block, ReadFsBlock(t, b) PROVE Ext2Inv'
  <2>1. After(lost, stale) /\ VolMoved
    BY <1>0, <1>3, ReadOp, Zenon DEF ReadFsBlock
  <2>2. KeepStale /\ UNCHANGED <<txn, todo, lost>>
    BY <1>3, Zenon DEF ReadFsBlock
  <2>3. \A x \in Block : IsDirty(x)' => IsDirty(x)
    BY <1>0, <1>3, ReadStaysClean, Zenon DEF ReadFsBlock
  <2>4. CleanRun' /\ After(lost', stale')
    BY <1>0, <2>1, <2>2, <2>3, StaysQuiet, StaleGoes, Zenon
  <2> QED BY <1>3, <1>a, <2>1, <2>2, <2>4, Zenon
<1>4. ASSUME Watch, NEW t \in Task, NEW b \in Block, NEW v \in Value, WriteFsBlock(t, b, v)
      PROVE  Ext2Inv'
  <2>1. After(lost', stale) /\ VolMoved
    BY <1>0, <1>4, WriteOp, Zenon DEF WriteFsBlock
  <2>2. KeepStale /\ UNCHANGED <<txn, todo>> /\ txn = t /\ todo[t] = {}
    BY <1>4, Zenon DEF WriteFsBlock
  <2>3. CleanRun'
    BY <2>2, Zenon DEF CleanRun
  <2>4. After(lost', stale')
    BY <2>1, <2>2, StaleGoes, Zenon
  <2> QED BY <1>4, <1>a, <2>1, <2>2, <2>3, <2>4, Zenon
<1>5. ASSUME Watch, Device PROVE Ext2Inv'
  <2>1. PICK b \in Block : Persist(b)
    BY <1>5, Zenon DEF Device
  <2>2. UNCHANGED <<txn, todo, lost, stale, cache>>
    BY <1>5, <2>1, Zenon DEF Device, Persist
  <2>3. After(lost', stale') /\ VolMoved
    BY <1>0, <2>1, <2>2, PersistOp, Zenon
  <2>4. CleanRun'
    BY <1>0, <2>2, StaysQuiet, Zenon DEF IsDirty, Cached
  <2> QED BY <1>5, <1>a, <2>2, <2>3, <2>4, Zenon
<1>6. CASE PowerCut
  <2>1. After({}, {})
    BY <1>0, <1>6, CrashKeeps, NoneLost, Zenon DEF PowerCut
  <2>2. /\ lost' = {} /\ stale' = {} /\ txn' = None /\ todo' = [t \in Task |-> {}]
    BY <1>6, Zenon DEF PowerCut
  <2>3. CleanRun' /\ Watched' /\ todo' \in [Task -> SUBSET Block]
    BY <2>2, Zenon DEF CleanRun, Watched
  <2> QED BY <2>1, <2>2, <2>3, Ext2PartsAfter, Zenon
<1>7. CASE UNCHANGED ext2Vars
  BY <1>7 DEF ext2Vars, vars, devVars, ghostVars, Ext2Inv, Ext2TypeOK, StoreTypeOK, Dated,
              CoherentBut, IsDirty, Cached, Reading
<1>8. CASE Ext2Next
  <2>1. Watch /\ Action
    BY <1>8, Zenon DEF Ext2Next
  <2> QED BY <2>1, <1>1, <1>2, <1>3, <1>4, <1>5, <1>6, WriteFsBlocksKeeps, DirectWriteKeeps,
             ReadFsBlocksKeeps, Zenon DEF Action
<1> QED BY <1>7, <1>8, Zenon

\* What the cache and the tasks keep while any number of them read, write, flush and bypass
\* the cache, for every run of blocks and every failure of the device.
THEOREM Ext2Inductive == Ext2Spec => []Ext2Inv
<1>1. Ext2Init => Ext2Inv
  <2> SUFFICES ASSUME Ext2Init PROVE Ext2Inv
    BY Zenon
  <2>1. CacheBut(lost, stale)
    BY InitCacheInv, Zenon DEF Ext2Init, CacheInv
  <2>2. CleanRun /\ Watched /\ txn = None /\ todo \in [Task -> SUBSET Block]
    BY Zenon DEF Ext2Init, CleanRun, Watched, Reading
  <2> QED BY <2>1, <2>2, Ext2Parts, Zenon
<1>2. Ext2Inv /\ [Ext2Next]_ext2Vars => Ext2Inv'
  BY NextExt2Inv, Zenon
<1> QED BY <1>1, <1>2, PTL DEF Ext2Spec

\* A block reads as it was last written, through the cache or around it, whichever requests
\* failed, unless a bulk write threw its value away or a reader cached it in the middle of
\* one (read_fs_blocks, write_fs_blocks).
THEOREM BypassIsCoherent == Ext2Spec => []BypassCoherent
<1>1. Ext2Inv => BypassCoherent
  BY Zenon DEF Ext2Inv, CoherentBut, BypassCoherent, IsDirty
<1> QED BY <1>1, Ext2Inductive, PTL

\* What the device answers a bulk read was current at its flush or has become so since,
\* whatever other tasks do in between (read_fs_blocks).
THEOREM BulkReadIsCurrent == Ext2Spec => []BulkReadSeesLatest
<1>1. Ext2Inv => BulkReadSeesLatest
  BY Zenon DEF Ext2Inv, BulkReadSeesLatest
<1> QED BY <1>1, Ext2Inductive, PTL

\* Nor do the bulk transfers undo what a barrier made durable.
THEOREM Ext2NothingUndone == Ext2Spec => []Recoverable
<1>1. Ext2Inv => Recoverable
  BY Zenon DEF Ext2Inv, Dated, Recoverable
<1> QED BY <1>1, Ext2Inductive, PTL

-----------------------------------------------------------------------------
(* Mounting, syncing and unmounting *)

Accesses == [op : {"read", "super", "desc", "sync"}, b : Block]

\* What a call that is to make the accesses q still has before it: the part of
\* Ordered that does not look at the blocks ...
Well(q, c) ==
  /\ q \in Seq(Accesses)
  /\ \A i \in 1..Len(q) :
       /\ q[i].op = "sync" <=> (i = Len(q) /\ c # "back")
       /\ q[i].op = "super" => q[i].b \in Range(Supers)
       /\ q[i].op = "desc" => q[i].b \in Range(Descs) /\ c \in {"sync", "flush"}
\* ... and everything, when it begins.
Whole(q, c) ==
  /\ Well(q, c)
  /\ q # <<>>
  /\ \A b \in Range(Supers) : Access("super", b) \in Range(q)
  /\ c \in {"sync", "flush"} => \A b \in Range(Descs) : Access("desc", b) \in Range(q)

LEMMA AccessOp == ASSUME NEW op \in {"read", "super", "desc", "sync"}, NEW b \in Block
                  PROVE  /\ Access(op, b) \in Accesses
                         /\ Access(op, b).op = op /\ Access(op, b).b = b
  BY Zenon DEF Access, Accesses

LEMMA RangeOp == ASSUME NEW s \in Seq(Accesses)
                 PROVE  /\ \A i \in 1..Len(s) : s[i] \in Range(s) /\ s[i] \in Accesses
                        /\ \A x \in Range(s) : \E i \in 1..Len(s) : s[i] = x
  BY DEF Range

\* p is s followed by t.
Joins(p, s, t) ==
  /\ p \in Seq(Accesses) /\ Len(p) = Len(s) + Len(t)
  /\ \A i \in 1..Len(p) : \/ i \in 1..Len(s) /\ p[i] = s[i]
                          \/ \E j \in 1..Len(t) : i = Len(s) + j /\ p[i] = t[j]
  /\ Range(s) \subseteq Range(p) /\ Range(t) \subseteq Range(p)

LEMMA ConcatOp ==
  ASSUME NEW s \in Seq(Accesses), NEW t \in Seq(Accesses) PROVE Joins(s \o t, s, t)
<1> DEFINE p == s \o t
<1>1. /\ p \in Seq(Accesses) /\ Len(p) = Len(s) + Len(t)
      /\ \A i \in 1..Len(s) : p[i] = s[i]
      /\ \A i \in 1..Len(t) : p[Len(s) + i] = t[i]
  OBVIOUS
<1>2. Len(s) \in Nat /\ Len(t) \in Nat
  OBVIOUS
<1> HIDE DEF p
<1>3. ASSUME NEW i \in 1..Len(p)
      PROVE  \/ i \in 1..Len(s) /\ p[i] = s[i]
             \/ \E j \in 1..Len(t) : i = Len(s) + j /\ p[i] = t[j]
  <2>1. CASE i > Len(s)
    <3>1. i - Len(s) \in 1..Len(t) /\ i = Len(s) + (i - Len(s))
      BY <1>1, <1>2, <2>1
    <3>2. p[i] = t[i - Len(s)]
      BY <1>1, <3>1, Zenon
    <3> QED BY <3>1, <3>2, Zenon
  <2>2. CASE i \in 1..Len(s)
    BY <1>1, <2>2, Zenon
  <2> QED BY <1>1, <1>2, <2>1, <2>2
<1>4. /\ \A i \in 1..Len(s) : i \in 1..Len(p)
      /\ \A i \in 1..Len(t) : Len(s) + i \in 1..Len(p)
  BY <1>1, <1>2
<1>5. ASSUME NEW x \in Range(s) PROVE x \in Range(p)
  <2>1. PICK i \in 1..Len(s) : s[i] = x
    BY RangeOp, Zenon
  <2> QED BY <1>1, <1>4, <2>1, RangeOp, Zenon
<1>6. ASSUME NEW x \in Range(t) PROVE x \in Range(p)
  <2>1. PICK i \in 1..Len(t) : t[i] = x
    BY RangeOp, Zenon
  <2>2. Len(s) + i \in 1..Len(p) /\ p[Len(s) + i] = x
    BY <1>1, <1>4, <2>1, Zenon
  <2> QED BY <1>1, <2>2, RangeOp, ZenonT(30)
<1> QED BY <1>1, <1>3, <1>5, <1>6, Zenon DEF Joins, p

\* patch_super_block_copy and write_bgdt_at read and write each copy.
LEMMA PatchedOp ==
  ASSUME NEW bs \in Seq(Block), NEW op \in {"super", "desc"}, NEW p, p = Patched(bs, op)
  PROVE  /\ p \in Seq(Accesses) /\ Len(p) = 2 * Len(bs)
         /\ \A i \in 1..Len(p) : p[i].op \in {"read", op} /\ p[i].b \in Range(bs)
         /\ \A b \in Range(bs) : \E i \in 1..Len(p) : p[i] = Access(op, b)
<1>1. \A i \in 1..(2 * Len(bs)) :
        \/ i % 2 = 1 /\ (i + 1) \div 2 \in 1..Len(bs)
        \/ i % 2 # 1 /\ i \div 2 \in 1..Len(bs)
  OBVIOUS
<1>2. \A i \in 1..(2 * Len(bs)) : \E j \in 1..Len(bs) : p[i] \in {Access("read", bs[j]), Access(op, bs[j])}
  BY <1>1, Zenon DEF Patched
<1>3. \A j \in 1..Len(bs) : bs[j] \in Block /\ bs[j] \in Range(bs)
  BY DEF Range
<1>4. \A i \in 1..(2 * Len(bs)) : p[i] \in Accesses /\ p[i].op \in {"read", op} /\ p[i].b \in Range(bs)
  <2>1. ASSUME NEW j \in 1..Len(bs), NEW o \in {"read", op}
        PROVE  /\ Access(o, bs[j]) \in Accesses
               /\ Access(o, bs[j]).op \in {"read", op} /\ Access(o, bs[j]).b \in Range(bs)
    BY <1>3, Zenon DEF Access, Accesses
  <2> QED BY <1>2, <2>1, Zenon
<1>5. p \in Seq(Accesses) /\ Len(p) = 2 * Len(bs)
  <2>1. p \in [1..(2 * Len(bs)) -> Accesses]
    BY <1>4, Zenon DEF Patched
  <2> QED BY <2>1
<1>6. ASSUME NEW b \in Range(bs) PROVE \E i \in 1..Len(p) : p[i] = Access(op, b)
  <2>1. PICK j \in 1..Len(bs) : bs[j] = b
    BY DEF Range
  <2>2. 2 * j \in 1..(2 * Len(bs)) /\ (2 * j) % 2 # 1 /\ (2 * j) \div 2 = j
    OBVIOUS
  <2>3. p[2 * j] = Access(op, bs[j])
    BY <2>2, Zenon DEF Patched
  <2> QED BY <1>5, <2>1, <2>2, <2>3, Zenon
<1> QED BY <1>4, <1>5, <1>6, Zenon

\* The calls write every copy and end with a barrier.
LEMMA CallsWhole ==
  /\ Whole(WriteSuperBlock, "back")
  /\ \A c \in {"mount", "mark"} : Whole(WriteSuperBlock \o Barrier, c)
  /\ \A c \in {"sync", "flush"} : Whole(Flush, c)
<1> DEFINE s == WriteSuperBlock
           d == WriteBlockGroupDescriptors
           e == Barrier
<1>1. /\ Supers \in Seq(Block) /\ Len(Supers) > 0 /\ Descs \in Seq(Block) /\ Primary \in Block
  BY Ext2MountAssumption DEF Primary
<1>2. /\ s \in Seq(Accesses) /\ Len(s) > 0
      /\ \A i \in 1..Len(s) : s[i].op \in {"read", "super"} /\ s[i].b \in Range(Supers)
      /\ \A b \in Range(Supers) : \E i \in 1..Len(s) : s[i] = Access("super", b)
  BY <1>1, PatchedOp DEF WriteSuperBlock
<1>3. /\ d \in Seq(Accesses)
      /\ \A i \in 1..Len(d) : d[i].op \in {"read", "desc"} /\ d[i].b \in Range(Descs)
      /\ \A b \in Range(Descs) : \E i \in 1..Len(d) : d[i] = Access("desc", b)
  BY <1>1, PatchedOp DEF WriteBlockGroupDescriptors
<1>4. e \in Seq(Accesses) /\ Len(e) = 1 /\ e[1].op = "sync"
  BY <1>1, AccessOp DEF Barrier
<1> HIDE DEF s, d, e
<1>5. Whole(s, "back")
  <2>1. Well(s, "back")
    BY <1>2, Zenon DEF Well
  <2> QED BY <1>2, <2>1, RangeOp DEF Whole
<1>6. ASSUME NEW c \in {"mount", "mark"} PROVE Whole(s \o e, c)
  <2> DEFINE p == s \o e
  <2>1. Joins(p, s, e)
    BY <1>2, <1>4, ConcatOp, Zenon
  <2> HIDE DEF p
  <2>2. Well(p, c)
    BY <1>2, <1>4, <2>1, SMTT(60) DEF Well, Joins
  <2>3. \A b \in Range(Supers) : Access("super", b) \in Range(p)
    BY <1>2, <2>1, RangeOp, Zenon DEF Joins
  <2>4. Whole(p, c)
    BY <1>2, <1>4, <2>1, <2>2, <2>3 DEF Whole, Joins
  <2> QED BY <2>4, Zenon DEF p
<1>7. ASSUME NEW c \in {"sync", "flush"} PROVE Whole(s \o d \o e, c)
  <2> DEFINE q == s \o d
             p == q \o e
  <2>1. Joins(q, s, d)
    BY <1>2, <1>3, ConcatOp, Zenon
  <2> HIDE DEF q
  <2>2. Joins(p, q, e)
    BY <1>4, <2>1, ConcatOp, ZenonT(30) DEF Joins
  <2> HIDE DEF p
  <2>3. \A i \in 1..Len(q) :
          \/ q[i].op \in {"read", "super"} /\ q[i].b \in Range(Supers)
          \/ q[i].op \in {"read", "desc"} /\ q[i].b \in Range(Descs)
    BY <1>2, <1>3, <2>1, Zenon DEF Joins
  <2>4. \A i \in 1..Len(p) :
          \/ i = Len(p) /\ p[i].op = "sync"
          \/ i # Len(p) /\ p[i].op \in {"read", "super"} /\ p[i].b \in Range(Supers)
          \/ i # Len(p) /\ p[i].op \in {"read", "desc"} /\ p[i].b \in Range(Descs)
    <3>1. /\ Len(q) \in Nat /\ Len(p) = Len(q) + 1
          /\ \A i \in 1..Len(p) : (i \in 1..Len(q) /\ p[i] = q[i]) \/ (i = Len(p) /\ p[i] = e[1])
      BY <1>4, <2>1, <2>2 DEF Joins
    <3> QED BY <1>4, <2>3, <3>1
  <2>5. Well(p, c)
    BY <2>2, <2>4, Zenon DEF Well, Joins
  <2>6. /\ \A b \in Range(Supers) : Access("super", b) \in Range(s)
        /\ \A b \in Range(Descs) : Access("desc", b) \in Range(d)
    <3>1. ASSUME NEW b \in Range(Supers) PROVE Access("super", b) \in Range(s)
      <4>1. PICK i \in 1..Len(s) : s[i] = Access("super", b)
        BY <1>2, Zenon
      <4> QED BY <1>2, <4>1, RangeOp, Zenon
    <3>2. ASSUME NEW b \in Range(Descs) PROVE Access("desc", b) \in Range(d)
      <4>1. PICK i \in 1..Len(d) : d[i] = Access("desc", b)
        BY <1>3, Zenon
      <4> QED BY <1>3, <4>1, RangeOp, Zenon
    <3> QED BY <3>1, <3>2, Zenon
  <2>7. Range(s) \subseteq Range(p) /\ Range(d) \subseteq Range(p) /\ p # <<>>
    BY <1>2, <1>3, <1>4, <2>1, <2>2 DEF Joins
  <2>8. Whole(p, c)
    BY <2>5, <2>6, <2>7, Zenon DEF Whole
  <2> QED BY <2>8, Zenon DEF p, q
<1> QED BY <1>5, <1>6, <1>7, Zenon DEF Flush, s, d, e

\* After one access: the next one is its successor, and what was left is left.
LEMMA TailOp ==
  ASSUME NEW q \in Seq(Accesses), NEW c, Well(q, c), Len(q) > 0
  PROVE  /\ Head(q) \in Accesses /\ Head(q) = q[1]
         /\ Well(Tail(q), c)
         /\ \A x \in Range(q) : x = Head(q) \/ x \in Range(Tail(q))
         /\ Tail(q) = <<>> <=> (Head(q).op = "sync" \/ (c = "back" /\ Len(q) = 1))
         /\ Head(q).op = "super" => Head(q).b \in Range(Supers)
         /\ Head(q).op = "desc" => Head(q).b \in Range(Descs) /\ c \in {"sync", "flush"}
         /\ Head(q).op = "sync" => c # "back"
<1> DEFINE t == Tail(q)
<1>1. q \in Seq(Accesses) /\ Len(q) \in Nat /\ Len(q) > 0
  OBVIOUS
<1>2. /\ Head(q) = q[1] /\ q[1] \in Accesses
      /\ t \in Seq(Accesses) /\ Len(t) = Len(q) - 1
      /\ \A i \in 1..Len(t) : t[i] = q[i + 1]
  BY <1>1
<1> HIDE DEF t
<1>3. t = <<>> <=> Len(q) = 1
  BY <1>1, <1>2, SMTT(30)
<1>4. \A i \in 1..Len(t) : i + 1 \in 1..Len(q) /\ (i = Len(t) <=> i + 1 = Len(q))
  BY <1>1, <1>2
<1>5. Well(t, c)
  BY <1>2, <1>4, ZenonT(30) DEF Well
<1>6. ASSUME NEW x \in Range(q) PROVE x = q[1] \/ x \in Range(t)
  <2>1. PICK i \in 1..Len(q) : q[i] = x
    BY <1>1, RangeOp, Zenon
  <2>2. CASE i # 1
    <3>1. i - 1 \in 1..Len(t) /\ t[i - 1] = q[i]
      BY <1>1, <1>2, <2>2
    <3> QED BY <1>2, <2>1, <3>1, RangeOp, Zenon
  <2> QED BY <2>1, <2>2, Zenon
<1>7. 1 \in 1..Len(q)
  BY <1>1
<1> QED BY <1>1, <1>2, <1>3, <1>5, <1>6, <1>7, Zenon DEF Well, t

\* Where the superblocks, the descriptors and the bitmaps are.
Core == {Primary, Descs[1]} \cup Range(BitmapOf)

LEMMA LayoutOp ==
  /\ Primary \in Block /\ Primary \in Range(Supers)
  /\ Descs[1] \in Block /\ Descs[1] \in Range(Descs)
  /\ Range(Supers) \subseteq Block /\ Range(Descs) \subseteq Block
  /\ \A b \in Range(Supers) : b \notin Range(Descs)
  /\ \A u \in Unit : /\ BitmapOf[u] \in Block /\ BitmapOf[u] \in Range(BitmapOf)
                     /\ BitmapOf[u] \notin Range(Supers) /\ BitmapOf[u] \notin Range(Descs)
  /\ \A b \in Range(BitmapOf) : b \in Block /\ b \notin Range(Supers) /\ b \notin Range(Descs)
  /\ Core \subseteq Block
  /\ Contents \subseteq Value
<1>1. Supers \in Seq(Block) /\ Len(Supers) > 0 /\ Descs \in Seq(Block) /\ Len(Descs) > 0
  BY Ext2MountAssumption
<1>2. /\ Primary \in Block /\ Primary \in Range(Supers)
      /\ Descs[1] \in Block /\ Descs[1] \in Range(Descs)
      /\ Range(Supers) \subseteq Block /\ Range(Descs) \subseteq Block
  BY <1>1 DEF Primary, Range
<1>3. /\ BitmapOf \in [Unit -> Block \ (Range(Supers) \cup Range(Descs))]
      /\ \A b \in Range(Supers) : b \notin Range(Descs)
      /\ Contents \subseteq Value
  BY Ext2MountAssumption, Zenon DEF Contents
<1>4. /\ \A u \in Unit : /\ BitmapOf[u] \in Block /\ BitmapOf[u] \in Range(BitmapOf)
                         /\ BitmapOf[u] \notin Range(Supers) /\ BitmapOf[u] \notin Range(Descs)
      /\ \A b \in Range(BitmapOf) : b \in Block /\ b \notin Range(Supers) /\ b \notin Range(Descs)
  BY <1>3, Zenon DEF Range
<1> QED BY <1>2, <1>3, <1>4, ZenonT(30) DEF Core

LEMMA ContentOp == ASSUME NEW c \in BOOLEAN, NEW n \in SUBSET Unit
                   PROVE  /\ Content(c, n) \in Contents
                          /\ Content(c, n).clean = c /\ Content(c, n).n = n
  BY Zenon DEF Content, Contents

\* The images and the counters after an access of a call.
Stored ==
  /\ vol' \in [Block -> Contents] /\ disk' \in [Block -> Contents] /\ latest' \in [Block -> Contents]
  /\ st = "mounted" /\ call # "mark" /\ ~exposed =>
       ~disk'[Primary].clean /\ ~vol'[Primary].clean /\ ~latest'[Primary].clean
  /\ checked /\ st = "mounted" => sb.n = Used(latest') /\ bg = Used(latest')
  /\ checked /\ (st \in {"open", "failed", "unmounted"} \/ call = "mark") =>
       /\ \A b \in Core : disk'[b].n = latest'[b].n /\ vol'[b].n = latest'[b].n
       /\ sb.n = latest'[Primary].n /\ bg = latest'[Descs[1]].n
       /\ Consistent(latest')

\* An access stores nothing, or the superblock or the descriptors in one of their copies.
Writes ==
  \/ latest' = latest
  \/ \E b \in Range(Supers) : latest' = [latest EXCEPT ![b] = sb]
  \/ \E b \in Range(Descs) :
       call \in {"sync", "flush"} /\ latest' = [latest EXCEPT ![b] = Content(FALSE, bg)]

LEMMA WritesStored ==
  ASSUME MountInv, CacheInv', Moved, Writes, call # "none" \/ latest' = latest
  PROVE  Stored
<1>1. /\ vol \in [Block -> Contents] /\ disk \in [Block -> Contents] /\ latest \in [Block -> Contents]
      /\ sb \in Contents /\ Content(FALSE, bg) \in Contents /\ Content(FALSE, bg).n = bg
      /\ Content(FALSE, bg).clean = FALSE
  BY ContentOp, ZenonT(30) DEF MountInv, MountTypeOK
<1>2. /\ \A x \in Block : latest'[x] \in Contents
      /\ \A x \in Block : x \notin Range(Supers) /\ x \notin Range(Descs) => latest'[x] = latest[x]
      /\ st = "mounted" /\ call # "mark" /\ ~exposed => ~latest'[Primary].clean
      /\ checked /\ (st \in {"open", "failed", "unmounted"} \/ call = "mark") =>
           \A x \in Core : latest'[x].n = latest[x].n
  <2>1. CASE latest' = latest
    BY <1>1, <2>1, LayoutOp, Zenon DEF MountInv, Marked
  <2>2. ASSUME NEW b \in Range(Supers), latest' = [latest EXCEPT ![b] = sb], call # "none"
        PROVE  <1>2
    <3>1. /\ b \in Block /\ latest'[b] = sb
          /\ \A x \in Block : x # b => latest'[x] = latest[x]
      BY <1>1, <2>2, LayoutOp, Zenon
    <3>2. st = "mounted" /\ call # "mark" /\ ~exposed => ~latest'[Primary].clean
      BY <3>1, LayoutOp, Zenon DEF MountInv, Marked
    <3>3. ASSUME checked, st \in {"open", "failed", "unmounted"} \/ call = "mark", NEW x \in Core
          PROVE  latest'[x].n = latest[x].n
      <4>1. sb.n = latest[Primary].n
        BY <3>3, Zenon DEF MountInv, Counted
      <4>2. x = b => x = Primary
        BY LayoutOp, Zenon DEF Core
      <4> QED BY <3>1, <4>1, <4>2, LayoutOp, Zenon
    <3> QED BY <1>1, <3>1, <3>2, <3>3, LayoutOp, Zenon
  <2>3. ASSUME NEW b \in Range(Descs), call \in {"sync", "flush"},
               latest' = [latest EXCEPT ![b] = Content(FALSE, bg)]
        PROVE  <1>2
    <3>1. /\ b \in Block /\ latest'[b] = Content(FALSE, bg)
          /\ \A x \in Block : x # b => latest'[x] = latest[x]
      BY <1>1, <2>3, LayoutOp, ZenonT(30)
    <3>2. st = "mounted" /\ Primary # b
      BY <2>3, LayoutOp DEF MountInv, MountTypeOK
    <3>3. call # "mark" /\ latest'[Primary] = latest[Primary]
      BY <2>3, <3>1, <3>2, LayoutOp, Zenon
    <3>4. ~exposed => ~latest'[Primary].clean
      BY <3>2, <3>3, Zenon DEF MountInv, Marked
    <3>5. \A x \in Block : latest'[x] \in Contents
      BY <1>1, <3>1, ZenonT(30)
    <3> QED BY <3>1, <3>2, <3>3, <3>4, <3>5, Zenon
  <2> QED BY <2>1, <2>2, <2>3, ZenonT(30) DEF Writes
<1>3. vol' \in [Block -> Value] /\ disk' \in [Block -> Value] /\ latest' \in [Block -> Value]
  BY Zenon DEF CacheInv, CacheBut, StoreTypeOK
<1>4. \A x \in Block : vol'[x] \in {disk[x], vol[x], latest'[x]} /\ disk'[x] \in {disk[x], vol[x], latest'[x]}
  BY Zenon DEF Moved
<1>5. vol' \in [Block -> Contents] /\ disk' \in [Block -> Contents] /\ latest' \in [Block -> Contents]
  BY <1>1, <1>2, <1>3, <1>4, Zenon
<1>6. ASSUME st = "mounted", call # "mark", ~exposed
      PROVE  ~disk'[Primary].clean /\ ~vol'[Primary].clean /\ ~latest'[Primary].clean
  <2>1. ~disk[Primary].clean /\ ~vol[Primary].clean
    BY <1>6, Zenon DEF MountInv, Marked
  <2> QED BY <1>2, <1>4, <1>6, <2>1, LayoutOp, Zenon
<1>7. Used(latest') = Used(latest)
  BY <1>2, LayoutOp, ZenonT(30) DEF Used
<1>8. checked /\ st = "mounted" => sb.n = Used(latest') /\ bg = Used(latest')
  BY <1>7, Zenon DEF MountInv, Counted
<1>9. ASSUME checked, st \in {"open", "failed", "unmounted"} \/ call = "mark"
      PROVE  /\ \A b \in Core : disk'[b].n = latest'[b].n /\ vol'[b].n = latest'[b].n
             /\ sb.n = latest'[Primary].n /\ bg = latest'[Descs[1]].n
             /\ Consistent(latest')
  <2>1. /\ \A b \in Core : disk[b].n = latest[b].n /\ vol[b].n = latest[b].n
        /\ sb.n = latest[Primary].n /\ bg = latest[Descs[1]].n
        /\ Consistent(latest)
    BY <1>9, Zenon DEF MountInv, Counted, Core
  <2>2. /\ \A x \in Core : latest'[x].n = latest[x].n
        /\ Primary \in Core /\ Descs[1] \in Core
    BY <1>2, <1>9, Zenon DEF Core
  <2>3. \A b \in Core : disk'[b].n = latest'[b].n /\ vol'[b].n = latest'[b].n
    BY <1>4, <2>1, <2>2, LayoutOp
  <2> QED BY <1>7, <2>1, <2>2, <2>3, Zenon DEF Consistent
<1> QED BY <1>5, <1>6, <1>8, <1>9, Zenon DEF Stored

\* The control part of an access that succeeds ...
LEMMA ContinuesOrdered ==
  ASSUME MountInv, accesses # <<>>, Continues,
         Head(accesses).op = "sync" => Synced',
         \A b \in Range(Supers) :
           latest[b] = sb \/ Head(accesses) = Access("super", b) => latest'[b] = sb,
         \A b \in Range(Descs) :
           latest[b] = Content(FALSE, bg) \/ Head(accesses) = Access("desc", b)
             => latest'[b] = Content(FALSE, bg)
  PROVE  Ordered'
<1>1. /\ accesses \in Seq(Accesses) /\ Len(accesses) > 0
      /\ Well(accesses, call)
  BY DEF MountInv, MountTypeOK, Ordered, Well, Accesses
<1>2. accesses' = Tail(accesses) /\ UNCHANGED <<sb, bg, st, call>>
  BY Zenon DEF Continues
<1>3. /\ Well(accesses', call)
      /\ \A x \in Range(accesses) : x = Head(accesses) \/ x \in Range(accesses')
      /\ accesses' = <<>> => Head(accesses).op = "sync" \/ call = "back"
  BY <1>1, <1>2, TailOp, Zenon
<1>4. call # "none" /\ st \notin {"closed", "unmounted"}
  BY Zenon DEF MountInv, Ordered, MountTypeOK
<1>5. \A b \in Range(Supers) : latest'[b] = sb \/ Access("super", b) \in Range(accesses')
  BY <1>3, <1>4, Zenon DEF MountInv, Ordered
<1>6. call \in {"sync", "flush"} =>
        \A b \in Range(Descs) : latest'[b] = Content(FALSE, bg) \/ Access("desc", b) \in Range(accesses')
  BY <1>3, ZenonT(30) DEF MountInv, Ordered
<1>7. accesses' = <<>> /\ call # "back" => Synced'
  BY <1>3, Zenon
<1> QED BY <1>2, <1>3, <1>4, <1>5, <1>6, <1>7, ZenonT(30) DEF Ordered, Well

LEMMA ContinuesKeeps ==
  ASSUME MountInv, CacheInv', Stored, accesses # <<>>, Continues, UNCHANGED previous, Ordered'
  PROVE  MountInv'
<1>1. UNCHANGED <<sb, bg, st, call, checked, exposed, previous>>
  BY Zenon DEF Continues, historyVars
<1>2. call # "none" /\ st \notin {"closed", "unmounted"}
  BY Zenon DEF MountInv, Ordered, MountTypeOK
<1>3. MountTypeOK'
  <2>1. accesses' \in Seq(Accesses)
    BY DEF Continues, MountInv, MountTypeOK, Accesses
  <2> QED BY <1>1, <2>1, Zenon DEF Stored, MountInv, MountTypeOK, Accesses
<1>4. Marked'
  BY <1>1, <1>2 DEF Stored, MountInv, Marked
<1>5. Counted'
  BY <1>1, <1>2, Zenon DEF Stored, Counted, Core
<1> QED BY <1>3, <1>4, <1>5, Zenon DEF MountInv

\* ... and of one that fails.
LEMMA FailsKeeps ==
  ASSUME MountInv, CacheInv', Stored, accesses # <<>>, Fails, UNCHANGED previous
  PROVE  MountInv'
<1>1. call # "none" /\ st \notin {"closed", "unmounted"}
  BY Zenon DEF MountInv, Ordered, MountTypeOK
<1>2. CASE call \in {"mount", "mark"}
  <2>1. /\ sb' = [sb EXCEPT !.clean = previous] /\ call' = "back" /\ accesses' = WriteSuperBlock
        /\ st' = (IF call = "mount" THEN "failed" ELSE st)
        /\ exposed' = (exposed \/ call = "mark")
        /\ UNCHANGED <<bg, checked, previous>>
    BY <1>2, Zenon DEF Fails, Busy
  <2>2. sb' \in Contents /\ sb'.n = sb.n /\ sb'.clean = previous
    BY <2>1, ZenonT(30) DEF MountInv, MountTypeOK, Contents
  <2>3. Whole(accesses', "back")
    BY <2>1, CallsWhole, Zenon
  <2>4. MountTypeOK'
    BY <1>2, <2>1, <2>2, <2>3, Zenon DEF Stored, MountInv, MountTypeOK, Whole, Well, Accesses
  <2>5. Ordered'
    BY <1>1, <2>1, <2>3, Zenon DEF Ordered, Whole, Well
  <2>6. CASE call = "mount"
    <3>1. st = "open" /\ st' = "failed" /\ ~exposed'
      BY <2>1, <2>6, ZenonT(30) DEF MountInv, MountTypeOK, Marked
    <3>2. Marked'
      BY <2>1, <3>1, Zenon DEF Marked
    <3>3. Counted'
      BY <2>1, <2>2, <3>1, Zenon DEF Stored, Counted, Core
    <3> QED BY <2>4, <2>5, <3>2, <3>3, Zenon DEF MountInv
  <2>7. CASE call = "mark"
    <3>1. st = "mounted" /\ st' = "mounted" /\ exposed' /\ ~previous
      BY <2>1, <2>7, ZenonT(30) DEF MountInv, MountTypeOK, Marked
    <3>2. Marked'
      BY <2>1, <2>2, <3>1, Zenon DEF Marked
    <3>3. Counted'
      BY <2>1, <2>2, <3>1, Zenon DEF Stored, Counted
    <3> QED BY <2>4, <2>5, <3>2, <3>3 DEF MountInv
  <2> QED BY <1>2, <2>6, <2>7, Zenon
<1>3. CASE call \notin {"mount", "mark"}
  <2>1. /\ call' = "none" /\ accesses' = <<>>
        /\ UNCHANGED <<sb, st, exposed, bg, checked, previous>>
    BY <1>3, Zenon DEF Fails, Busy
  <2>2. MountTypeOK'
    BY <1>1, <2>1 DEF Stored, MountInv, MountTypeOK
  <2>3. Ordered'
    BY <1>1, <2>1 DEF Ordered
  <2>4. Marked'
    BY <1>1, <1>3, <2>1, Zenon DEF Stored, MountInv, Marked
  <2>5. Counted'
    BY <1>1, <2>1, Zenon DEF Stored, Counted, Core
  <2> QED BY <2>2, <2>3, <2>4, <2>5 DEF MountInv
<1> QED BY <1>2, <1>3, Zenon

\* One access of a call, to the cache and in its plan.
LEMMA StepKeeps == ASSUME MountInv, Step PROVE MountInv'
<1> DEFINE a == Head(accesses)
<1>1. accesses # <<>> /\ UNCHANGED previous /\ CacheInv
  BY Zenon DEF Step, MountInv
<1>2. /\ a \in Accesses
      /\ a.op = "super" => a.b \in Range(Supers)
      /\ a.op = "desc" => a.b \in Range(Descs) /\ call \in {"sync", "flush"}
  <2>1. accesses \in Seq(Accesses) /\ Len(accesses) > 0 /\ Well(accesses, call)
    BY <1>1 DEF MountInv, MountTypeOK, Ordered, Well, Accesses
  <2> QED BY <2>1, TailOp, Zenon
<1>3. a.b \in Block /\ call # "none" /\ sb \in Contents /\ latest \in [Block -> Contents]
  BY <1>1, <1>2, Zenon DEF Accesses, MountInv, Ordered, MountTypeOK
<1>4. Content(FALSE, bg) \in Contents
  BY ContentOp, ZenonT(30) DEF MountInv, MountTypeOK
<1>5. \A op \in {"super", "desc"}, b \in Block : a = Access(op, b) => a.op = op /\ a.b = b
  BY AccessOp
<1> HIDE DEF a
<1>6. ASSUME a.op = "read", ReadBlockCached(a.b), Outcome(a.b) PROVE MountInv'
  <2>1. CacheInv' /\ Moved /\ latest' = latest
    BY <1>1, <1>3, <1>6, ReadKeeps, ZenonT(30)
  <2>2. Stored
    BY <2>1, WritesStored, Zenon DEF Writes
  <2>3. ASSUME Continues PROVE MountInv'
    <3>1. Ordered'
      BY <1>1, <1>5, <1>6, <2>1, <2>3, LayoutOp, ContinuesOrdered, ZenonT(30) DEF a
    <3> QED BY <1>1, <2>1, <2>2, <2>3, <3>1, ContinuesKeeps, Zenon
  <2> QED BY <1>1, <1>6, <2>1, <2>2, <2>3, FailsKeeps, Zenon DEF Outcome
<1>7. ASSUME UNCHANGED vars, Fails PROVE MountInv'
  <2>1. UNCHANGED <<cache, vol, disk, latest, since>>
    BY <1>7, Zenon DEF vars, devVars, ghostVars
  <2>2. CacheInv' /\ Moved /\ latest' = latest
    BY <1>1, <2>1, Zenon DEF CacheInv, CacheBut, StoreTypeOK, CoherentBut, IsDirty, Dated, Cached, Moved
  <2>3. Stored
    BY <2>2, WritesStored DEF Writes
  <2> QED BY <1>1, <1>7, <2>2, <2>3, FailsKeeps, Zenon
<1>8. ASSUME a.op = "super", WriteBlockCached(a.b, sb), Outcome(a.b) PROVE MountInv'
  <2>1. CacheInv' /\ Moved /\ latest' = [latest EXCEPT ![a.b] = sb]
    BY <1>1, <1>3, <1>8, LayoutOp, WriteKeeps, ZenonT(30)
  <2>2. Stored
    BY <1>2, <1>3, <1>8, <2>1, WritesStored, ZenonT(30) DEF Writes
  <2>3. latest'[a.b] = sb /\ \A b \in Block : b # a.b => latest'[b] = latest[b]
    BY <1>3, <2>1, Zenon
  <2>4. ASSUME Continues PROVE MountInv'
    <3>1. \A b \in Range(Supers) : latest[b] = sb \/ a = Access("super", b) => latest'[b] = sb
      BY <1>5, <2>3, LayoutOp
    <3>2. \A b \in Range(Descs) : b # a.b /\ a # Access("desc", b)
      BY <1>2, <1>5, <1>8, LayoutOp, Zenon
    <3>3. Ordered'
      BY <1>1, <1>8, <2>3, <2>4, <3>1, <3>2, LayoutOp, ContinuesOrdered, ZenonT(30) DEF a
    <3> QED BY <1>1, <2>1, <2>2, <2>4, <3>3, ContinuesKeeps, Zenon
  <2> QED BY <1>1, <1>8, <2>1, <2>2, <2>4, FailsKeeps, Zenon DEF Outcome
<1>9. ASSUME a.op = "desc", WriteBlockCached(a.b, Content(FALSE, bg)), Outcome(a.b) PROVE MountInv'
  <2>1. CacheInv' /\ Moved /\ latest' = [latest EXCEPT ![a.b] = Content(FALSE, bg)]
    BY <1>1, <1>3, <1>4, <1>9, LayoutOp, WriteKeeps, ZenonT(30)
  <2>2. Stored
    BY <1>2, <1>3, <1>9, <2>1, WritesStored, ZenonT(30) DEF Writes
  <2>3. latest'[a.b] = Content(FALSE, bg) /\ \A b \in Block : b # a.b => latest'[b] = latest[b]
    BY <1>3, <2>1, ZenonT(30)
  <2>4. ASSUME Continues PROVE MountInv'
    <3>1. \A b \in Range(Descs) :
            latest[b] = Content(FALSE, bg) \/ a = Access("desc", b) => latest'[b] = Content(FALSE, bg)
      BY <1>5, <2>3, LayoutOp, ZenonT(30)
    <3>2. \A b \in Range(Supers) : b # a.b /\ a # Access("super", b)
      BY <1>2, <1>5, <1>9, LayoutOp, Zenon
    <3>3. Ordered'
      BY <1>1, <1>9, <2>3, <2>4, <3>1, <3>2, LayoutOp, ContinuesOrdered, ZenonT(30) DEF a
    <3> QED BY <1>1, <2>1, <2>2, <2>4, <3>3, ContinuesKeeps, Zenon
  <2> QED BY <1>1, <1>9, <2>1, <2>2, <2>4, FailsKeeps, Zenon DEF Outcome
<1>10. ASSUME a.op = "sync", WriteBack(Block), Continues PROVE MountInv'
  <2>1. CacheInv' /\ Moved /\ latest' = latest /\ disk' = vol' /\ \A x \in Block : vol'[x] = latest'[x]
    BY <1>1, <1>10, WriteBackKeeps, Zenon
  <2>2. Synced'
    BY <2>1 DEF CacheInv, CacheBut, StoreTypeOK, Synced
  <2>3. Stored
    BY <2>1, WritesStored, Zenon DEF Writes
  <2>4. Ordered'
    BY <1>1, <1>5, <1>10, <2>1, <2>2, LayoutOp, ContinuesOrdered, ZenonT(30) DEF a
  <2> QED BY <1>1, <1>10, <2>1, <2>3, <2>4, ContinuesKeeps, Zenon
<1>11. ASSUME WriteBackFails(Block), Fails PROVE MountInv'
  <2>1. CacheInv' /\ Moved /\ latest' = latest
    BY <1>1, <1>11, WriteBackFailsKeeps, Zenon
  <2>2. Stored
    BY <2>1, WritesStored DEF Writes
  <2> QED BY <1>1, <1>11, <2>1, <2>2, FailsKeeps, Zenon
<1> QED BY <1>6, <1>7, <1>8, <1>9, <1>10, <1>11, ZenonT(30) DEF Step, a

\* mount, sync and unmount begin; nothing is accessed yet.
LEMMA CallKeeps ==
  ASSUME MountInv, Mount \/ SyncCall \/ Unmount
  PROVE  MountInv'
<1>1. CacheInv' /\ UNCHANGED <<vol, disk, latest, checked, exposed, bg, st>>
  BY Zenon DEF Mount, SyncCall, Unmount, Quiet, vars, devVars, ghostVars, historyVars,
         MountInv, CacheInv, CacheBut, StoreTypeOK, CoherentBut, IsDirty, Dated, Cached
<1>2. Whole(accesses', call') /\ call' \in {"mount", "sync", "flush"}
  BY CallsWhole, ZenonT(30) DEF Mount, SyncCall, Unmount, Busy
<1>3. CASE Mount
  <2>1. /\ st = "open" /\ call' = "mount"
        /\ previous' = sb.clean /\ sb' = [sb EXCEPT !.clean = FALSE]
    BY <1>3, Zenon DEF Mount, Busy
  <2>2. sb' \in Contents /\ sb'.n = sb.n /\ sb'.clean = FALSE /\ previous' \in BOOLEAN
    BY <2>1, ZenonT(30) DEF MountInv, MountTypeOK, Contents
  <2>3. MountTypeOK'
    BY <1>1, <1>2, <2>1, <2>2, Zenon DEF MountInv, MountTypeOK, Whole, Well, Accesses
  <2>4. Ordered'
    BY <1>1, <1>2, <2>1, Zenon DEF Ordered, Whole, Well
  <2>5. Marked'
    BY <1>1, <2>1, <2>2, Zenon DEF MountInv, Marked
  <2>6. Counted'
    BY <1>1, <2>1, <2>2, Zenon DEF MountInv, Counted, Consistent, Used
  <2> QED BY <1>1, <2>3, <2>4, <2>5, <2>6, Zenon DEF MountInv
<1>4. CASE SyncCall \/ Unmount
  <2>1. st = "mounted" /\ call = "none" /\ call' \in {"sync", "flush"} /\ UNCHANGED <<sb, previous>>
    BY <1>4, Zenon DEF SyncCall, Unmount, Busy
  <2>2. MountTypeOK'
    BY <1>1, <1>2, <2>1, Zenon DEF MountInv, MountTypeOK, Whole, Well, Accesses
  <2>3. Ordered'
    BY <1>1, <1>2, <2>1, ZenonT(30) DEF Ordered, Whole, Well
  <2>4. Marked'
    BY <1>1, <2>1, Zenon DEF MountInv, Marked
  <2>5. Counted'
    BY <1>1, <2>1, Zenon DEF MountInv, Counted, Used
  <2> QED BY <1>1, <2>2, <2>3, <2>4, <2>5 DEF MountInv
<1> QED BY <1>3, <1>4, Zenon

\* An allocation or a release moves the bitmap and both counters alike.
LEMMA ChangeKeeps == ASSUME MountInv, NEW u \in Unit, Change(u) PROVE MountInv'
<1> DEFINE b == BitmapOf[u]
           Flip(S) == IF u \in latest[b].n THEN S \ {u} ELSE S \cup {u}
           v == Content(FALSE, Flip(latest[b].n))
<1>1. /\ st = "mounted" /\ call = "none" /\ WriteBlockCached(b, v)
      /\ sb' = Content(sb.clean, Flip(sb.n)) /\ bg' = Flip(bg)
      /\ UNCHANGED <<previous, st, call, accesses, checked, exposed>>
  BY ZenonT(30) DEF Change, historyVars
<1>2. /\ b \in Block /\ b # Primary /\ b # Descs[1]
      /\ latest \in [Block -> Contents] /\ sb \in Contents /\ bg \in SUBSET Unit
      /\ vol \in [Block -> Contents] /\ disk \in [Block -> Contents]
  BY LayoutOp, Zenon DEF MountInv, MountTypeOK
<1>3. latest[b].n \in SUBSET Unit /\ sb.n \in SUBSET Unit /\ sb.clean \in BOOLEAN
  BY <1>2, ZenonT(30) DEF Contents
<1>4. /\ Flip(latest[b].n) \in SUBSET Unit /\ Flip(sb.n) \in SUBSET Unit /\ Flip(bg) \in SUBSET Unit
  BY <1>2, <1>3, Zenon
<1>5. /\ v \in Contents /\ v.n = Flip(latest[b].n)
      /\ sb' \in Contents /\ sb'.n = Flip(sb.n) /\ sb'.clean = sb.clean
  BY <1>1, <1>3, <1>4, ContentOp, ZenonT(30)
<1>6. CacheInv' /\ Moved /\ latest' = [latest EXCEPT ![b] = v]
  BY <1>1, <1>2, <1>5, LayoutOp, WriteKeeps, ZenonT(30) DEF MountInv
<1>7. latest'[b] = v /\ \A x \in Block : x # b => latest'[x] = latest[x]
  BY <1>2, <1>6, ZenonT(30)
<1>8. checked => sb'.n = Used(latest') /\ bg' = Used(latest')
  <2> SUFFICES ASSUME checked PROVE Flip(Used(latest)) = Used(latest')
    BY <1>1, <1>5, ZenonT(30) DEF MountInv, Counted
  <2>1. ASSUME NEW w \in Unit, w # u
        PROVE  w \in latest'[BitmapOf[w]].n <=> w \in latest[BitmapOf[w]].n
    <3>1. CASE BitmapOf[w] = b
      <4>1. w \in Flip(latest[b].n) <=> w \in latest[b].n
        BY <2>1, Zenon
      <4> QED BY <1>5, <1>7, <3>1, <4>1, ZenonT(30)
    <3>2. CASE BitmapOf[w] # b
      <4>1. latest'[BitmapOf[w]] = latest[BitmapOf[w]]
        BY <1>7, <3>2, LayoutOp, ZenonT(30)
      <4> QED BY <4>1, Zenon
    <3> QED BY <3>1, <3>2, Zenon
  <2>2. u \in latest'[BitmapOf[u]].n <=> u \notin latest[b].n
    BY <1>5, <1>7, ZenonT(30)
  <2> QED BY <2>1, <2>2, Zenon DEF Used
<1> HIDE DEF b, v
<1>9. vol' \in [Block -> Contents] /\ disk' \in [Block -> Contents] /\ latest' \in [Block -> Contents]
  <2>1. \A x \in Block : latest'[x] \in Contents
    BY <1>2, <1>5, <1>7, Zenon
  <2>2. vol' \in [Block -> Value] /\ disk' \in [Block -> Value] /\ latest' \in [Block -> Value]
    BY <1>6, Zenon DEF CacheInv, CacheBut, StoreTypeOK
  <2> QED BY <1>2, <1>6, <2>1, <2>2, Zenon DEF Moved
<1>10. MountTypeOK'
  <2>1. bg' \in SUBSET Unit
    BY <1>1, <1>4, Zenon
  <2> QED BY <1>1, <1>5, <1>9, <2>1, Zenon DEF MountInv, MountTypeOK
<1>11. Ordered'
  BY <1>1, Zenon DEF MountInv, Ordered
<1>12. ASSUME ~exposed PROVE ~disk'[Primary].clean /\ ~vol'[Primary].clean /\ ~latest'[Primary].clean
  <2>1. ~disk[Primary].clean /\ ~vol[Primary].clean /\ ~latest[Primary].clean
    BY <1>1, <1>12, Zenon DEF MountInv, Marked
  <2>2. latest'[Primary] = latest[Primary] /\ Primary \in Block
    BY <1>2, <1>7, LayoutOp, Zenon
  <2> QED BY <1>6, <2>1, <2>2, Zenon DEF Moved
<1>13. Marked'
  <2>1. ~sb.clean
    BY <1>1, Zenon DEF MountInv, Marked
  <2> QED BY <1>1, <1>5, <1>12, <2>1, Zenon DEF Marked
<1>14. Counted'
  BY <1>1, <1>8, Zenon DEF Counted
<1> QED BY <1>6, <1>10, <1>11, <1>13, <1>14, Zenon DEF MountInv

LEMMA OpenKeeps == ASSUME MountInv, Open PROVE MountInv'
<1>1. /\ st \in {"closed", "unmounted", "failed"} /\ call = "none"
      /\ cache' = Empty /\ latest' = vol
      /\ sb' = vol[Primary] /\ bg' = vol[Descs[1]].n /\ st' = "open"
      /\ checked' = (checked /\ vol[Primary].clean)
      /\ UNCHANGED <<vol, disk, since, previous, call, accesses, exposed>>
  BY Zenon DEF Open, devVars
<1>2. CacheInv'
  <2>1. DOMAIN cache' = {} /\ cache' \in [DOMAIN cache' -> Entry]
    BY <1>1, Zenon DEF Empty
  <2> QED BY <1>1, <2>1, Zenon DEF MountInv, CacheInv, CacheBut, StoreTypeOK, CoherentBut, IsDirty, Dated, Cached
<1>3. MountTypeOK'
  <2>1. vol[Primary] \in Contents /\ vol[Descs[1]].n \in SUBSET Unit
    BY LayoutOp, ZenonT(30) DEF MountInv, MountTypeOK, Contents
  <2> QED BY <1>1, <2>1, Zenon DEF MountInv, MountTypeOK
<1>4. Ordered'
  BY <1>1, Zenon DEF MountInv, Ordered
<1>5. Marked'
  BY <1>1, Zenon DEF MountInv, Marked
<1>6. ASSUME checked' PROVE /\ \A b \in Core : disk[b].n = vol[b].n
                             /\ Consistent(vol)
  <2>1. checked /\ vol[Primary].clean /\ ~exposed
    BY <1>1, <1>6, ZenonT(30) DEF MountInv, Marked
  <2>2. CASE st = "closed"
    BY <2>1, <2>2, Zenon DEF MountInv, Counted, CleanIsConsistent, Ordered, Synced
  <2>3. CASE st \in {"failed", "unmounted"}
    <3>1. /\ \A b \in Core : disk[b].n = latest[b].n /\ vol[b].n = latest[b].n
          /\ Consistent(latest)
      BY <2>1, <2>3, Zenon DEF MountInv, Counted, Core
    <3>2. Used(vol) = Used(latest)
      BY <3>1, LayoutOp, ZenonT(30) DEF Used, Core
    <3> QED BY <3>1, <3>2, Zenon DEF Consistent, Core
  <2> QED BY <1>1, <2>2, <2>3, Zenon
<1>7. Counted'
  BY <1>1, <1>6, Zenon DEF Counted, Core
<1> QED BY <1>2, <1>3, <1>4, <1>5, <1>7, Zenon DEF MountInv

\* The end of a call: what its barrier made durable is the superblock it wrote.
LEMMA ReturnKeeps == ASSUME MountInv, Return PROVE MountInv'
<1>1. /\ accesses = <<>> /\ call # "none" /\ exposed' = (exposed /\ call = "back")
      /\ UNCHANGED <<cache, vol, disk, latest, since, bg, checked>>
  BY Zenon DEF Return, Quiet, vars, devVars, ghostVars
<1>2. CacheInv'
  BY <1>1, Zenon DEF MountInv, CacheInv, CacheBut, StoreTypeOK, CoherentBut, IsDirty, Dated, Cached
<1>3. \A b \in Range(Supers) : latest[b] = sb
  BY <1>1 DEF MountInv, Ordered, Range
<1>4. call # "back" => Synced
  BY <1>1, Zenon DEF MountInv, Ordered
<1>5. CASE call = "flush"
  <2>1. /\ previous' = sb.clean /\ sb' = [sb EXCEPT !.clean = TRUE]
        /\ call' = "mark" /\ accesses' = WriteSuperBlock \o Barrier
        /\ st = "mounted" /\ st' = "mounted" /\ ~exposed'
    BY <1>1, <1>5, ZenonT(30) DEF Return, Busy, MountInv, MountTypeOK
  <2>2. sb' \in Contents /\ sb'.n = sb.n /\ sb'.clean = TRUE /\ previous' \in BOOLEAN
    BY <2>1, ZenonT(30) DEF MountInv, MountTypeOK, Contents
  <2>3. Whole(accesses', "mark")
    BY <2>1, CallsWhole, Zenon
  <2>4. MountTypeOK'
    BY <1>1, <2>1, <2>2, <2>3, Zenon DEF MountInv, MountTypeOK, Whole, Well, Accesses
  <2>5. Ordered'
    BY <1>1, <2>1, <2>3, Zenon DEF Ordered, Whole, Well
  <2>6. Marked'
    <3>1. ~sb.clean
      BY <1>5, <2>1, Zenon DEF MountInv, Marked
    <3> QED BY <2>1, <2>2, <3>1, Zenon DEF Marked
  <2>7. Counted'
    <3>1. latest[Descs[1]] = Content(FALSE, bg)
      <4>1. Access("desc", Descs[1]) \notin Range(accesses) /\ Descs[1] \in Range(Descs)
        BY <1>1, LayoutOp DEF Range
      <4> QED BY <1>5, <4>1, ZenonT(30) DEF MountInv, Ordered
    <3>2. latest[Descs[1]].n = bg /\ latest[Primary].n = sb.n
      BY <1>3, <3>1, LayoutOp DEF Content
    <3>3. Synced
      BY <1>4, <1>5, Zenon
    <3>4. checked => sb.n = Used(latest) /\ bg = Used(latest)
      BY <2>1, Zenon DEF MountInv, Counted
    <3> QED BY <1>1, <2>1, <2>2, <3>2, <3>3, <3>4, Zenon DEF Counted, Consistent, Synced
  <2> QED BY <1>2, <2>4, <2>5, <2>6, <2>7 DEF MountInv
<1>6. CASE call # "flush"
  <2>1. /\ call' = "none" /\ accesses' = <<>> /\ UNCHANGED <<sb, previous>>
        /\ st' = CASE call = "mount" -> "mounted" [] call = "mark" -> "unmounted" [] OTHER -> st
    BY <1>6, Zenon DEF Return, Busy
  <2>2. \/ call = "mount" /\ st = "open" /\ st' = "mounted"
        \/ call = "mark" /\ st = "mounted" /\ st' = "unmounted"
        \/ call = "sync" /\ st = "mounted" /\ st' = "mounted"
        \/ call = "back" /\ st \in {"failed", "mounted"} /\ st' = st
    BY <1>1, <1>6, <2>1, Zenon DEF MountInv, MountTypeOK
  <2>3. MountTypeOK'
    BY <1>1, <2>1, <2>2, Zenon DEF MountInv, MountTypeOK
  <2>4. Ordered'
    BY <1>1, <1>4, <2>1, <2>2 DEF Ordered, Synced
  <2>5. Marked'
    <3>1. CASE call = "back"
      BY <1>1, <2>1, <2>2, <3>1, ZenonT(30) DEF MountInv, Marked
    <3>2. CASE call = "mark"
      BY <1>1, <1>3, <2>1, <2>2, <3>2, ZenonT(30) DEF MountInv, Marked
    <3>3. CASE call \in {"mount", "sync"}
      <4>1. ~sb.clean /\ ~exposed' /\ st' = "mounted"
        BY <1>1, <2>2, <3>3, ZenonT(30) DEF MountInv, Marked
      <4>2. ~latest[Primary].clean /\ disk = latest /\ vol = latest
        BY <1>3, <1>4, <3>3, <4>1, LayoutOp, Zenon DEF Synced
      <4> QED BY <1>1, <2>1, <4>1, <4>2, Zenon DEF Marked
    <3> QED BY <2>2, <3>1, <3>2, <3>3, Zenon
  <2>6. Counted'
    <3>1. CASE call \in {"back", "sync", "mark"}
      BY <1>1, <2>1, <2>2, <3>1, Zenon DEF MountInv, Counted
    <3>2. CASE call = "mount"
      BY <1>1, <2>1, <2>2, <3>2, Zenon DEF MountInv, Counted, Consistent
    <3> QED BY <2>2, <3>1, <3>2, Zenon
  <2> QED BY <1>2, <2>3, <2>4, <2>5, <2>6 DEF MountInv
<1> QED BY <1>5, <1>6, Zenon

LEMMA InvClean == MountInv => CleanIsConsistent
<1> SUFFICES ASSUME MountInv, checked, ~exposed, disk[Primary].clean PROVE Consistent(disk)
  BY Zenon DEF CleanIsConsistent
<1>1. CASE st \in {"open", "failed", "unmounted"} \/ call = "mark"
  <2>1. (\A b \in Core : disk[b].n = latest[b].n) /\ Consistent(latest)
    BY <1>1, Zenon DEF MountInv, Counted, Core
  <2>2. Used(disk) = Used(latest)
    BY <2>1, LayoutOp, ZenonT(30) DEF Used, Core
  <2> QED BY <2>1, <2>2, Zenon DEF Consistent, Core
<1>2. CASE st = "closed"
  BY <1>2, Zenon DEF MountInv, Counted, CleanIsConsistent
<1>3. CASE st = "mounted" /\ call # "mark"
  BY <1>3, Zenon DEF MountInv, Marked
<1> QED BY <1>1, <1>2, <1>3, Zenon DEF MountInv, MountTypeOK

LEMMA PowerFailureKeeps == ASSUME MountInv, PowerFailure PROVE MountInv'
<1>1. /\ vol' = disk /\ latest' = disk /\ disk' = disk /\ CacheInv'
      /\ st' = "closed" /\ call' = "none" /\ accesses' = <<>>
      /\ checked' = (checked /\ ~exposed) /\ exposed' = FALSE
      /\ UNCHANGED <<sb, bg, previous>>
  BY CrashKeeps, Zenon DEF PowerFailure, Crash, Busy, MountInv, CacheInv
<1>2. MountTypeOK' /\ Ordered' /\ Marked'
  <2>1. MountTypeOK'
    BY <1>1 DEF MountInv, MountTypeOK
  <2>2. Ordered' /\ Marked'
    BY <1>1 DEF Ordered, Marked, Synced
  <2> QED BY <2>1, <2>2, Zenon
<1>3. MountInv => CleanIsConsistent
  BY InvClean, Zenon
<1>4. Counted'
  BY <1>1, <1>3, ZenonT(30) DEF Counted, CleanIsConsistent, Consistent, Used
<1> QED BY <1>1, <1>2, <1>4, Zenon DEF MountInv

LEMMA DevicePersistsKeeps == ASSUME MountInv, DevicePersists PROVE MountInv'
<1>1. PICK b \in Block : Persist(b)
  BY Zenon DEF DevicePersists
<1>2. UNCHANGED <<sb, bg, previous, st, call, accesses, checked, exposed>>
  BY Zenon DEF DevicePersists, fsVars, historyVars
<1>3. CacheInv' /\ Moved /\ latest' = latest
  BY <1>1, DeviceKeeps, Zenon DEF MountInv
<1>4. Stored
  BY <1>3, WritesStored, Zenon DEF Writes
<1>5. ~Synced /\ vol[b] # disk[b]
  BY <1>1, Zenon DEF Persist, Synced
<1>6. st \notin {"closed", "unmounted"} /\ (accesses = <<>> => call \in {"none", "back"})
  BY <1>5, Zenon DEF MountInv, Ordered
<1>7. MountTypeOK'
  BY <1>2, <1>4, Zenon DEF Stored, MountInv, MountTypeOK
<1>8. Ordered'
  BY <1>2, <1>3, <1>6, ZenonT(30) DEF MountInv, Ordered
<1>9. Marked'
  BY <1>2, <1>4, <1>6, Zenon DEF Stored, MountInv, Marked
<1>10. Counted'
  BY <1>2, <1>4, <1>6, Zenon DEF Stored, Counted, Core
<1> QED BY <1>3, <1>7, <1>8, <1>9, <1>10, Zenon DEF MountInv

LEMMA MountInitInv == MountInit => MountInv
<1> SUFFICES ASSUME MountInit PROVE MountInv
  BY Zenon
<1>1. /\ \A b \in Block : Content(b \in Range(Supers), {}) \in Contents
      /\ \A b \in Block : Content(b \in Range(Supers), {}).n = {}
      /\ Content(TRUE, {}) \in Contents /\ Content(TRUE, {}).n = {}
  BY DEF Content, Contents
<1>2. vol \in [Block -> Contents] /\ disk = vol /\ latest = vol /\ since = [b \in Block |-> {vol[b]}]
  BY <1>1, Zenon DEF MountInit
<1>3. DOMAIN cache = {} /\ cache \in [DOMAIN cache -> Entry]
  BY Zenon DEF MountInit, Empty
<1>4. CacheInv
  BY <1>2, <1>3, LayoutOp, Zenon DEF CacheInv, CacheBut, StoreTypeOK, CoherentBut, IsDirty, Dated, Cached
<1>5. MountTypeOK /\ Ordered /\ Marked
  <2>1. st = "open" /\ call = "none" /\ accesses = <<>> /\ exposed = FALSE
    BY Zenon DEF MountInit
  <2>2. sb \in Contents /\ bg \in SUBSET Unit /\ previous \in BOOLEAN
    BY <1>1, ZenonT(30) DEF MountInit
  <2>3. MountTypeOK
    BY <1>2, <2>1, <2>2 DEF MountTypeOK
  <2>4. Ordered
    BY <2>1 DEF Ordered
  <2>5. Marked
    BY <2>1, Zenon DEF Marked
  <2> QED BY <2>3, <2>4, <2>5, Zenon
<1>6. \A b \in Block : vol[b].n = {}
  BY <1>1, Zenon DEF MountInit
<1>7. Used(vol) = {}
  BY <1>6, LayoutOp, ZenonT(30) DEF Used
<1>8. Counted
  BY <1>1, <1>2, <1>6, <1>7, LayoutOp, ZenonT(30) DEF MountInit, Counted, Consistent
<1> QED BY <1>4, <1>5, <1>8, Zenon DEF MountInv

LEMMA MountNextInv == MountInv /\ [MountNext]_mountVars => MountInv'
<1> SUFFICES ASSUME MountInv, [MountNext]_mountVars PROVE MountInv'
  BY Zenon
<1>1. CASE UNCHANGED mountVars
  <2>1. UNCHANGED <<cache, vol, disk, latest, since, sb, bg, previous, st, call, accesses, checked, exposed>>
    BY <1>1, Zenon DEF mountVars, vars, devVars, ghostVars, fsVars, historyVars
  <2>2. CacheInv'
    BY <2>1, Zenon DEF MountInv, CacheInv, CacheBut, StoreTypeOK, CoherentBut, IsDirty, Dated, Cached
  <2>3. MountTypeOK' /\ Ordered' /\ Marked'
    BY <2>1, ZenonT(30) DEF MountInv, MountTypeOK, Ordered, Marked, Synced
  <2>4. Counted'
    BY <2>1, Zenon DEF MountInv, Counted, Consistent, Used, CleanIsConsistent
  <2> QED BY <2>2, <2>3, <2>4, Zenon DEF MountInv
<1>2. CASE Open
  BY <1>2, OpenKeeps, Zenon
<1>3. CASE Mount \/ SyncCall \/ Unmount
  BY <1>3, CallKeeps, Zenon
<1>4. CASE Step
  BY <1>4, StepKeeps
<1>5. CASE Return
  BY <1>5, ReturnKeeps
<1>6. CASE DevicePersists
  BY <1>6, DevicePersistsKeeps
<1>7. CASE PowerFailure
  BY <1>7, PowerFailureKeeps
<1> QED BY <1>1, <1>2, <1>3, <1>4, <1>5, <1>6, <1>7, ChangeKeeps, Zenon DEF MountNext

\* The invariant holds whatever fails and whenever the power does, for every layout of
\* the filesystem and every size of the cache.
THEOREM MountInductive == MountSpec => []MountInv
<1> QED BY MountInitInv, MountNextInv, PTL DEF MountSpec

\* An image that is marked clean is consistent, at every moment the power may fail
\* (on_mount, on_unmount).
THEOREM CleanImagesConsistent == MountSpec => []CleanIsConsistent
<1> QED BY MountInductive, InvClean, PTL

\* A successful unmount is never undone (on_unmount).
THEOREM UnmountsDurable == MountSpec => []UnmountIsDurable
<1>1. MountInv => UnmountIsDurable
  <2> SUFFICES ASSUME MountInv, st = "unmounted" PROVE UnmountIsDurable
    BY ZenonT(30) DEF UnmountIsDurable
  <2>1. disk = latest /\ sb.clean = TRUE /\ \A b \in Range(Supers) : latest[b] = sb
    BY Zenon DEF MountInv, Ordered, Synced, Marked, MountTypeOK, Contents
  <2>2. sb = Content(TRUE, sb.n)
    BY <2>1, Zenon DEF MountInv, MountTypeOK, Contents, Content
  <2> QED BY <2>1, <2>2, ZenonT(30) DEF UnmountIsDurable
<1> QED BY <1>1, MountInductive, PTL

=============================================================================
