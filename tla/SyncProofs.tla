---------------------------- MODULE SyncProofs -----------------------------
(***************************************************************************)
(* The blocking primitives of base/kor-sched and a driver that uses them.  *)
(* The mutex excludes, and never leaves its waiters asleep while it is     *)
(* free, for any number of tasks.  The channel implements a FIFO queue,    *)
(* and a receiver always finds the item its token stands for, for any      *)
(* finite set of senders and receivers.  The block device of kor-virtio    *)
(* holds the buffers of exactly the task that waits for it, and loses no   *)
(* completion, whatever tokens flushes leave in the completion semaphore.  *)
(***************************************************************************)
EXTENDS Mutex, Channel, VirtioBlock, SequenceTheorems, FiniteSetTheorems, TLAPS

(***************************************************************************)
(* The mutex                                                               *)
(***************************************************************************)
USE MutexAssumption, SemaphoreAssumption

LEMMA NoToken == \A n \in Nat : n <= 1 /\ n # 1 => n = 0
OBVIOUS

\* A task that is not in the list and is appended to it: the list stays free of
\* duplicates and gains that task.
LEMMA AppendOnce ==
  ASSUME NEW s \in Seq(Task), NEW t \in Task, IsInjective(s), t \notin Range(s)
  PROVE  IsInjective(Append(s, t)) /\ Range(Append(s, t)) = Range(s) \cup {t}
<1>1. Append(s, t) \in Seq(Task) /\ Len(Append(s, t)) = Len(s) + 1
  OBVIOUS
<1>2. \A i \in 1..Len(s) : Append(s, t)[i] = s[i]
  OBVIOUS
<1>3. Append(s, t)[Len(s) + 1] = t
  OBVIOUS
<1>4. Range(Append(s, t)) = Range(s) \cup {t}
  BY <1>1, <1>2, <1>3 DEF Range
<1>5. IsInjective(Append(s, t))
  BY <1>1, <1>2, <1>3 DEF IsInjective, Range
<1> QED BY <1>4, <1>5, Zenon

\* The head popped from a list without duplicates is no longer in it.
LEMMA PopOnce ==
  ASSUME NEW s \in Seq(Task), s # <<>>, IsInjective(s)
  PROVE  /\ Head(s) \in Task /\ Tail(s) \in Seq(Task) /\ IsInjective(Tail(s))
         /\ Range(Tail(s)) = Range(s) \ {Head(s)} /\ Head(s) \in Range(s)
<1>1. /\ Len(s) \in Nat \ {0} /\ Head(s) = s[1] /\ Head(s) \in Task
      /\ Tail(s) \in Seq(Task) /\ Len(Tail(s)) = Len(s) - 1
  OBVIOUS
<1>2. \A i \in 1..Len(Tail(s)) : Tail(s)[i] = s[i + 1]
  OBVIOUS
<1>3. IsInjective(Tail(s))
  BY <1>1, <1>2 DEF IsInjective
<1>4. Head(s) \in Range(s)
  BY <1>1 DEF Range
<1>5. ASSUME NEW x \in Range(Tail(s)) PROVE x \in Range(s) \ {Head(s)}
  BY <1>1, <1>2 DEF Range, IsInjective
<1>6. ASSUME NEW x \in Range(s) \ {Head(s)} PROVE x \in Range(Tail(s))
  <2>1. PICK i \in 1..Len(s) : x = s[i] /\ i # 1
    BY <1>1 DEF Range
  <2>2. i - 1 \in 1..Len(Tail(s)) /\ Tail(s)[i - 1] = x
    BY <2>1, <1>1, <1>2
  <2>3. DOMAIN Tail(s) = 1..Len(Tail(s))
    BY <1>1
  <2> QED BY <2>2, <2>3, Zenon DEF Range
<1> QED BY <1>1, <1>3, <1>4, <1>5, <1>6, Zenon

LEMMA MutexStart == MutexInit => MutexInv
<1> SUFFICES ASSUME MutexInit PROVE MutexInv
  BY Zenon
<1> USE DEF MutexInit, SemInit
<1>1. MutexTypeOK
  BY DEF MutexTypeOK, SemTypeOK, Phases
<1>2. Token
  BY Zenon DEF Token, MutualExclusion
<1>3. Waiting
  BY DEF Waiting, Range, IsInjective
<1>4. FreeIsNoticed
  BY Zenon DEF FreeIsNoticed
<1> QED BY <1>1, <1>2, <1>3, <1>4, Zenon DEF MutexInv

LEMMA CallInv == ASSUME MutexInv, NEW t \in Task, MutexCall(t) PROVE MutexInv'
<1> USE DEF MutexCall, MutexGoto, semVars, MutexInv
<1>1. MutexTypeOK'
  BY Zenon DEF MutexTypeOK, SemTypeOK
<1>2. Token'
  BY Zenon DEF Token, MutualExclusion, MutexTypeOK
<1>3. Waiting'
  BY Zenon DEF Waiting, MutexTypeOK
<1>4. FreeIsNoticed'
  BY Zenon DEF FreeIsNoticed, MutexTypeOK
<1> QED BY <1>1, <1>2, <1>3, <1>4, Zenon

LEMMA LockTakes == ASSUME MutexInv, NEW t \in Task, MutexLock(t) PROVE MutexInv'
<1> USE DEF MutexLock, Take, MutexGoto, MutexInv, MutexTypeOK, SemTypeOK
<1>1. MutexTypeOK'
  OBVIOUS
<1>2. count[m] = 1 /\ count'[m] = 0
  BY DEF Token
<1>3. Token'
  BY <1>2 DEF Token, MutualExclusion
<1>4. Waiting'
  BY <1>2 DEF Waiting
<1>5. FreeIsNoticed'
  BY <1>2 DEF FreeIsNoticed
<1> QED BY <1>1, <1>3, <1>4, <1>5, Zenon

LEMMA LockBlocks == ASSUME MutexInv, NEW t \in Task, MutexBlock(t) PROVE MutexInv'
<1> USE DEF MutexBlock, Block, MutexInv, MutexTypeOK, SemTypeOK
<1>1. MutexTypeOK'
  BY Zenon DEF Phases
<1>2. count[m] = 0 /\ count' = count
  BY DEF Token
<1>3. Token'
  BY <1>2, Zenon DEF Token, MutualExclusion
<1>4. Waiting'
  BY <1>2 DEF Waiting, Phases
<1>5. FreeIsNoticed'
  BY <1>2 DEF FreeIsNoticed
<1> QED BY <1>1, <1>3, <1>4, <1>5, Zenon

LEMMA UnlockPosts == ASSUME MutexInv, NEW t \in Task, MutexUnlock(t) PROVE MutexInv'
<1> USE DEF MutexUnlock, Post, MutexGoto, MutexInv, MutexTypeOK, SemTypeOK
<1>1. count[m] = 0 /\ count'[m] = 1 /\ lock[m] = None /\ lock' = lock
  BY DEF Token
<1>2. \A u \in Task : guard'[u] = "in" => guard[u] = "in" /\ u # t
  BY Zenon
<1>3. Token'
  BY <1>1, <1>2 DEF Token, MutualExclusion
<1>4. CASE list[m] = <<>>
  <2>1. MutexTypeOK'
    BY <1>4
  <2>2. Waiting'
    BY <1>4, <1>1 DEF Waiting
  <2>3. FreeIsNoticed'
    BY <1>4, Zenon DEF FreeIsNoticed
  <2> QED BY <2>1, <2>2, <2>3, <1>3, Zenon
<1>5. CASE list[m] # <<>>
  <2> DEFINE h == Head(list[m])
  <2>1. /\ h \in Task /\ Tail(list[m]) \in Seq(Task) /\ IsInjective(Tail(list[m]))
        /\ Range(Tail(list[m])) = Range(list[m]) \ {h} /\ h \in Range(list[m])
    BY <1>5, PopOnce, Zenon DEF Waiting
  <2>2. /\ list' = [list EXCEPT ![m] = Tail(list[m])] /\ list'[m] = Tail(list[m])
        /\ phase' = [phase EXCEPT ![h] = "woken"]
    BY <1>5, Zenon
  <2>3. phase[h] = "blocked" /\ guard[h] = "lock" /\ guard'[h] = "lock"
    BY <2>1, Zenon DEF Waiting
  <2> HIDE DEF h
  <2>4. MutexTypeOK'
    BY <2>1, <2>2 DEF Phases
  <2>5. Waiting'
    BY <2>1, <2>2, <2>3, <1>1 DEF Waiting
  <2>6. FreeIsNoticed'
    BY <2>1, <2>2, <2>3, Zenon DEF FreeIsNoticed
  <2> QED BY <2>4, <2>5, <2>6, <1>3
<1> QED BY <1>4, <1>5, Zenon

LEMMA EnqueueInv == ASSUME MutexInv, NEW t \in Task, Enqueue(t, m), UNCHANGED guard PROVE MutexInv'
<1> USE DEF Enqueue, MutexInv, MutexTypeOK, SemTypeOK
<1>1. t \notin Range(list[m]) /\ count[m] = 0 /\ lock[m] = t
  BY Zenon DEF Waiting
<1>2. /\ IsInjective(Append(list[m], t))
      /\ Range(Append(list[m], t)) = Range(list[m]) \cup {t}
  BY <1>1, AppendOnce, Zenon DEF Waiting
<1>3. list'[m] = Append(list[m], t) /\ lock'[m] = None /\ count' = count
  BY Zenon
<1>4. MutexTypeOK'
  BY DEF Phases
<1>5. Token'
  BY Zenon DEF Token, MutualExclusion
<1>6. Waiting'
  BY <1>1, <1>2, <1>3 DEF Waiting
<1>7. FreeIsNoticed'
  BY <1>1, <1>3 DEF FreeIsNoticed
<1> QED BY <1>4, <1>5, <1>6, <1>7, Zenon

LEMMA ResumeInv == ASSUME MutexInv, NEW t \in Task, Resume(t), UNCHANGED guard PROVE MutexInv'
<1> USE DEF Resume, MutexInv, MutexTypeOK, SemTypeOK
<1>1. MutexTypeOK'
  BY Zenon DEF Phases
<1>2. Token'
  BY Zenon DEF Token, MutualExclusion
<1>3. Waiting'
  BY DEF Waiting
<1>4. FreeIsNoticed'
  BY Zenon DEF FreeIsNoticed
<1> QED BY <1>1, <1>2, <1>3, <1>4, Zenon

\* IInv is an invariant of the mutex, whatever the number of tasks.
THEOREM MutexInductive == MutexSpec => []MutexInv
<1>1. MutexInv /\ [MutexNext]_mutexVars => MutexInv'
  <2> SUFFICES ASSUME MutexInv, [MutexNext]_mutexVars PROVE MutexInv'
    BY Zenon
  <2>1. CASE UNCHANGED mutexVars
    BY <2>1 DEF mutexVars, semVars, MutexInv, MutexTypeOK, SemTypeOK, Token, MutualExclusion,
                Waiting, FreeIsNoticed
  <2>2. ASSUME NEW t \in Task, MutexCall(t) \/ MutexStep(t) PROVE MutexInv'
    BY <2>2, CallInv, LockTakes, LockBlocks, UnlockPosts, EnqueueInv, ResumeInv, Zenon
       DEF MutexStep, MutexSwitch
  <2> QED BY <2>1, <2>2, Zenon DEF MutexNext
<1> QED BY <1>1, MutexStart, PTL DEF MutexSpec

\* Two guards of one mutex never exist at once (Mutex::lock, MutexGuard::drop).
THEOREM Exclusion == MutexSpec => []MutualExclusion
<1>1. MutexInv => MutualExclusion
  BY Zenon DEF MutexInv, Token
<1> QED BY <1>1, MutexInductive, PTL

\* A free mutex always has a caller awake that will look at it: no wakeup of
\* Semaphore::post is lost between the count and the queue.
THEOREM NoLostWakeup == MutexSpec => []FreeIsNoticed
<1>1. MutexInv => FreeIsNoticed
  BY Zenon DEF MutexInv
<1> QED BY <1>1, MutexInductive, PTL

HIDE MutexAssumption
USE ChannelAssumption

(***************************************************************************)
(* Counting the tasks that hold or owe a token                             *)
(***************************************************************************)

LEMMA Finite == /\ IsFiniteSet(Promised) /\ Cardinality(Promised) \in Nat
                /\ IsFiniteSet(Owing) /\ Cardinality(Owing) \in Nat
<1>1. Promised \subseteq Task /\ Owing \subseteq Task
  BY Zenon DEF Promised, Owing
<1>2. IsFiniteSet(Promised) /\ IsFiniteSet(Owing)
  BY <1>1, FS_Subset, Zenon
<1> QED BY <1>2, FS_CardinalityType, Zenon

\* A set of tasks that gains, or loses, one member.
LEMMA OneMore ==
  ASSUME NEW S, NEW T, NEW x, IsFiniteSet(S), x \notin S, T = S \cup {x}
  PROVE  Cardinality(T) = Cardinality(S) + 1
BY FS_AddElement, Zenon

LEMMA OneLess ==
  ASSUME NEW S, NEW T, NEW x, IsFiniteSet(S), x \in S, T = S \ {x}
  PROVE  Cardinality(T) = Cardinality(S) - 1
BY FS_RemoveElement, Zenon

\* A token changes hands, or the queue and the tokens change together.
LEMMA Balance ==
  ASSUME IInv,
         \/ /\ queue' = queue /\ count'["items"] = count["items"] - 1
            /\ Cardinality(Promised') = Cardinality(Promised) + 1 /\ Owing' = Owing
         \/ /\ queue' = queue /\ count'["items"] = count["items"] + 1
            /\ Cardinality(Owing') = Cardinality(Owing) - 1 /\ Promised' = Promised
         \/ /\ Len(queue') = Len(queue) + 1 /\ count' = count
            /\ Cardinality(Owing') = Cardinality(Owing) + 1 /\ Promised' = Promised
         \/ /\ Len(queue') = Len(queue) - 1 /\ count' = count
            /\ Cardinality(Promised') = Cardinality(Promised) - 1 /\ Owing' = Owing
  PROVE  Counted'
<1> DEFINE c == count["items"]  p == Cardinality(Promised)  o == Cardinality(Owing)
           l == Len(queue)
<1>1. c \in Nat /\ p \in Nat /\ o \in Nat /\ l = c + p + o
  BY Finite, Zenon DEF IInv, TypeOK, SemTypeOK, Counted
<1> SUFFICES Len(queue') = count'["items"] + Cardinality(Promised') + Cardinality(Owing')
  BY Zenon DEF Counted
<1>2. /\ (c - 1) + (p + 1) + o = l
      /\ (c + 1) + p + (o - 1) = l
      /\ c + p + (o + 1) = l + 1
      /\ c + (p - 1) + o = l - 1
  <2> HIDE DEF c, p, o, l
  <2> QED BY <1>1, SMTT(30)
<1> QED BY <1>2, Zenon

(***************************************************************************)
(* The steps of send() and recv()                                          *)
(***************************************************************************)

LEMMA InitIInv == Init => IInv
<1> SUFFICES ASSUME Init PROVE IInv
  BY Zenon
<1> USE DEF Init, SemInit
<1>1. SemTypeOK
  BY DEF SemTypeOK, Phases
<1>2. TypeOK
  BY <1>1 DEF TypeOK, Points
<1>3. Places /\ QueueToken /\ Guarded
  BY DEF Places, QueueToken, Guarded
<1>4. Promised = {} /\ Owing = {}
  BY Zenon DEF Promised, Owing
<1>5. Counted
  BY <1>4, FS_EmptySet DEF Counted
<1> QED BY <1>2, <1>3, <1>5, Zenon DEF IInv

LEMMA CallKeeps == ASSUME IInv, NEW t \in Task, Call(t) PROVE IInv'
<1> USE DEF Call, Goto, semVars, IInv, TypeOK
<1>1. TypeOK'
  BY Zenon DEF Points, SemTypeOK
<1>2. Places'
  BY Zenon DEF Places
<1>3. \A u \in Task : pc'[u] \in {"in", "unlock"} => pc'[u] = pc[u]
  BY Zenon
<1>4. QueueToken' /\ Guarded'
  BY <1>3 DEF QueueToken, Guarded
<1>5. Promised' = Promised /\ Owing' = Owing
  <2>1. \A u \in Task : u # t => pc'[u] = pc[u]
    BY Zenon
  <2>2. t \in Receiver => pc[t] = "idle" /\ pc'[t] = "items"
    BY Zenon
  <2>3. t \in Sender => pc[t] = "idle" /\ pc'[t] = "lock"
    BY Zenon
  <2>4. \A r \in Receiver : pc'[r] \in {"lock", "in"} <=> pc[r] \in {"lock", "in"}
    BY <2>1, <2>2, Zenon
  <2>5. \A s \in Sender : pc'[s] \in {"unlock", "post"} <=> pc[s] \in {"unlock", "post"}
    BY <2>1, <2>3, Zenon
  <2> QED BY <2>4, <2>5, Zenon DEF Promised, Owing
<1>6. Counted'
  BY <1>5, Zenon DEF Counted
<1> QED BY <1>1, <1>2, <1>4, <1>6, Zenon

\* A task that blocks, is queued or resumed leaves all of it alone.
LEMMA SchedulerKeeps ==
  ASSUME IInv, NEW t \in Task, NEW s \in Sem, Block(t, s) \/ Enqueue(t, s) \/ Resume(t),
         UNCHANGED <<queue, pc, sent, got>>
  PROVE  IInv'
<1> USE DEF Block, Enqueue, Resume, IInv, TypeOK
<1>1. count' = count
  BY Zenon
<1>2. SemTypeOK'
  <2>1. CASE Block(t, s)
    BY <2>1, Zenon DEF SemTypeOK, Phases
  <2>2. CASE Enqueue(t, s)
    BY <2>2 DEF SemTypeOK, Phases
  <2>3. CASE Resume(t)
    BY <2>3, Zenon DEF SemTypeOK, Phases
  <2> QED BY <2>1, <2>2, <2>3, Zenon
<1>3. TypeOK'
  BY <1>2, Zenon
<1>4. Places' /\ QueueToken' /\ Guarded'
  BY <1>1, Zenon DEF Places, QueueToken, Guarded
<1>5. Counted'
  BY <1>1, Zenon DEF Counted, Promised, Owing
<1> QED BY <1>3, <1>4, <1>5, Zenon

\* Only count, list and phase change when a token is posted.
LEMMA PostTypes == ASSUME SemTypeOK, NEW t \in Task, NEW s \in Sem, Post(t, s) PROVE SemTypeOK'
<1> USE DEF Post, SemTypeOK
<1>1. CASE list[s] = <<>>
  BY <1>1
<1>2. CASE list[s] # <<>>
  <2>1. Head(list[s]) \in Task /\ Tail(list[s]) \in Seq(Task)
    BY <1>2
  <2>2. /\ count' = [count EXCEPT ![s] = @ + 1] /\ list' = [list EXCEPT ![s] = Tail(@)]
        /\ phase' = [phase EXCEPT ![Head(list[s])] = "woken"] /\ lock' = lock
    BY <1>2, Zenon
  <2>3. list' \in [Sem -> Seq(Task)] /\ phase' \in [Task -> Phases]
    BY <2>1, <2>2, Zenon DEF Phases
  <2>4. count' \in [Sem -> Nat]
    BY <2>2
  <2> QED BY <2>2, <2>3, <2>4, Zenon
<1> QED BY <1>1, <1>2, Zenon

LEMMA TakeItemKeeps == ASSUME IInv, NEW t \in Task, TakeItem(t) PROVE IInv'
<1> USE DEF TakeItem
<1>1. CASE Block(t, "items") /\ UNCHANGED pc
  BY <1>1, SchedulerKeeps, Zenon
<1>2. CASE Take(t, "items") /\ Goto(t, "lock")
  <2> USE DEF Take, Goto, IInv, TypeOK
  <2>1. TypeOK'
    BY <1>2 DEF Points, SemTypeOK
  <2>2. t \in Receiver /\ t \notin Sender
    BY Zenon DEF Places
  <2>3. Places'
    BY <1>2, <2>2, Zenon DEF Places
  <2>4. count'["queue"] = count["queue"] /\ count'["items"] = count["items"] - 1
    BY <1>2, Zenon DEF SemTypeOK
  <2>5. QueueToken' /\ Guarded'
    BY <1>2, <2>4, Zenon DEF QueueToken, Guarded
  <2>6. t \notin Promised /\ Promised' = Promised \cup {t} /\ Owing' = Owing
    BY <1>2, <2>2 DEF Promised, Owing
  <2>7. Cardinality(Promised') = Cardinality(Promised) + 1
    BY <2>6, Finite, OneMore, Zenon
  <2>8. queue' = queue /\ count["items"] \in Nat /\ Len(queue) \in Nat
    BY DEF SemTypeOK
  <2>9. Counted'
    BY <2>4, <2>6, <2>7, <2>8, Balance, Zenon
  <2> QED BY <2>1, <2>3, <2>5, <2>9, Zenon
<1> QED BY <1>1, <1>2, Zenon

LEMMA LockKeeps == ASSUME IInv, NEW t \in Task, Lock(t) PROVE IInv'
<1> USE DEF Lock
<1>1. CASE Block(t, "queue") /\ UNCHANGED pc
  BY <1>1, SchedulerKeeps, Zenon
<1>2. CASE Take(t, "queue") /\ Goto(t, "in")
  <2> USE DEF Take, Goto, IInv, TypeOK
  <2>1. TypeOK'
    BY <1>2 DEF Points, SemTypeOK
  <2>2. Places'
    BY <1>2, Zenon DEF Places
  <2>3. count["queue"] = 1 /\ count'["queue"] = 0 /\ count'["items"] = count["items"]
    BY <1>2 DEF SemTypeOK, QueueToken
  <2>4. QueueToken' /\ Guarded'
    BY <1>2, <2>3 DEF QueueToken, Guarded
  <2>5. Promised' = Promised /\ Owing' = Owing
    BY <1>2, Zenon DEF Promised, Owing
  <2>6. Counted'
    BY <2>3, <2>5, Zenon DEF Counted
  <2> QED BY <2>1, <2>2, <2>4, <2>6, Zenon
<1> QED BY <1>1, <1>2, Zenon

LEMMA PushKeeps == ASSUME IInv, NEW t \in Task, Push(t) PROVE IInv'
<1> USE DEF Push, Goto, semVars, IInv, TypeOK
<1>1. sent[t] < MaxItems /\ sent'[t] = sent[t] + 1 /\ sent' \in [Sender -> 0..MaxItems]
  BY DEF Places
<1>2. /\ queue' \in Seq(Sender \X (1..MaxItems)) /\ Len(queue') = Len(queue) + 1
  BY <1>1
<1>3. TypeOK'
  BY <1>1, <1>2, Zenon DEF Points, SemTypeOK
<1>4. Places'
  BY <1>1, Zenon DEF Places
<1>5. QueueToken' /\ Guarded'
  BY DEF QueueToken, Guarded
<1>6. t \notin Owing /\ Owing' = Owing \cup {t} /\ Promised' = Promised
  BY DEF Promised, Owing
<1>7. Cardinality(Owing') = Cardinality(Owing) + 1
  BY <1>6, Finite, OneMore, Zenon
<1>8. count' = count /\ count["items"] \in Nat /\ Len(queue) \in Nat
  BY DEF SemTypeOK
<1>9. Counted'
  BY <1>2, <1>6, <1>7, <1>8, Balance, Zenon
<1> QED BY <1>3, <1>4, <1>5, <1>9, Zenon

LEMMA PopKeeps == ASSUME IInv, NEW t \in Task, Pop(t) PROVE IInv'
<1> USE DEF Pop, Goto, semVars, IInv, TypeOK
<1>1. /\ queue' \in Seq(Sender \X (1..MaxItems)) /\ Len(queue') = Len(queue) - 1
      /\ Head(queue) \in Sender \X (1..MaxItems)
  OBVIOUS
<1>2. got' \in [Receiver -> Seq(Sender \X (1..MaxItems))]
  BY <1>1
<1>3. TypeOK'
  BY <1>1, <1>2, Zenon DEF Points, SemTypeOK
<1>4. Places'
  BY Zenon DEF Places
<1>5. QueueToken' /\ Guarded'
  BY DEF QueueToken, Guarded
<1>6. t \in Promised /\ Promised' = Promised \ {t} /\ Owing' = Owing
  BY DEF Promised, Owing
<1>7. Cardinality(Promised') = Cardinality(Promised) - 1
  BY <1>6, Finite, OneLess, Zenon
<1>8. count' = count /\ count["items"] \in Nat /\ Len(queue) \in Nat
  BY DEF SemTypeOK
<1>9. Counted'
  BY <1>1, <1>6, <1>7, <1>8, Balance, Zenon
<1> QED BY <1>3, <1>4, <1>5, <1>9, Zenon

LEMMA UnlockKeeps == ASSUME IInv, NEW t \in Task, Unlock(t) PROVE IInv'
<1> USE DEF Unlock, Goto, IInv, TypeOK
<1>1. SemTypeOK'
  BY PostTypes, Zenon
<1>2. TypeOK'
  BY <1>1, Zenon DEF Points
<1>3. count["queue"] = 0 /\ count'["queue"] = 1 /\ count'["items"] = count["items"]
  <2>1. /\ "queue" \in Sem /\ "items" \in Sem /\ count \in [Sem -> Nat]
        /\ count' = [count EXCEPT !["queue"] = @ + 1]
    BY Zenon DEF Post, SemTypeOK
  <2>2. count["queue"] <= 1 /\ count["queue"] # 1 /\ count["queue"] \in Nat
    BY <2>1, Zenon DEF QueueToken
  <2>3. count["queue"] = 0
    BY <2>2, NoToken, Zenon
  <2>4. 0 + 1 = 1
    OBVIOUS
  <2> QED BY <2>1, <2>3, <2>4, Zenon
<1>4. Places'
  BY Zenon DEF Places
<1>5. QueueToken' /\ Guarded'
  BY <1>3 DEF QueueToken, Guarded
<1>6. Promised' = Promised /\ Owing' = Owing
  BY DEF Promised, Owing
<1>7. Counted'
  BY <1>3, <1>6, Zenon DEF Counted
<1> QED BY <1>2, <1>4, <1>5, <1>7, Zenon

LEMMA PostItemKeeps == ASSUME IInv, NEW t \in Task, PostItem(t) PROVE IInv'
<1> USE DEF PostItem, Goto, IInv, TypeOK
<1>1. SemTypeOK'
  BY PostTypes, Zenon
<1>2. TypeOK'
  BY <1>1, Zenon DEF Points
<1>3. count'["queue"] = count["queue"] /\ count'["items"] = count["items"] + 1
  BY Zenon DEF Post, SemTypeOK
<1>4. t \in Sender /\ t \notin Receiver
  BY Zenon DEF Places
<1>5. Places'
  BY <1>4, Zenon DEF Places
<1>6. QueueToken' /\ Guarded'
  BY <1>3, Zenon DEF QueueToken, Guarded
<1>7. t \in Owing /\ Owing' = Owing \ {t} /\ Promised' = Promised
  BY <1>4, Zenon DEF Promised, Owing
<1>8. Cardinality(Owing') = Cardinality(Owing) - 1
  BY <1>7, Finite, OneLess, Zenon
<1>9. queue' = queue /\ count["items"] \in Nat /\ Len(queue) \in Nat
  BY DEF SemTypeOK
<1>10. Counted'
  BY <1>3, <1>7, <1>8, <1>9, Balance, Zenon
<1> QED BY <1>2, <1>5, <1>6, <1>10, Zenon

LEMMA NextIInv == IInv /\ [Next]_vars => IInv'
<1> SUFFICES ASSUME IInv, [Next]_vars PROVE IInv'
  BY Zenon
<1>1. CASE UNCHANGED vars
  <2> USE <1>1 DEF vars, semVars, IInv
  <2>1. TypeOK'
    BY Zenon DEF TypeOK, SemTypeOK
  <2>2. Places' /\ QueueToken' /\ Guarded'
    BY Zenon DEF Places, QueueToken, Guarded
  <2>3. Counted'
    BY Zenon DEF Counted, Promised, Owing
  <2> QED BY <2>1, <2>2, <2>3, Zenon
<1>2. ASSUME NEW t \in Task, Call(t) \/ Step(t) PROVE IInv'
  <2>1. CASE Switch(t)
    <3>1. "items" \in Sem
      BY Zenon
    <3> QED BY <2>1, <3>1, SchedulerKeeps, Zenon DEF Switch
  <2> QED BY <1>2, <2>1, CallKeeps, TakeItemKeeps, LockKeeps, PushKeeps, PopKeeps, UnlockKeeps,
             PostItemKeeps, Zenon DEF Step
<1> QED BY <1>1, <1>2, Zenon DEF Next

\* A receiver inside the mutex is one of those that a token was promised to.
LEMMA ItemFound == IInv => ItemIsThere
<1> SUFFICES ASSUME IInv, NEW r \in Receiver, pc[r] = "in" PROVE Len(queue) > 0
  BY Zenon DEF ItemIsThere
<1>1. r \in Promised
  BY Zenon DEF Promised
<1>2. Cardinality(Promised) # 0
  BY <1>1, Finite, FS_EmptySet, Zenon
<1> QED BY <1>2, Finite DEF IInv, TypeOK, SemTypeOK, Counted

(***************************************************************************)
(* The refinement                                                          *)
(***************************************************************************)

\* The push is the abstract send, the pop the abstract receive, and every other step
\* leaves the abstract queue alone.
LEMMA StepRefines == IInv /\ [Next]_vars => [F!Next]_<<sent, queue, got>>
<1> SUFFICES ASSUME IInv, [Next]_vars PROVE F!Next \/ UNCHANGED <<sent, queue, got>>
  BY Zenon
<1>1. CASE UNCHANGED vars
  BY <1>1, Zenon DEF vars
<1>2. ASSUME NEW t \in Task, Push(t) PROVE F!Next
  <2>1. t \in Sender /\ F!Send(t)
    BY <1>2, Zenon DEF Push, F!Send, IInv, Places
  <2> QED BY <2>1, Zenon DEF F!Next
<1>3. ASSUME NEW t \in Task, Pop(t) PROVE F!Next
  <2>1. t \in Receiver /\ F!Recv(t)
    BY <1>3, Zenon DEF Pop, F!Recv
  <2> QED BY <2>1, Zenon DEF F!Next
<1>4. ASSUME NEW t \in Task, Call(t) \/ TakeItem(t) \/ Lock(t) \/ Unlock(t) \/ PostItem(t) \/ Switch(t)
      PROVE UNCHANGED <<sent, queue, got>>
  BY <1>4, Zenon DEF Call, TakeItem, Lock, Unlock, PostItem, Switch
<1> QED BY <1>1, <1>2, <1>3, <1>4, Zenon DEF Next, Step

(***************************************************************************)
(* The theorems                                                            *)
(***************************************************************************)

\* send() and recv(): the tokens of the two semaphores match the queue, whatever the
\* interleaving.
THEOREM ChannelInductive == Spec => []IInv
<1> QED BY InitIInv, NextIInv, PTL DEF Spec

\* recv(): "An item is guaranteed to be present": its expect() never panics.
THEOREM ItemIsAlwaysThere == Spec => []ItemIsThere
<1> QED BY ItemFound, ChannelInductive, PTL

\* Mutex<VecDeque>: push_back and pop_front never overlap.
THEOREM QueueIsGuarded == Spec => []Guarded
<1>1. IInv => Guarded
  BY Zenon DEF IInv
<1> QED BY <1>1, ChannelInductive, PTL

\* send() and recv() implement an unbounded FIFO queue: nothing is lost, duplicated
\* or reordered.
THEOREM ChannelIsFifo == Spec => ImplementsFifo
<1>1. Init => F!Init
  BY Zenon DEF Init, F!Init
<1> QED BY <1>1, StepRefines, ChannelInductive, PTL DEF Spec, ImplementsFifo, F!Spec

(***************************************************************************)
(* The block device: a task starts with nothing submitted                  *)
(***************************************************************************)
HIDE ChannelAssumption
USE VirtioAssumption

LEMMA VirtioStart == VirtioInit => VirtioInv
<1> SUFFICES ASSUME VirtioInit PROVE VirtioInv
  BY Zenon
<1> USE DEF VirtioInit, SemInit
<1>1. SemTypeOK
  BY DEF SemTypeOK, Phases
<1>2. VirtioTypeOK
  BY <1>1, Zenon DEF VirtioTypeOK, VirtioPoints
<1>3. OpToken /\ BuffersLive /\ Announced
  BY DEF OpToken, BuffersLive, Announced, Inside
<1>4. VirtioWaiting
  BY DEF VirtioWaiting, Range, IsInjective
<1> QED BY <1>2, <1>3, <1>4, Zenon DEF VirtioInv

(***************************************************************************)
(* What the semaphores do to the tasks that wait                           *)
(***************************************************************************)

LEMMA WaitPoints == /\ WaitsAt("op") = {"op", "flush_op"} /\ WaitsAt("completion") = {"wait"}
                    /\ \A s, u \in Sem : s # u => WaitsAt(s) \cap WaitsAt(u) = {}
BY Zenon DEF WaitsAt

\* A task that runs goes from one point to another: the sleepers are the same.
LEMMA MoveWaits ==
  ASSUME VirtioInv, NEW t \in Task, NEW p \in VirtioPoints, phase[t] = "run", VirtioGoto(t, p),
         UNCHANGED <<lock, list, phase>>
  PROVE  VirtioWaiting'
<1> USE DEF VirtioInv, VirtioTypeOK, SemTypeOK
<1>1. \A u \in Task : phase[u] # "run" => stage'[u] = stage[u]
  BY Zenon DEF VirtioGoto
<1>2. ASSUME NEW s \in Sem
      PROVE  /\ \A u \in Range(list[s]) : stage'[u] \in WaitsAt(s)
             /\ lock[s] # None => stage'[lock[s]] \in WaitsAt(s)
  <2>1. ASSUME NEW u \in Range(list[s]) PROVE u \in Task /\ stage'[u] \in WaitsAt(s)
    <3>1. u \in Task
      BY DEF Range
    <3>2. phase[u] = "blocked" /\ stage[u] \in WaitsAt(s)
      BY Zenon DEF VirtioWaiting
    <3> QED BY <3>1, <3>2, <1>1, Zenon
  <2>2. ASSUME lock[s] # None PROVE stage'[lock[s]] \in WaitsAt(s)
    <3>1. lock[s] \in Task
      BY <2>2, Zenon
    <3>2. phase[lock[s]] = "blocking" /\ stage[lock[s]] \in WaitsAt(s)
      BY <2>2, Zenon DEF VirtioWaiting
    <3> QED BY <3>1, <3>2, <1>1, Zenon
  <2> QED BY <2>1, <2>2, Zenon
<1> QED BY <1>1, <1>2, Zenon DEF VirtioWaiting

\* A task that is nowhere near a wait() is running.
LEMMA Awake ==
  ASSUME VirtioInv, NEW t \in Task, stage[t] \notin {"op", "flush_op", "wait"}
  PROVE  phase[t] = "run"
BY WaitPoints, Zenon DEF VirtioInv, VirtioWaiting

\* wait() that blocks: the task keeps the raw lock, and its place in the code.
LEMMA BlockKeeps ==
  ASSUME VirtioInv, NEW t \in Task, NEW s \in Sem, Block(t, s), stage[t] \in WaitsAt(s),
         UNCHANGED <<stage, owner, used, irq>>
  PROVE  VirtioInv'
<1> USE DEF Block, VirtioInv, VirtioTypeOK, SemTypeOK
<1>1. VirtioTypeOK'
  BY Zenon DEF Phases
<1>2. OpToken' /\ BuffersLive'
  BY Zenon DEF OpToken, BuffersLive
<1>3. VirtioWaiting'
  BY DEF VirtioWaiting, WaitsAt, Phases
<1>4. Announced'
  BY DEF Announced, WaitsAt
<1> QED BY <1>1, <1>2, <1>3, <1>4, Zenon

LEMMA EnqueueKeeps ==
  ASSUME VirtioInv, NEW t \in Task, NEW s \in Sem, Enqueue(t, s), UNCHANGED <<stage, owner, used, irq>>
  PROVE  VirtioInv'
<1> USE DEF Enqueue, VirtioInv, VirtioTypeOK, SemTypeOK
<1>1. t \notin Range(list[s]) /\ lock[s] = t /\ stage[t] \in WaitsAt(s)
  BY Zenon DEF VirtioWaiting
<1>2. /\ IsInjective(Append(list[s], t))
      /\ Range(Append(list[s], t)) = Range(list[s]) \cup {t}
  BY <1>1, AppendOnce, Zenon DEF VirtioWaiting
<1>3. VirtioTypeOK'
  BY DEF Phases
<1>4. OpToken' /\ BuffersLive'
  BY Zenon DEF OpToken, BuffersLive
<1>5. Announced'
  BY <1>1, Zenon DEF Announced
<1>6. /\ \A u \in Sem : list'[u] = IF u = s THEN Append(list[s], t) ELSE list[u]
      /\ \A u \in Sem : lock'[u] = IF u = s THEN None ELSE lock[u]
      /\ \A u \in Task : phase'[u] = IF u = t THEN "blocked" ELSE phase[u]
  BY Zenon
<1>7. \A u \in Sem \ {s} : t \notin Range(list[u]) /\ lock[u] # t
  BY <1>1, WaitPoints DEF VirtioWaiting
<1>8. VirtioWaiting'
  BY <1>1, <1>2, <1>6, <1>7 DEF VirtioWaiting, WaitsAt
<1> QED BY <1>3, <1>4, <1>5, <1>8, Zenon

\* Resume: the task is at the head of the loop of wait() again.
LEMMA ResumeKeeps ==
  ASSUME VirtioInv, NEW t \in Task, Resume(t), UNCHANGED <<stage, owner, used, irq>>
  PROVE  VirtioInv'
<1> USE DEF Resume, VirtioInv, VirtioTypeOK, SemTypeOK
<1>1. VirtioTypeOK'
  BY Zenon DEF Phases
<1>2. OpToken' /\ BuffersLive'
  BY Zenon DEF OpToken, BuffersLive
<1>3. VirtioWaiting'
  BY DEF VirtioWaiting
<1>4. Announced'
  BY Zenon DEF Announced
<1> QED BY <1>1, <1>2, <1>3, <1>4, Zenon

\* post(): the waiters that sleep on are the others.  A task that moves on in the
\* code was not asleep.
LEMMA PostWakes ==
  ASSUME VirtioInv, NEW t \in Task, NEW s \in Sem, NEW p \in VirtioPoints, Post(t, s), VirtioGoto(t, p),
         stage[t] \notin WaitsAt("op") \cup WaitsAt("completion"), p \in {"idle"}
  PROVE  /\ SemTypeOK' /\ VirtioWaiting'
         /\ \A u \in Task : phase'[u] \in {phase[u], "woken"}
         /\ list[s] # <<>> => phase'[Head(list[s])] = "woken"
<1>0. phase[t] = "run"
  BY Zenon DEF Post
<1> USE DEF Post, VirtioGoto, VirtioInv, VirtioTypeOK, SemTypeOK
<1>1. count' \in [Sem -> Nat] /\ lock' = lock /\ lock[s] = None
  OBVIOUS
<1>2. \A u \in Task : stage'[u] = IF u = t THEN p ELSE stage[u]
  BY Zenon
<1>3. CASE list[s] = <<>>
  <2>1. SemTypeOK'
    BY <1>3, <1>1, Zenon
  <2>2. VirtioWaiting'
    BY <1>3, <1>0, MoveWaits, Zenon
  <2> QED BY <2>1, <2>2, <1>3, Zenon
<1>4. CASE list[s] # <<>>
  <2> DEFINE h == Head(list[s])
  <2>1. /\ h \in Task /\ Tail(list[s]) \in Seq(Task) /\ IsInjective(Tail(list[s]))
        /\ Range(Tail(list[s])) = Range(list[s]) \ {h} /\ h \in Range(list[s])
    BY <1>4, PopOnce, Zenon DEF VirtioWaiting
  <2>0. list' = [list EXCEPT ![s] = Tail(list[s])] /\ phase' = [phase EXCEPT ![h] = "woken"]
    BY <1>4, Zenon
  <2> HIDE DEF h, Post, VirtioGoto
  <2>2. /\ \A u \in Sem : list'[u] = IF u = s THEN Tail(list[s]) ELSE list[u]
        /\ list' \in [Sem -> Seq(Task)]
        /\ \A u \in Task : phase'[u] = IF u = h THEN "woken" ELSE phase[u]
        /\ phase' \in [Task -> Phases]
    BY <2>0, <2>1, Zenon DEF Phases
  <2>3. phase[h] = "blocked" /\ stage[h] \in WaitsAt(s) /\ stage'[h] = stage[h]
    BY <2>1, <1>0, <1>2 DEF VirtioWaiting
  <2>4. \A u \in Sem \ {s} : h \notin Range(list[u])
    <3> SUFFICES ASSUME NEW u \in Sem, u # s, h \in Range(list[u]) PROVE FALSE
      BY Zenon
    <3>1. stage[h] \in WaitsAt(u)
      BY Zenon DEF VirtioWaiting
    <3> QED BY <3>1, <2>3, WaitPoints, Zenon
  <2>5. \A u \in Task : phase[u] # "run" => stage'[u] = stage[u]
    BY <1>0, <1>2, Zenon
  <2>6. ASSUME NEW v \in Sem
        PROVE  /\ IsInjective(list'[v])
               /\ \A u \in Range(list'[v]) : phase'[u] = "blocked" /\ stage'[u] \in WaitsAt(v)
               /\ lock'[v] # None => phase'[lock'[v]] = "blocking" /\ stage'[lock'[v]] \in WaitsAt(v)
    <3>1. \A u \in Range(list'[v]) : u \in Range(list[v]) /\ u # h /\ u \in Task
      <4>1. Range(list'[v]) = IF v = s THEN Range(list[s]) \ {h} ELSE Range(list[v])
        BY <2>1, <2>2, Zenon
      <4>2. Range(list[v]) \subseteq Task
        BY DEF Range
      <4> QED BY <4>1, <4>2, <2>4
    <3>2. \A u \in Range(list[v]) : phase[u] = "blocked" /\ stage[u] \in WaitsAt(v)
      BY Zenon DEF VirtioWaiting
    <3>3. lock[v] # None => phase[lock[v]] = "blocking" /\ stage[lock[v]] \in WaitsAt(v) /\ lock[v] \in Task
      BY DEF VirtioWaiting
    <3>4. IsInjective(list'[v])
      <4>1. IsInjective(list[v])
        BY Zenon DEF VirtioWaiting
      <4> QED BY <4>1, <2>1, <2>2, Zenon
    <3> QED BY <3>1, <3>2, <3>3, <3>4, <2>2, <2>3, <2>5, <1>1, Zenon
  <2>7. ASSUME NEW u \in Task
        PROVE  /\ phase'[u] # "run" => stage'[u] \in WaitsAt("op") \cup WaitsAt("completion")
               /\ stage'[u] = "wait" /\ phase'[u] = "blocking" => lock'["completion"] = u
               /\ stage'[u] = "wait" /\ phase'[u] = "blocked" => u \in Range(list'["completion"])
    <3>1. /\ phase[u] # "run" => stage[u] \in WaitsAt("op") \cup WaitsAt("completion")
          /\ stage[u] = "wait" /\ phase[u] = "blocking" => lock["completion"] = u
          /\ stage[u] = "wait" /\ phase[u] = "blocked" => u \in Range(list["completion"])
      BY Zenon DEF VirtioWaiting
    <3> QED BY <3>1, <2>1, <2>2, <2>3, <2>5, <1>1, Zenon
  <2>8. VirtioWaiting'
    BY <2>6, <2>7, Zenon DEF VirtioWaiting
  <2> QED BY <2>1, <2>2, <2>8, <1>1, Zenon DEF h
<1> QED BY <1>3, <1>4, Zenon

(***************************************************************************)
(* The steps of a request                                                  *)
(***************************************************************************)

LEMMA VirtioCallKeeps == ASSUME VirtioInv, NEW t \in Task, VirtioCall(t) PROVE VirtioInv'
<1> USE DEF VirtioCall, VirtioGoto, semVars, devVars, VirtioInv, VirtioTypeOK, SemTypeOK
<1>1. VirtioTypeOK'
  BY Zenon DEF VirtioPoints, Request
<1>2. /\ stage[t] = "idle" /\ t # Irq
      /\ \A u \in Task : stage'[u] = stage[u] \/ (u = t /\ stage'[u] \in {"op", "flush_op"})
  BY Zenon
<1>3. OpToken'
  BY <1>2, Zenon DEF OpToken, Inside
<1>4. BuffersLive'
  BY <1>2, Zenon DEF BuffersLive
<1>5. Announced'
  <2>1. \A u \in Task : stage'[u] = "wait" => stage[u] = "wait"
    BY <1>2, Zenon
  <2>2. owner \in Task => (stage[owner] = "check" => stage'[owner] = "check")
    BY <1>2, Zenon
  <2> QED BY <2>1, <2>2, <1>2, Zenon DEF Announced
<1>6. VirtioWaiting'
  BY Awake, MoveWaits, Zenon DEF VirtioPoints, Request
<1> QED BY <1>1, <1>3, <1>4, <1>5, <1>6, Zenon

LEMMA OpLockKeeps == ASSUME VirtioInv, NEW t \in Task, OpLock(t) PROVE VirtioInv'
<1> USE DEF OpLock, devVars
<1>1. CASE Block(t, "op") /\ UNCHANGED stage
  BY <1>1, BlockKeeps, Zenon DEF WaitsAt
<1>2. CASE Take(t, "op") /\ VirtioGoto(t, IF stage[t] = "op" THEN "submit" ELSE "flush")
  <2> USE DEF Take, VirtioGoto, VirtioInv, VirtioTypeOK, SemTypeOK
  <2>1. VirtioTypeOK'
    BY <1>2 DEF VirtioPoints, Request
  <2>2. /\ count["op"] = 1 /\ count'["op"] = 0 /\ count'["completion"] = count["completion"]
        /\ t # Irq /\ phase[t] = "run"
    BY <1>2 DEF OpToken
  <2>3. OpToken'
    BY <1>2, <2>2 DEF OpToken, Inside
  <2>4. BuffersLive' /\ Announced'
    BY <1>2, <2>2 DEF BuffersLive, Announced
  <2>5. VirtioWaiting'
    BY <1>2, <2>2, MoveWaits, Zenon DEF VirtioPoints, Request
  <2> QED BY <2>1, <2>3, <2>4, <2>5, Zenon
<1> QED BY <1>1, <1>2, Zenon

LEMMA SubmitKeeps == ASSUME VirtioInv, NEW t \in Task, Submit(t) PROVE VirtioInv'
<1> USE DEF Submit, VirtioGoto, semVars, VirtioInv, VirtioTypeOK, SemTypeOK
<1>1. VirtioTypeOK'
  BY Zenon DEF VirtioPoints, Request
<1>2. phase[t] = "run" /\ t # Irq /\ owner = None /\ ~used
  BY Awake, Zenon DEF OpToken, BuffersLive, Inside, Announced
<1>3. OpToken'
  BY <1>2, Zenon DEF OpToken, Inside
<1>4. BuffersLive'
  BY <1>2 DEF BuffersLive
<1>5. Announced'
  BY <1>2, Zenon DEF Announced
<1>6. VirtioWaiting'
  BY <1>2, MoveWaits, Zenon DEF VirtioPoints, Request
<1> QED BY <1>1, <1>3, <1>4, <1>5, <1>6, Zenon

LEMMA WaitKeeps == ASSUME VirtioInv, NEW t \in Task, Wait(t) PROVE VirtioInv'
<1> USE DEF Wait, devVars
<1>1. CASE Block(t, "completion") /\ UNCHANGED stage
  BY <1>1, BlockKeeps, Zenon DEF WaitsAt
<1>2. CASE Take(t, "completion") /\ VirtioGoto(t, "check")
  <2> USE DEF Take, VirtioGoto, VirtioInv, VirtioTypeOK, SemTypeOK
  <2>1. VirtioTypeOK'
    BY <1>2 DEF VirtioPoints, Request
  <2>2. t # Irq /\ owner = t /\ phase[t] = "run" /\ count'["op"] = count["op"]
    BY <1>2, Zenon DEF OpToken, BuffersLive
  <2>3. OpToken' /\ BuffersLive'
    BY <1>2, <2>2 DEF OpToken, BuffersLive, Inside
  <2>4. Announced'
    BY <1>2, <2>2, Zenon DEF Announced, OpToken, Inside
  <2>5. VirtioWaiting'
    BY <1>2, <2>2, MoveWaits, Zenon DEF VirtioPoints, Request
  <2> QED BY <2>1, <2>3, <2>4, <2>5, Zenon
<1> QED BY <1>1, <1>2, Zenon

LEMMA CheckKeeps == ASSUME VirtioInv, NEW t \in Task, Check(t) PROVE VirtioInv'
<1> USE DEF Check, VirtioGoto, semVars, VirtioInv, VirtioTypeOK, SemTypeOK
<1>1. VirtioTypeOK'
  BY Zenon DEF VirtioPoints, Request
<1>2. phase[t] = "run" /\ t # Irq /\ owner = t
  BY Awake, Zenon DEF OpToken, BuffersLive
<1>3. OpToken'
  BY <1>2, Zenon DEF OpToken, Inside
<1>6. BuffersLive'
  BY <1>2 DEF BuffersLive
<1>4. Announced'
  BY <1>2, Zenon DEF Announced
<1>5. VirtioWaiting'
  BY <1>2, MoveWaits, Zenon DEF VirtioPoints, Request
<1> QED BY <1>1, <1>3, <1>4, <1>5, <1>6, Zenon

LEMMA FlushKeeps == ASSUME VirtioInv, NEW t \in Task, Flush(t) PROVE VirtioInv'
<1> USE DEF Flush, VirtioGoto, semVars, VirtioInv, VirtioTypeOK, SemTypeOK
<1>1. VirtioTypeOK'
  BY Zenon DEF VirtioPoints, Request
<1>2. phase[t] = "run" /\ t # Irq /\ owner # t
  BY Awake, Zenon DEF OpToken, BuffersLive
<1>3. OpToken' /\ BuffersLive'
  BY <1>2 DEF OpToken, BuffersLive, Inside
<1>4. Announced'
  BY <1>2, Zenon DEF Announced
<1>5. VirtioWaiting'
  BY <1>2, MoveWaits, Zenon DEF VirtioPoints, Request
<1> QED BY <1>1, <1>3, <1>4, <1>5, Zenon

LEMMA VirtioUnlockKeeps == ASSUME VirtioInv, NEW t \in Task, VirtioUnlock(t) PROVE VirtioInv'
<1> USE DEF VirtioUnlock, devVars
<1>1. /\ SemTypeOK' /\ VirtioWaiting'
      /\ \A u \in Task : phase'[u] \in {phase[u], "woken"}
  BY PostWakes, Zenon DEF WaitsAt, VirtioPoints
<1> USE DEF Post, VirtioGoto, VirtioInv, VirtioTypeOK
<1>2. VirtioTypeOK'
  BY <1>1, Zenon DEF VirtioPoints
<1>3. /\ count["op"] = 0 /\ count'["op"] = 1 /\ count'["completion"] = count["completion"]
      /\ t # Irq
  BY DEF OpToken, SemTypeOK, Inside
<1>4. OpToken' /\ BuffersLive'
  BY <1>3 DEF OpToken, BuffersLive, Inside
<1>5. Announced'
  BY <1>1, <1>3, Zenon DEF Announced
<1> QED BY <1>1, <1>2, <1>4, <1>5, Zenon

(***************************************************************************)
(* The device and its interrupt                                            *)
(***************************************************************************)

LEMMA AckKeeps == ASSUME VirtioInv, AckInterrupt PROVE VirtioInv'
<1> USE DEF AckInterrupt, VirtioGoto, semVars, VirtioInv, VirtioTypeOK, SemTypeOK
<1>1. VirtioTypeOK'
  BY Zenon DEF VirtioPoints
<1>2. OpToken' /\ BuffersLive' /\ Announced'
  BY DEF OpToken, BuffersLive, Announced, Inside
<1>3. VirtioWaiting'
  BY Awake, MoveWaits, Zenon DEF VirtioPoints, Request
<1> QED BY <1>1, <1>2, <1>3, Zenon

\* The only task that can sleep on the completion semaphore is the one popped.
LEMMA PostCompletionKeeps == ASSUME VirtioInv, PostCompletion PROVE VirtioInv'
<1> USE DEF PostCompletion, devVars
<1>1. /\ SemTypeOK' /\ VirtioWaiting'
      /\ \A u \in Task : phase'[u] \in {phase[u], "woken"}
      /\ list["completion"] # <<>> => phase'[Head(list["completion"])] = "woken"
  BY PostWakes, Zenon DEF WaitsAt, VirtioPoints
<1> USE DEF Post, VirtioGoto, VirtioInv, VirtioTypeOK
<1>2. VirtioTypeOK'
  BY <1>1, Zenon DEF VirtioPoints
<1>3. count'["op"] = count["op"] /\ count'["completion"] > 0 /\ lock["completion"] = None
  BY DEF SemTypeOK
<1>4. OpToken' /\ BuffersLive'
  BY <1>3 DEF OpToken, BuffersLive, Inside
<1>5. ASSUME NEW u \in Task, stage'[u] = "wait" PROVE phase'[u] \notin {"blocking", "blocked"}
  <2>1. stage[u] = "wait"
    BY <1>5, Zenon
  <2>2. CASE phase[u] = "blocked"
    <3>1. u \in Range(list["completion"]) /\ list["completion"] # <<>>
      BY <2>1, <2>2 DEF VirtioWaiting, Range
    <3>2. Head(list["completion"]) \in Range(list["completion"]) /\ Head(list["completion"]) \in Task
      BY <3>1, PopOnce, Zenon DEF VirtioWaiting, SemTypeOK
    <3>3. Head(list["completion"]) = u
      <4>1. stage[Head(list["completion"])] \in WaitsAt("completion")
        BY <3>2, Zenon DEF VirtioWaiting
      <4>2. stage[Head(list["completion"])] = "wait"
        BY <4>1, WaitPoints, Zenon
      <4> QED BY <4>2, <3>2, <2>1, Zenon DEF OpToken, Inside
    <3> QED BY <3>1, <3>3, <1>1, Zenon
  <2>3. CASE phase[u] # "blocked"
    <3>1. phase[u] # "blocking"
      BY <2>1, <1>3, Zenon DEF VirtioWaiting
    <3> QED BY <3>1, <2>3, <1>1, Zenon
  <2> QED BY <2>2, <2>3, Zenon
<1>6. Announced'
  BY <1>3, <1>5, Zenon DEF Announced
<1> QED BY <1>1, <1>2, <1>4, <1>6, Zenon

LEMMA CompleteKeeps == ASSUME VirtioInv, Complete PROVE VirtioInv'
<1> USE DEF Complete, semVars, VirtioInv
<1>1. VirtioTypeOK'
  BY Zenon DEF VirtioTypeOK, SemTypeOK
<1>2. OpToken' /\ BuffersLive' /\ Announced'
  BY Zenon DEF OpToken, BuffersLive, Announced
<1>3. VirtioWaiting'
  BY Zenon DEF VirtioWaiting
<1> QED BY <1>1, <1>2, <1>3, Zenon

LEMMA VirtioKeeps == VirtioInv /\ [VirtioNext]_virtioVars => VirtioInv'
<1> SUFFICES ASSUME VirtioInv, [VirtioNext]_virtioVars PROVE VirtioInv'
  BY Zenon
<1>1. CASE UNCHANGED virtioVars
  BY <1>1, Zenon DEF virtioVars, semVars, devVars, VirtioInv, VirtioTypeOK, SemTypeOK, OpToken, BuffersLive,
     VirtioWaiting, Announced
<1>2. CASE Handler
  BY <1>2, AckKeeps, PostCompletionKeeps, Zenon DEF Handler
<1>3. CASE Complete
  BY <1>3, CompleteKeeps, Zenon
<1>4. ASSUME NEW t \in Task, VirtioCall(t) \/ VirtioStep(t) PROVE VirtioInv'
  <2>1. CASE VirtioSwitch(t)
    BY <2>1, ResumeKeeps, EnqueueKeeps, Zenon DEF VirtioSwitch, devVars
  <2> QED BY <1>4, <2>1, VirtioCallKeeps, OpLockKeeps, SubmitKeeps, WaitKeeps, CheckKeeps, FlushKeeps,
             VirtioUnlockKeeps, Zenon DEF VirtioStep
<1> QED BY <1>1, <1>2, <1>3, <1>4, Zenon DEF VirtioNext

(***************************************************************************)
(* The theorems                                                            *)
(***************************************************************************)

\* The token of op_lock, the sleepers and the announced completions stay as they
\* should be, through any interleaving of requests, flushes, interrupts and the
\* scheduler.
THEOREM VirtioInductive == VirtioSpec => []VirtioInv
<1> QED BY VirtioStart, VirtioKeeps, PTL DEF VirtioSpec

\* read_irq and write_irq: the device holds the buffers of exactly the task between
\* submission and completion; no second request is ever submitted meanwhile.
THEOREM BuffersStayLive == VirtioSpec => []BuffersLive
<1>1. VirtioInv => BuffersLive
  BY Zenon DEF VirtioInv
<1> QED BY <1>1, VirtioInductive, PTL

\* handle_interrupt and completion.wait(): nobody sleeps on a finished request whose
\* interrupt has been handled.
THEOREM CompletionNotLost == VirtioSpec => []NoLostCompletion
<1>1. ASSUME VirtioInv PROVE NoLostCompletion
  <2> SUFFICES ASSUME used, phase[owner] \in {"blocking", "blocked"} PROVE irq \/ stage[Irq] = "post"
    BY Zenon DEF NoLostCompletion
  <2>1. owner \in Task /\ stage[owner] \in {"wait", "check"}
    BY <1>1, Zenon DEF VirtioInv, VirtioTypeOK, Announced, BuffersLive
  <2>2. stage[owner] = "wait"
    BY <1>1, <2>1, Zenon DEF VirtioInv, VirtioWaiting, WaitsAt
  <2> QED BY <1>1, <2>1, <2>2 DEF VirtioInv, Announced
<1> QED BY <1>1, VirtioInductive, PTL
=============================================================================
