---------------------------- MODULE SchedProofs -----------------------------
(***************************************************************************)
(* The safety of the scheduler, for any number of CPUs, threads and wait   *)
(* queues: IInv is inductive, and it implies the safety properties of      *)
(* Sched.  First lemmas on the queues, on the task a CPU executes on, and  *)
(* on what a step that leaves the CPUs alone preserves; then the steps of  *)
(* the scheduler's callers, of the wait queues and of the timer interrupt, *)
(* one lemma per action; then the three steps of a context switch:         *)
(* schedule up to the switch, the switch, and finish_switch in each of its *)
(* four cases.                                                             *)
(***************************************************************************)
EXTENDS Sched, TLAPS

\* What a sequence is, and what Append, Head, Tail and \o make of it.
LEMMA SeqLen ==
  ASSUME NEW S, NEW s \in Seq(S)
  PROVE  /\ DOMAIN s = 1..Len(s) /\ Len(s) \in Nat
         /\ s \in [1..Len(s) -> S]
         /\ s = <<>> <=> Len(s) = 0
  BY SMT

LEMMA SeqAppend ==
  ASSUME NEW S, NEW s \in Seq(S), NEW x \in S
  PROVE  /\ Append(s, x) \in Seq(S)
         /\ Len(Append(s, x)) = Len(s) + 1
         /\ \A i \in 1..Len(s) : Append(s, x)[i] = s[i]
         /\ Append(s, x)[Len(s) + 1] = x
  BY SMT

LEMMA SeqTail ==
  ASSUME NEW S, NEW s \in Seq(S), s # <<>>
  PROVE  /\ Head(s) \in S /\ Head(s) = s[1]
         /\ Tail(s) \in Seq(S)
         /\ Len(s) \in Nat \ {0} /\ Len(Tail(s)) = Len(s) - 1
         /\ \A i \in 1..Len(Tail(s)) : Tail(s)[i] = s[i + 1]
  BY SMT

LEMMA SeqConcat ==
  ASSUME NEW S, NEW s \in Seq(S), NEW w \in Seq(S)
  PROVE  /\ s \o w \in Seq(S) /\ Len(s \o w) = Len(s) + Len(w)
         /\ \A i \in 1..(Len(s) + Len(w)) :
              (s \o w)[i] = IF i <= Len(s) THEN s[i] ELSE w[i - Len(s)]
  BY SMT

LEMMA RangeOfSeq ==
  ASSUME NEW S, NEW s \in Seq(S)
  PROVE  Range(s) \subseteq S
  BY SeqLen DEF Range

(***************************************************************************)
(* What the operations on the queues do to their elements.                 *)
(***************************************************************************)

\* push_back adds one element, and keeps the elements distinct if it is new.
LEMMA RangeAppend ==
  ASSUME NEW S, NEW s \in Seq(S), NEW x \in S
  PROVE  /\ Append(s, x) \in Seq(S)
         /\ Range(Append(s, x)) = Range(s) \cup {x}
         /\ Once(s) /\ x \notin Range(s) => Once(Append(s, x))
<1>1. /\ Append(s, x) \in Seq(S)
      /\ Len(Append(s, x)) = Len(s) + 1
      /\ \A i \in 1..Len(s) : Append(s, x)[i] = s[i]
      /\ Append(s, x)[Len(s) + 1] = x
  BY SeqAppend, Zenon
<1>2. /\ DOMAIN s = 1..Len(s) /\ Len(s) \in Nat
      /\ DOMAIN Append(s, x) = 1..(Len(s) + 1)
  BY <1>1, SeqLen, Zenon
<1>3. Range(Append(s, x)) = Range(s) \cup {x}
  BY <1>1, <1>2, SMT DEF Range
<1>4. Once(s) /\ x \notin Range(s) => Once(Append(s, x))
  BY <1>1, <1>2, SMT DEF Range, Once, IsInjective
<1> QED
  BY <1>1, <1>3, <1>4, Zenon

\* pop_front takes one element, the first, and with it all its occurrences.
LEMMA RangeTail ==
  ASSUME NEW S, NEW s \in Seq(S), s # <<>>
  PROVE  /\ Head(s) \in S
         /\ Tail(s) \in Seq(S)
         /\ Range(s) = Range(Tail(s)) \cup {Head(s)}
         /\ Once(s) => Once(Tail(s)) /\ Head(s) \notin Range(Tail(s))
<1>1. /\ Head(s) \in S
      /\ Tail(s) \in Seq(S)
      /\ Len(Tail(s)) = Len(s) - 1
      /\ \A i \in 1..Len(Tail(s)) : Tail(s)[i] = s[i+1]
  BY SeqTail, Zenon
<1>2. /\ DOMAIN s = 1..Len(s) /\ Len(s) \in Nat \ {0}
      /\ DOMAIN Tail(s) = 1..(Len(s) - 1)
      /\ Head(s) = s[1]
  BY <1>1, SeqLen, SeqTail, Zenon
<1>3. Range(s) = Range(Tail(s)) \cup {Head(s)}
  <2>1. ASSUME NEW x \in Range(s) PROVE x \in Range(Tail(s)) \cup {Head(s)}
    <3>1. PICK i \in 1..Len(s) : x = s[i]
      BY <1>2, Zenon DEF Range
    <3>2. CASE i = 1
      BY <3>1, <3>2, <1>2, Zenon
    <3>3. CASE i # 1
      <4>1. i - 1 \in 1..(Len(s) - 1) /\ Tail(s)[i - 1] = s[i]
        BY <3>3, <1>1, <1>2, SMT
      <4> QED
        BY <4>1, <3>1, <1>2, ZenonT(60) DEF Range
    <3> QED BY <3>2, <3>3, Zenon
  <2>2. ASSUME NEW x \in Range(Tail(s)) \cup {Head(s)} PROVE x \in Range(s)
    BY <1>1, <1>2, SMT DEF Range
  <2> QED BY <2>1, <2>2, Zenon
<1>4. Once(s) => Once(Tail(s)) /\ Head(s) \notin Range(Tail(s))
  BY <1>1, <1>2, SMT DEF Range, Once, IsInjective
<1> QED
  BY <1>1, <1>3, <1>4, Zenon

LEMMA RangeShort ==
  ASSUME NEW x
  PROVE  /\ Range(<<>>) = {} /\ Once(<<>>)
         /\ Range(<<x>>) = {x} /\ Once(<<x>>)
  BY SMT DEF Range, Once, IsInjective

\* The tick appends every sleeper that is due, once.
LEMMA RangeWoken ==
  ASSUME NEW S, NEW s \in Seq(S), NEW D \in SUBSET S,
         NEW w \in InAnyOrder(D)
  PROVE  /\ s \o w \in Seq(S)
         /\ Range(s \o w) = Range(s) \cup D
         /\ Once(s) /\ Range(s) \cap D = {} => Once(s \o w)
<1>1. PICK n \in 0..Cardinality(D) : w \in Bijection(1..n, D)
  BY Zenon DEF InAnyOrder
<1>2. /\ w \in [1..n -> D]
      /\ \A i, j \in 1..n : w[i] = w[j] => i = j
      /\ \A d \in D : \E i \in 1..n : w[i] = d
  BY <1>1, Zenon DEF Bijection, Injection, Surjection, IsInjective
<1>3. n \in Nat /\ w \in Seq(S) /\ Len(w) = n
  BY <1>1, <1>2, SMT
<1>4. /\ s \o w \in Seq(S)
      /\ DOMAIN (s \o w) = 1..(Len(s) + n) /\ DOMAIN s = 1..Len(s) /\ Len(s) \in Nat
      /\ \A i \in 1..(Len(s) + n) : (s \o w)[i] = IF i <= Len(s) THEN s[i] ELSE w[i - Len(s)]
  <2>1. /\ s \o w \in Seq(S) /\ Len(s \o w) = Len(s) + n
        /\ \A i \in 1..(Len(s) + n) : (s \o w)[i] = IF i <= Len(s) THEN s[i] ELSE w[i - Len(s)]
    BY <1>3, SeqConcat, ZenonT(60)
  <2>2. DOMAIN (s \o w) = 1..(Len(s) + n) /\ DOMAIN s = 1..Len(s) /\ Len(s) \in Nat
    BY <2>1, SeqLen, Zenon
  <2> QED BY <2>1, <2>2, Zenon
<1>5. Range(s \o w) = Range(s) \cup Range(w)
  <2>1. ASSUME NEW i \in 1..(Len(s) + n) PROVE (s \o w)[i] \in Range(s) \cup Range(w)
    <3>1. i \in 1..Len(s) \/ i - Len(s) \in 1..n
      BY <1>3, <1>4
    <3>2. DOMAIN w = 1..n
      BY <1>2, Zenon
    <3>3. CASE i \in 1..Len(s)
      BY <3>3, <1>3, <1>4 DEF Range
    <3>4. CASE i - Len(s) \in 1..n
      <4>1. (s \o w)[i] = w[i - Len(s)]
        BY <3>4, <1>3, <1>4, SMT
      <4> QED BY <4>1, <3>2, <3>4, Zenon DEF Range
    <3> QED BY <3>1, <3>3, <3>4, Zenon
  <2>2. ASSUME NEW i \in 1..Len(s) PROVE s[i] \in Range(s \o w)
    BY <1>3, <1>4 DEF Range
  <2>3. ASSUME NEW i \in 1..n PROVE w[i] \in Range(s \o w)
    <3>1. Len(s) + i \in 1..(Len(s) + n) /\ (s \o w)[Len(s) + i] = w[i]
      BY <1>3, <1>4
    <3> QED BY <3>1, <1>4, Zenon DEF Range
  <2>4. /\ Range(s \o w) = {(s \o w)[i] : i \in 1..(Len(s) + n)}
        /\ Range(s) = {s[i] : i \in 1..Len(s)} /\ Range(w) = {w[i] : i \in 1..n}
    BY <1>2, <1>4, Zenon DEF Range
  <2>5. Range(s \o w) \subseteq Range(s) \cup Range(w)
    BY <2>1, <2>4, Zenon
  <2>6. Range(s) \subseteq Range(s \o w) /\ Range(w) \subseteq Range(s \o w)
    BY <2>2, <2>3, <2>4, Zenon
  <2> QED BY <2>5, <2>6, Zenon
<1>6. Range(w) = D
  BY <1>2 DEF Range
<1>7. ASSUME Once(s), Range(s) \cap D = {} PROVE Once(s \o w)
  <2>1. SUFFICES ASSUME NEW i \in 1..(Len(s) + n), NEW j \in 1..(Len(s) + n),
                        (s \o w)[i] = (s \o w)[j]
                 PROVE  i = j
    BY <1>4, ZenonT(60) DEF Once, IsInjective
  <2>2. CASE i <= Len(s) /\ j <= Len(s)
    BY <2>1, <2>2, <1>4, <1>7, <1>3, SMTT(60) DEF Once, IsInjective
  <2>3. CASE i > Len(s) /\ j > Len(s)
    <3>1. i - Len(s) \in 1..n /\ j - Len(s) \in 1..n
      BY <2>3, <1>3, <1>4, SMT
    <3>2. w[i - Len(s)] = w[j - Len(s)]
      BY <2>1, <2>3, <1>4, <1>3, SMT
    <3>3. i - Len(s) = j - Len(s)
      BY <3>1, <3>2, <1>2, Zenon
    <3> QED BY <3>3, <1>4, <1>3, SMT
  <2>4. ASSUME NEW k \in 1..(Len(s) + n), NEW l \in 1..(Len(s) + n),
               k <= Len(s), l > Len(s)
        PROVE  (s \o w)[k] # (s \o w)[l]
    <3>1. k \in 1..Len(s) /\ l - Len(s) \in 1..n
      BY <2>4, <1>3, <1>4, SMT
    <3>2. (s \o w)[k] = s[k] /\ (s \o w)[l] = w[l - Len(s)]
      BY <2>4, <1>4, <1>3, SMT
    <3>3. s[k] \in Range(s) /\ w[l - Len(s)] \in D
      BY <3>1, <1>2, <1>4, Zenon DEF Range
    <3> QED BY <3>2, <3>3, <1>7, Zenon
  <2>5. CASE i <= Len(s) /\ j > Len(s)
    BY <2>1, <2>4, <2>5, ZenonT(60)
  <2>6. CASE i > Len(s) /\ j <= Len(s)
    BY <2>1, <2>4, <2>6, ZenonT(60)
  <2> QED
    BY <2>2, <2>3, <2>5, <2>6, <1>3, <1>4, SMT
<1> QED
  BY <1>4, <1>5, <1>6, <1>7, Zenon

USE SchedAssumption DEF Task

(***************************************************************************)
(* The conjuncts of IInv, and what TypeOK says of the variables that most  *)
(* steps read.                                                             *)
(***************************************************************************)
LEMMA Facts ==
  ASSUME IInv
  PROVE  /\ TypeOK /\ StateIsPlace /\ CpuInv /\ TaskInv /\ LockInv
         /\ pc \in [Task -> Points]
         /\ \A q \in Queue : lock[q] \in Thread \cup {None}
         /\ \A d \in Cpu : /\ stack[d] \in Task /\ pc[stack[d]] \in Points
                           /\ current[d] \in Task \cup {None}
                           /\ prev[d] \in Task \cup {None}
<1>1. TypeOK /\ StateIsPlace /\ CpuInv /\ TaskInv /\ LockInv
  BY Zenon DEF IInv
<1>2. /\ pc \in [Task -> Points] /\ stack \in [Cpu -> Task]
      /\ current \in [Cpu -> Task \cup {None}] /\ prev \in [Cpu -> Task \cup {None}]
      /\ lock \in [Queue -> Thread \cup {None}]
  BY <1>1, Zenon DEF TypeOK
<1>3. /\ \A q \in Queue : lock[q] \in Thread \cup {None}
      /\ \A d \in Cpu : /\ stack[d] \in Task /\ pc[stack[d]] \in Points
                        /\ current[d] \in Task \cup {None}
                        /\ prev[d] \in Task \cup {None}
  BY <1>2, Zenon
<1> QED BY <1>1, <1>2, <1>3, Zenon

(***************************************************************************)
(* The task a CPU executes on belongs to that CPU alone, and to no queue.  *)
(***************************************************************************)
LEMMA Owner ==
  ASSUME IInv, NEW c \in Cpu
  PROVE  /\ stack[c] \in Task
         /\ \A d \in Cpu : d # c => stack[c] \notin {stack[d], current[d], prev[d]}
         /\ stack[c] \in Thread => state[stack[c]] = "RUNNING"
<1> DEFINE t == stack[c]
<1>1. \A d \in Cpu : stack[d] \in Task /\ pc[stack[d]] \in Points
  BY Facts, Zenon
<1>2. \A d \in Cpu : stack[d] \in {current[d], prev[d]} \/ stack[d] = d
  BY <1>1, Zenon DEF IInv, CpuInv, Offline, Settled, Leaving, Arriving, Points
<1>4. ASSUME NEW d \in Cpu, d # c PROVE t \notin {stack[d], current[d], prev[d]}
  <2>1. CASE t = c
    <3>1. c \in {stack[d], current[d], prev[d]} => d = c
      BY Zenon DEF IInv, TaskInv
    <3> QED BY <2>1, <3>1, <1>4, Zenon
  <2>2. CASE t # c
    <3>1. t \in {current[c], prev[c]} \ {None}
      BY <1>1, <1>2, <2>2, Zenon
    <3>2. t \notin {current[d], prev[d]}
      BY <3>1, <1>1, <1>4, Zenon DEF IInv, StateIsPlace, CpuPlace
    <3>3. t # stack[d]
      <4>1. CASE stack[d] \in {current[d], prev[d]}
        BY <4>1, <3>2, Zenon
      <4>2. CASE stack[d] = d
        <5>1. ASSUME t = d PROVE FALSE
          BY <5>1, <4>2, <1>4, <2>2, <1>1 DEF IInv, TaskInv
        <5> QED BY <5>1, <4>2, Zenon
      <4> QED BY <1>2, <1>4, <4>1, <4>2, Zenon
    <3> QED BY <3>2, <3>3, Zenon
  <2> QED BY <2>1, <2>2, Zenon
<1>5. t \in Thread => state[t] = "RUNNING"
  BY <1>2, Zenon DEF IInv, StateIsPlace, CpuPlace
<1> QED
  BY <1>1, <1>4, <1>5, Zenon

LEMMA SharedStack == IInv => NoSharedStack
  BY Owner, Zenon DEF NoSharedStack

LEMMA InitIInv == Init => IInv
<1> SUFFICES ASSUME Init PROVE IInv
  BY Zenon
<1>1. TypeOK
  BY DEF Init, TypeOK, States, Actions, Points, IrqOn, Calls, Range
<1>2. StateIsPlace
  BY RangeShort, ZenonT(60) DEF Init, StateIsPlace, ReadyPlace, SleepPlace, WaitPlace, BlockedPlace, WaitOnce, CpuPlace
<1>3. CpuInv
  BY Zenon DEF Init, CpuInv, Offline, Settled, Leaving, Arriving, IrqOn, Calls
<1>4. TaskInv
  BY Zenon DEF Init, TaskInv
<1>5. LockInv
  BY Zenon DEF Init, LockInv, LockCrossesSwitchOnly, Calls
<1> QED
  BY <1>1, <1>2, <1>3, <1>4, <1>5, Zenon DEF IInv

(***************************************************************************)
(* Most steps move one running task from a point to another inside its     *)
(* code, and leave the CPUs alone.                                         *)
(***************************************************************************)
Inside == IrqOn \cup Calls \cup {"pick", "wake"}

\* What CpuInv says of one CPU.
CpuOk(d) ==
  /\ pc[stack[d]] = "off" => Offline(d)
  /\ pc[stack[d]] = "switch" => Leaving(d)
  /\ pc[stack[d]] \in {"finish", "boot"} => Arriving(d)
  /\ pc[stack[d]] \in IrqOn \cup Calls \cup {"pick", "wake"} => Settled(d)

\* A step that leaves alone a CPU's slots, and the code positions of the tasks in
\* them, keeps what CpuInv says of it.
LEMMA KeptCpu ==
  ASSUME CpuInv, NEW d \in Cpu,
         stack'[d] = stack[d], current'[d] = current[d],
         prev'[d] = prev[d], space'[d] = space[d],
         pc'[stack[d]] = pc[stack[d]],
         current[d] \in Task => pc'[current[d]] = pc[current[d]],
         prev[d] \in Task => pc'[prev[d]] = pc[prev[d]]
  PROVE  CpuOk(d)'
<1>1. CpuOk(d)
  BY Zenon DEF CpuInv, CpuOk
<1>2. Offline(d) => Offline(d)'
  BY Zenon DEF Offline
<1>3. Settled(d) => Settled(d)'
  BY Zenon DEF Settled
<1>4. Leaving(d) => Leaving(d)'
  BY Zenon DEF Leaving
<1>5. Arriving(d) => Arriving(d)'
  BY Zenon DEF Arriving
<1> QED
  BY <1>1, <1>2, <1>3, <1>4, <1>5, Zenon DEF CpuOk

LEMMA LocalCpu ==
  ASSUME IInv, NEW c \in Cpu, NEW x \in Inside,
         pc[stack[c]] \in Inside,
         pc' = [pc EXCEPT ![stack[c]] = x],
         UNCHANGED <<current, prev, stack, space>>,
         \A u \in Task : u # stack[c] => /\ act'[u] = act[u] /\ ret'[u] = ret[u]
                                         /\ hand'[u] = hand[u],
         \A u \in Cpu : state'[u] = state[u],
         stack[c] \in Cpu => /\ x \notin {"sleep", "wait_if"}
                             /\ act'[stack[c]] = "TO_READY" /\ ret'[stack[c]] = "run",
         hand'[stack[c]] # <<>> <=> x = "wake"
  PROVE  CpuInv' /\ TaskInv'
<1> DEFINE t == stack[c]
<1>0. /\ t \in Task
      /\ \A d \in Cpu : d # c => t \notin {stack[d], current[d], prev[d]}
  BY Owner, Zenon
<1>1. /\ pc \in [Task -> Points]
      /\ \A d \in Cpu : stack[d] \in Task /\ current[d] \in Task \cup {None}
                        /\ prev[d] \in Task \cup {None}
  BY Facts, Zenon
<1>2. Settled(c)
  BY Zenon DEF IInv, CpuInv, Inside
<1>3. /\ pc'[t] = x
      /\ \A u \in Task : u # t => pc'[u] = pc[u]
  BY <1>0, <1>1, Zenon
<1>4. CpuInv'
  <2> SUFFICES ASSUME NEW d \in Cpu
               PROVE  /\ pc'[stack[d]] = "off" => Offline(d)'
                      /\ pc'[stack[d]] = "switch" => Leaving(d)'
                      /\ pc'[stack[d]] \in {"finish", "boot"} => Arriving(d)'
                      /\ pc'[stack[d]] \in IrqOn \cup Calls \cup {"pick", "wake"} => Settled(d)'
    BY Zenon DEF CpuInv
  <2>1. CASE d = c
    BY <2>1, <1>2, <1>3, Zenon DEF Inside, IrqOn, Calls, Settled
  <2>2. CASE d # c
    <3>1. /\ stack[d] # t /\ current[d] # t /\ prev[d] # t
          /\ pc'[stack[d]] = pc[stack[d]]
          /\ current[d] \in Task => pc'[current[d]] = pc[current[d]]
          /\ prev[d] \in Task => pc'[prev[d]] = pc[prev[d]]
      BY <2>2, <1>0, <1>1, <1>3, Zenon
    <3>2. CpuInv
      BY Zenon DEF IInv
    <3> QED
      BY <3>1, <3>2, KeptCpu, Zenon DEF CpuOk
  <2> QED BY <2>1, <2>2, Zenon
<1>5. TaskInv'
  <2>1. ASSUME NEW u \in Task, \A d \in Cpu : stack'[d] # u
        PROVE  pc'[u] \in {"finish", "boot"}
    <3>1. u # t /\ \A d \in Cpu : stack[d] # u
      BY <2>1, Zenon
    <3>2. pc[u] \in {"finish", "boot"}
      BY <3>1, Zenon DEF IInv, TaskInv
    <3> QED BY <3>1, <3>2, <1>3, Zenon
  <2>2. \A u \in Thread : pc'[u] # "off"
    <3>1. x # "off"
      BY Zenon DEF Inside, IrqOn, Calls
    <3>2. \A u \in Thread : pc[u] # "off"
      BY Zenon DEF IInv, TaskInv
    <3> QED BY <3>1, <3>2, <1>3, Zenon
  <2>3. ASSUME NEW u \in Cpu
        PROVE  /\ state'[u] = "RUNNING" /\ act'[u] = "TO_READY" /\ ret'[u] = "run"
               /\ pc'[u] \notin {"sleep", "wait_if", "boot"}
               /\ \A d \in Cpu : u \in {stack'[d], current'[d], prev'[d]} => d = u
    <3>1. /\ state[u] = "RUNNING" /\ act[u] = "TO_READY" /\ ret[u] = "run"
          /\ pc[u] \notin {"sleep", "wait_if", "boot"}
          /\ \A d \in Cpu : u \in {stack[d], current[d], prev[d]} => d = u
      BY <2>3, Zenon DEF IInv, TaskInv
    <3>2. x # "boot"
      BY Zenon DEF Inside, IrqOn, Calls
    <3>3. pc'[u] \notin {"sleep", "wait_if", "boot"}
      BY <3>1, <3>2, <1>3, Zenon
    <3>4. act'[u] = "TO_READY" /\ ret'[u] = "run"
      BY <3>1, Zenon
    <3> QED BY <3>1, <3>3, <3>4, Zenon
  <2>4. \A u \in Task : hand'[u] # <<>> <=> pc'[u] = "wake"
    BY <1>3, SMTT(60) DEF IInv, TaskInv
  <2> QED BY <2>1, <2>2, <2>3, <2>4, Zenon DEF TaskInv
<1> QED BY <1>4, <1>5, Zenon

LEMMA LocalStep ==
  ASSUME IInv, NEW c \in Cpu, NEW x \in Inside,
         pc[stack[c]] \in Inside,
         pc[stack[c]] = "pick" => act[stack[c]] # "TO_WAIT",
         pc' = [pc EXCEPT ![stack[c]] = x],
         UNCHANGED <<current, prev, stack, space, lock>>,
         \A u \in Task : u # stack[c] => /\ act'[u] = act[u] /\ wq'[u] = wq[u]
                                         /\ ret'[u] = ret[u] /\ hand'[u] = hand[u],
         \A u \in Cpu : state'[u] = state[u],
         stack[c] \in Cpu => /\ x \notin {"sleep", "wait_if"}
                             /\ act'[stack[c]] = "TO_READY" /\ ret'[stack[c]] = "run",
         x = "pick" => act'[stack[c]] # "TO_WAIT",
         x \in Calls => wq'[stack[c]] \in Queue,
         hand'[stack[c]] # <<>> <=> x = "wake"
  PROVE  CpuInv' /\ TaskInv' /\ LockInv'
<1> DEFINE t == stack[c]
<1>0. /\ t \in Task
      /\ \A d \in Cpu : d # c => t \notin {stack[d], current[d], prev[d]}
  BY Owner, Zenon
<1>1. /\ pc \in [Task -> Points]
      /\ \A d \in Cpu : stack[d] \in Task /\ current[d] \in Task \cup {None}
                        /\ prev[d] \in Task \cup {None}
  BY Facts, Zenon
<1>2. Settled(c)
  BY Zenon DEF IInv, CpuInv, Inside
<1>3. /\ pc'[t] = x
      /\ \A u \in Task : u # t => pc'[u] = pc[u]
  BY <1>0, <1>1, Zenon
<1>4. CpuInv' /\ TaskInv'
  BY LocalCpu, ZenonT(60)
<1>6. LockInv'
  <2>1. LockCrossesSwitchOnly'
    <3> SUFFICES ASSUME NEW q \in Queue, lock[q] # None
                 PROVE  \E d \in Cpu : Blocking(d, lock[q], q)'
      BY Zenon DEF LockCrossesSwitchOnly
    <3>1. PICK d \in Cpu : Blocking(d, lock[q], q)
      BY Zenon DEF IInv, LockInv, LockCrossesSwitchOnly
    <3>2. lock[q] \in Task
      BY Facts, Zenon
    <3>3. lock[q] # t
      BY <3>1, Zenon DEF Blocking, Inside, IrqOn, Calls
    <3>4. Blocking(d, lock[q], q)'
      BY <3>1, <3>2, <3>3, <1>3, Zenon DEF Blocking
    <3> QED BY <3>4, Zenon
  <2>2. \A u \in Task : pc'[u] \in Calls => wq'[u] \in Queue
    BY <1>3, SMTT(60) DEF IInv, LockInv
  <2>3. ASSUME NEW d \in Cpu, NEW u \in Task, act'[u] = "TO_WAIT",
               \/ stack'[d] = u /\ pc'[u] \in {"pick", "switch"}
               \/ prev'[d] = u
        PROVE  wq'[u] \in Queue /\ lock'[wq'[u]] = u
    <3>1. u # t
      BY <2>3, <1>0, <1>2, <1>3, Zenon DEF Inside, IrqOn, Calls, Settled
    <3> QED
      BY <2>3, <3>1, <1>3, SMTT(60) DEF IInv, LockInv
  <2> QED BY <2>1, <2>2, <2>3, ZenonT(60) DEF LockInv
<1> QED BY <1>4, <1>6, Zenon

\* A step that leaves the queues, the states and the CPUs' slots alone (reap may
\* drop zombies) leaves every task in its place.
LEMMA SamePlaces ==
  ASSUME StateIsPlace, zombies' \subseteq zombies,
         UNCHANGED <<ready, sleepers, list, hand, state, current, prev>>
  PROVE  StateIsPlace'
  BY ZenonT(60) DEF StateIsPlace, ReadyPlace, SleepPlace, WaitPlace, BlockedPlace, WaitOnce, CpuPlace

LEMMA WaitSame ==
  ASSUME WaitPlace, UNCHANGED <<list, hand>>,
         \A t \in Thread : state'[t] = "BLOCKED" <=> state[t] = "BLOCKED"
  PROVE  WaitPlace'
<1>1. BlockedPlace'
  BY Zenon DEF WaitPlace, BlockedPlace
<1>2. WaitOnce'
  BY ZenonT(60) DEF WaitPlace, WaitOnce
<1> QED BY <1>1, <1>2, Zenon DEF WaitPlace

LEMMA CpuSame ==
  ASSUME CpuPlace, UNCHANGED <<current, prev>>,
         \A t \in Thread : state'[t] = "RUNNING" <=> state[t] = "RUNNING"
  PROVE  CpuPlace'
  BY Zenon DEF CpuPlace

\* Taking tasks out of the wait queues, or of the hands of wakers, keeps the rest
\* distinct.
LEMMA WaitFewer ==
  ASSUME WaitOnce,
         \A q \in Queue : Once(list'[q]) /\ Range(list'[q]) \subseteq Range(list[q]),
         \A u \in Task : Once(hand'[u]) /\ Range(hand'[u]) \subseteq Range(hand[u])
  PROVE  WaitOnce'
<1>1. \A q, r \in Queue : q # r => Range(list'[q]) \cap Range(list'[r]) = {}
  BY Zenon DEF WaitOnce
<1>2. \A u, v \in Task : u # v => Range(hand'[u]) \cap Range(hand'[v]) = {}
  <2>1. \A u, v \in Task : u # v => Range(hand[u]) \cap Range(hand[v]) = {}
    BY Zenon DEF WaitOnce
  <2> QED BY <2>1, Zenon
<1>3. \A q \in Queue, u \in Task : Range(list'[q]) \cap Range(hand'[u]) = {}
  <2>1. \A q \in Queue, u \in Task : Range(list[q]) \cap Range(hand[u]) = {}
    BY Zenon DEF WaitOnce
  <2> QED BY <2>1, Zenon
<1> QED BY <1>1, <1>2, <1>3, ZenonT(60) DEF WaitOnce

-----------------------------------------------------------------------------

LEMMA YieldNowInv ==
  ASSUME IInv, NEW c \in Cpu, YieldNow(c)
  PROVE  IInv'
<1>1. stack[c] \in Task /\ TypeOK /\ TaskInv
  BY Facts, Zenon
<1>2. TypeOK'
  BY <1>1, Zenon DEF TypeOK, YieldNow, CallSchedule, Goto, cpuVars, waitVars, Actions, Points, IrqOn, Calls
<1>3. StateIsPlace'
  BY SamePlaces, Zenon DEF IInv, YieldNow, cpuVars, waitVars
<1>4. CpuInv' /\ TaskInv' /\ LockInv'
  <2>1. /\ pc[stack[c]] \in Inside \ {"pick", "wake"}
        /\ pc' = [pc EXCEPT ![stack[c]] = "pick"] /\ "pick" \in Inside \ {"wake"}
        /\ UNCHANGED <<current, prev, stack, space, lock, state, hand>>
    BY Zenon DEF YieldNow, CallSchedule, Goto, cpuVars, waitVars, Inside, IrqOn, Calls
  <2>2. /\ \A u \in Task : u # stack[c] => /\ act'[u] = act[u] /\ wq'[u] = wq[u]
                                           /\ ret'[u] = ret[u]
        /\ stack[c] \in Cpu => /\ "pick" \notin {"sleep", "wait_if"}
                               /\ act'[stack[c]] = "TO_READY" /\ ret'[stack[c]] = "run"
        /\ "pick" = "pick" => act'[stack[c]] # "TO_WAIT"
        /\ "pick" \in Calls => wq'[stack[c]] \in Queue
    BY <1>1, Zenon DEF TypeOK, TaskInv, YieldNow, CallSchedule, Goto, cpuVars, Calls
  <2>3. hand'[stack[c]] # <<>> <=> "pick" = "wake"
    BY <1>1, <2>1, Zenon DEF TaskInv
  <2> QED BY <2>1, <2>2, <2>3, LocalStep, ZenonT(60)
<1> QED
  BY <1>2, <1>3, <1>4, Zenon DEF IInv

LEMMA SleepInv ==
  ASSUME IInv, NEW c \in Cpu, NEW d \in 1..MaxSleep, Sleep(c, d)
  PROVE  IInv'
<1>1. stack[c] \in Task /\ TypeOK /\ TaskInv
  BY Facts, Zenon
<1>2. TypeOK'
  BY <1>1, SMTT(60) DEF TypeOK, Sleep, Goto, cpuVars, waitVars, Actions, Points, IrqOn, Calls
<1>3. StateIsPlace'
  BY SamePlaces, Zenon DEF IInv, Sleep, cpuVars, waitVars
<1>4. CpuInv' /\ TaskInv' /\ LockInv'
  <2>1. /\ pc[stack[c]] \in Inside \ {"pick", "wake"}
        /\ pc' = [pc EXCEPT ![stack[c]] = "sleep"] /\ "sleep" \in Inside \ {"wake"}
        /\ UNCHANGED <<current, prev, stack, space, lock, state, hand>>
    BY Zenon DEF Sleep, Goto, cpuVars, waitVars, Inside, IrqOn, Calls
  <2>2. /\ \A u \in Task : u # stack[c] => /\ act'[u] = act[u] /\ wq'[u] = wq[u]
                                           /\ ret'[u] = ret[u]
        /\ stack[c] \in Cpu => /\ "sleep" \notin {"sleep", "wait_if"}
                               /\ act'[stack[c]] = "TO_READY" /\ ret'[stack[c]] = "run"
        /\ "sleep" = "pick" => act'[stack[c]] # "TO_WAIT"
        /\ "sleep" \in Calls => wq'[stack[c]] \in Queue
    BY <1>1, Zenon DEF TypeOK, TaskInv, Sleep, Goto, cpuVars, Calls
  <2>3. hand'[stack[c]] # <<>> <=> "sleep" = "wake"
    BY <1>1, <2>1, Zenon DEF TaskInv
  <2> QED BY <2>1, <2>2, <2>3, LocalStep, ZenonT(60)
<1> QED
  BY <1>2, <1>3, <1>4, Zenon DEF IInv

LEMMA SleepParkInv ==
  ASSUME IInv, NEW c \in Cpu, SleepPark(c)
  PROVE  IInv'
<1>1. stack[c] \in Task /\ TypeOK /\ TaskInv
  BY Facts, Zenon
<1>2. TypeOK'
  BY <1>1, Zenon DEF TypeOK, SleepPark, CallSchedule, Goto, cpuVars, waitVars, Actions, Points, IrqOn, Calls
<1>3. StateIsPlace'
  BY SamePlaces, Zenon DEF IInv, SleepPark, cpuVars, waitVars
<1>4. CpuInv' /\ TaskInv' /\ LockInv'
  <2>1. /\ pc[stack[c]] \in Inside \ {"pick", "wake"}
        /\ pc' = [pc EXCEPT ![stack[c]] = "pick"] /\ "pick" \in Inside \ {"wake"}
        /\ UNCHANGED <<current, prev, stack, space, lock, state, hand>>
    BY Zenon DEF SleepPark, CallSchedule, Goto, cpuVars, waitVars, Inside, IrqOn, Calls
  <2>2. /\ \A u \in Task : u # stack[c] => /\ act'[u] = act[u] /\ wq'[u] = wq[u]
                                           /\ ret'[u] = ret[u]
        /\ stack[c] \in Cpu => /\ "pick" \notin {"sleep", "wait_if"}
                               /\ act'[stack[c]] = "TO_READY" /\ ret'[stack[c]] = "run"
        /\ "pick" = "pick" => act'[stack[c]] # "TO_WAIT"
        /\ "pick" \in Calls => wq'[stack[c]] \in Queue
    BY <1>1, Zenon DEF TypeOK, TaskInv, SleepPark, CallSchedule, Goto, cpuVars, Calls
  <2>3. hand'[stack[c]] # <<>> <=> "pick" = "wake"
    BY <1>1, <2>1, Zenon DEF TaskInv
  <2> QED BY <2>1, <2>2, <2>3, LocalStep, ZenonT(60)
<1> QED
  BY <1>2, <1>3, <1>4, Zenon DEF IInv

LEMMA ExitInv ==
  ASSUME IInv, NEW c \in Cpu, Exit(c)
  PROVE  IInv'
<1>1. stack[c] \in Task /\ TypeOK /\ TaskInv
  BY Facts, Zenon
<1>2. TypeOK'
  BY <1>1, Zenon DEF TypeOK, Exit, CallSchedule, Goto, cpuVars, waitVars, Actions, Points, IrqOn, Calls
<1>3. StateIsPlace'
  BY SamePlaces, Zenon DEF IInv, Exit, cpuVars, waitVars
<1>4. CpuInv' /\ TaskInv' /\ LockInv'
  <2>1. /\ pc[stack[c]] \in Inside \ {"pick", "wake"}
        /\ pc' = [pc EXCEPT ![stack[c]] = "pick"] /\ "pick" \in Inside \ {"wake"}
        /\ UNCHANGED <<current, prev, stack, space, lock, state, hand>>
    BY Zenon DEF Exit, CallSchedule, Goto, cpuVars, waitVars, Inside, IrqOn, Calls
  <2>2. /\ \A u \in Task : u # stack[c] => /\ act'[u] = act[u] /\ wq'[u] = wq[u]
                                           /\ ret'[u] = ret[u]
        /\ stack[c] \in Cpu => /\ "pick" \notin {"sleep", "wait_if"}
                               /\ act'[stack[c]] = "TO_READY" /\ ret'[stack[c]] = "run"
        /\ "pick" = "pick" => act'[stack[c]] # "TO_WAIT"
        /\ "pick" \in Calls => wq'[stack[c]] \in Queue
    BY <1>1, Zenon DEF TypeOK, TaskInv, Exit, CallSchedule, Goto, cpuVars, Calls
  <2>3. hand'[stack[c]] # <<>> <=> "pick" = "wake"
    BY <1>1, <2>1, Zenon DEF TaskInv
  <2> QED BY <2>1, <2>2, <2>3, LocalStep, ZenonT(60)
<1> QED
  BY <1>2, <1>3, <1>4, Zenon DEF IInv

LEMMA IdleLoopInv ==
  ASSUME IInv, NEW c \in Cpu, IdleLoop(c)
  PROVE  IInv'
<1>1. stack[c] \in Task /\ TypeOK /\ TaskInv
  BY Facts, Zenon
<1>2. TypeOK'
  BY <1>1, Zenon DEF TypeOK, IdleLoop, CallSchedule, Goto, cpuVars, waitVars, Actions, Points, IrqOn, Calls
<1>3. StateIsPlace'
  BY SamePlaces, Zenon DEF IInv, IdleLoop, cpuVars, waitVars
<1>4. CpuInv' /\ TaskInv' /\ LockInv'
  <2>1. /\ pc[stack[c]] \in Inside \ {"pick", "wake"}
        /\ pc' = [pc EXCEPT ![stack[c]] = "pick"] /\ "pick" \in Inside \ {"wake"}
        /\ UNCHANGED <<current, prev, stack, space, lock, state, hand>>
    BY Zenon DEF IdleLoop, CallSchedule, Goto, cpuVars, waitVars, Inside, IrqOn, Calls
  <2>2. /\ \A u \in Task : u # stack[c] => /\ act'[u] = act[u] /\ wq'[u] = wq[u]
                                           /\ ret'[u] = ret[u]
        /\ stack[c] \in Cpu => /\ "pick" \notin {"sleep", "wait_if"}
                               /\ act'[stack[c]] = "TO_READY" /\ ret'[stack[c]] = "run"
        /\ "pick" = "pick" => act'[stack[c]] # "TO_WAIT"
        /\ "pick" \in Calls => wq'[stack[c]] \in Queue
    BY <1>1, Zenon DEF TypeOK, TaskInv, IdleLoop, CallSchedule, Goto, cpuVars, Calls
  <2>3. hand'[stack[c]] # <<>> <=> "pick" = "wake"
    BY <1>1, <2>1, Zenon DEF TaskInv
  <2> QED BY <2>1, <2>2, <2>3, LocalStep, ZenonT(60)
<1> QED
  BY <1>2, <1>3, <1>4, Zenon DEF IInv

LEMMA WaitCallInv ==
  ASSUME IInv, NEW c \in Cpu, NEW q \in Queue, NEW call \in Calls, WaitCall(c, q, call)
  PROVE  IInv'
<1>1. stack[c] \in Task /\ TypeOK /\ TaskInv
  BY Facts, Zenon
<1>2. TypeOK'
  BY <1>1, ZenonT(60) DEF TypeOK, WaitCall, Goto, cpuVars, waitVars, Actions, Points, IrqOn, Calls
<1>3. StateIsPlace'
  BY SamePlaces, Zenon DEF IInv, WaitCall, cpuVars, waitVars
<1>4. CpuInv' /\ TaskInv' /\ LockInv'
  <2>1. /\ pc[stack[c]] \in Inside \ {"pick", "wake"}
        /\ pc' = [pc EXCEPT ![stack[c]] = call] /\ call \in Inside \ {"wake"}
        /\ UNCHANGED <<current, prev, stack, space, lock, state, hand>>
    BY Zenon DEF WaitCall, Goto, cpuVars, waitVars, Inside, IrqOn, Calls
  <2>2. /\ \A u \in Task : u # stack[c] => /\ act'[u] = act[u] /\ wq'[u] = wq[u]
                                           /\ ret'[u] = ret[u]
        /\ stack[c] \in Cpu => /\ call \notin {"sleep", "wait_if"}
                               /\ act'[stack[c]] = "TO_READY" /\ ret'[stack[c]] = "run"
        /\ call = "pick" => act'[stack[c]] # "TO_WAIT"
        /\ call \in Calls => wq'[stack[c]] \in Queue
    BY <1>1, Zenon DEF TypeOK, TaskInv, WaitCall, Goto, cpuVars, Calls
  <2>3. hand'[stack[c]] # <<>> <=> call = "wake"
    BY <1>1, <2>1, Zenon DEF TaskInv
  <2> QED BY <2>1, <2>2, <2>3, LocalStep, ZenonT(60)
<1> QED
  BY <1>2, <1>3, <1>4, Zenon DEF IInv

LEMMA WaitRejectedInv ==
  ASSUME IInv, NEW c \in Cpu, WaitRejected(c)
  PROVE  IInv'
<1>1. stack[c] \in Task /\ TypeOK /\ TaskInv
  BY Facts, Zenon
<1>2. TypeOK'
  BY <1>1, Zenon DEF TypeOK, WaitRejected, Goto, cpuVars, waitVars, Actions, Points, IrqOn, Calls
<1>3. StateIsPlace'
  BY SamePlaces, Zenon DEF IInv, WaitRejected, cpuVars, waitVars
<1>4. CpuInv' /\ TaskInv' /\ LockInv'
  <2>1. /\ pc[stack[c]] \in Inside \ {"pick", "wake"}
        /\ pc' = [pc EXCEPT ![stack[c]] = "run"] /\ "run" \in Inside \ {"wake"}
        /\ UNCHANGED <<current, prev, stack, space, lock, state, hand>>
    BY Zenon DEF WaitRejected, Goto, cpuVars, waitVars, Inside, IrqOn, Calls
  <2>2. /\ \A u \in Task : u # stack[c] => /\ act'[u] = act[u] /\ wq'[u] = wq[u]
                                           /\ ret'[u] = ret[u]
        /\ stack[c] \in Cpu => /\ "run" \notin {"sleep", "wait_if"}
                               /\ act'[stack[c]] = "TO_READY" /\ ret'[stack[c]] = "run"
        /\ "run" = "pick" => act'[stack[c]] # "TO_WAIT"
        /\ "run" \in Calls => wq'[stack[c]] \in Queue
    BY <1>1, Zenon DEF TypeOK, TaskInv, WaitRejected, Goto, cpuVars, Calls
  <2>3. hand'[stack[c]] # <<>> <=> "run" = "wake"
    BY <1>1, <2>1, Zenon DEF TaskInv
  <2> QED BY <2>1, <2>2, <2>3, LocalStep, ZenonT(60)
<1> QED
  BY <1>2, <1>3, <1>4, Zenon DEF IInv

LEMMA SpawnInv ==
  ASSUME IInv, NEW c \in Cpu, NEW u \in Thread, Spawn(c, u)
  PROVE  IInv'
<1>1. stack[c] \in Task /\ TypeOK /\ TaskInv /\ StateIsPlace
  BY Facts, Zenon
<1>2. /\ state[u] = "NEW" /\ state' = [state EXCEPT ![u] = "READY"]
      /\ ready' = Append(ready, u) /\ pc[stack[c]] = "run" /\ pc' = pc
      /\ UNCHANGED <<current, prev, slice, stack, space, sleepers, zombies, lock, list,
                     due, ret, act, wq, hand>>
  BY Zenon DEF Spawn, cpuVars, waitVars
<1>3. /\ u \notin Range(ready)
      /\ ready' \in Seq(Thread)
      /\ Range(ready') = Range(ready) \cup {u}
      /\ Once(ready')
  <2>1. u \notin Range(ready) /\ Once(ready) /\ ready \in Seq(Thread)
    BY <1>1, <1>2, Zenon DEF StateIsPlace, ReadyPlace, TypeOK
  <2> QED BY <2>1, <1>2, RangeAppend
<1>4. TypeOK'
  BY <1>1, <1>2, <1>3, Zenon DEF TypeOK, States
<1>5. StateIsPlace'
  <2>1. \A t \in Thread : t # u => state'[t] = state[t]
    BY <1>1, <1>2, Zenon DEF TypeOK
  <2>2. state'[u] = "READY"
    BY <1>1, <1>2, Zenon DEF TypeOK
  <2>3. ReadyPlace'
    BY <1>1, <1>3, <2>1, <2>2, Zenon DEF StateIsPlace, ReadyPlace
  <2>4. SleepPlace'
    BY <1>1, <1>2, <2>1, <2>2, Zenon DEF StateIsPlace, SleepPlace
  <2>5. WaitPlace'
    <3>1. \A t \in Thread : state'[t] = "BLOCKED" <=> state[t] = "BLOCKED"
      BY <1>2, <2>1, <2>2, Zenon
    <3> QED BY <3>1, <1>1, <1>2, WaitSame, Zenon DEF StateIsPlace
  <2>6. CpuPlace'
    BY <1>1, <1>2, <2>1, <2>2, ZenonT(60) DEF StateIsPlace, CpuPlace
  <2> QED BY <2>3, <2>4, <2>5, <2>6, Zenon DEF StateIsPlace
<1>6. CpuInv' /\ TaskInv' /\ LockInv'
  <2>1. pc' = [pc EXCEPT ![stack[c]] = "run"] /\ "run" \in Inside
    BY <1>1, <1>2, Zenon DEF TypeOK, Inside, IrqOn
  <2>2. /\ \A v \in Cpu : state'[v] = state[v]
        /\ stack[c] \in Cpu => act'[stack[c]] = "TO_READY" /\ ret'[stack[c]] = "run"
        /\ hand'[stack[c]] = <<>>
    BY <1>1, <1>2, Zenon DEF TypeOK, TaskInv
  <2>3. "run" \notin Calls
    BY Zenon DEF Calls
  <2> QED BY <1>2, <2>1, <2>2, <2>3, LocalStep, ZenonT(60)
<1> QED
  BY <1>4, <1>5, <1>6, Zenon DEF IInv

LEMMA WakeInv ==
  ASSUME IInv, NEW c \in Cpu, Wake(c)
  PROVE  IInv'
<1> DEFINE t == stack[c]
           q == wq[t]
           x == IF list[q] = <<>> THEN "run" ELSE "wake"
<1>1. t \in Task /\ q \in Queue /\ TypeOK /\ TaskInv /\ StateIsPlace
  BY ZenonT(60) DEF IInv, TypeOK, LockInv, Wake, Calls
<1>2. /\ pc[t] \in {"wake_one", "wake_all"} /\ pc' = [pc EXCEPT ![t] = x]
      /\ wq' = [wq EXCEPT ![t] = None]
      /\ UNCHANGED <<current, prev, slice, stack, space, ready, sleepers, zombies, lock,
                     state, due, ret, act>>
  BY Zenon DEF Wake, Goto, cpuVars
<1>3. hand[t] = <<>>
  BY <1>1, <1>2, Zenon DEF TaskInv
<1>4. /\ list[q] \in Seq(Thread) /\ Once(list[q])
      /\ list \in [Queue -> Seq(Thread)] /\ hand \in [Task -> Seq(Thread)]
  BY <1>1, SMTT(60) DEF TypeOK, StateIsPlace, WaitPlace, BlockedPlace, WaitOnce
<1>5. /\ list' \in [Queue -> Seq(Thread)] /\ hand' \in [Task -> Seq(Thread)]
      /\ \A r \in Queue : r # q => list'[r] = list[r]
      /\ \A u \in Task : u # t => hand'[u] = hand[u]
      /\ Once(list'[q]) /\ Once(hand'[t])
      /\ Range(list'[q]) \cup Range(hand'[t]) = Range(list[q])
      /\ Range(list'[q]) \cap Range(hand'[t]) = {}
      /\ hand'[t] # <<>> <=> x = "wake"
  <2>1. CASE list[q] = <<>>
    <3>1. list' = list /\ hand' = hand
      BY <2>1, Zenon DEF Wake
    <3> QED BY <3>1, <2>1, <1>1, <1>3, <1>4, RangeShort, ZenonT(60)
  <2>2. CASE list[q] # <<>> /\ pc[t] = "wake_all"
    <3>1. hand' = [hand EXCEPT ![t] = list[q]] /\ list' = [list EXCEPT ![q] = <<>>]
      BY <2>2, Zenon DEF Wake
    <3>2. hand'[t] = list[q] /\ list'[q] = <<>> /\ <<>> \in Seq(Thread)
      BY <3>1, <1>1, <1>4, SMTT(60)
    <3> QED BY <3>1, <3>2, <2>2, <1>1, <1>4, RangeShort, ZenonT(60)
  <2>3. CASE list[q] # <<>> /\ pc[t] = "wake_one"
    <3>1. hand' = [hand EXCEPT ![t] = <<Head(list[q])>>]
          /\ list' = [list EXCEPT ![q] = Tail(list[q])]
      BY <2>3, Zenon DEF Wake
    <3>2. /\ Head(list[q]) \in Thread /\ Tail(list[q]) \in Seq(Thread)
          /\ Range(list[q]) = Range(Tail(list[q])) \cup {Head(list[q])}
          /\ Once(Tail(list[q])) /\ Head(list[q]) \notin Range(Tail(list[q]))
      BY <2>3, <1>4, RangeTail, SMTT(60)
    <3>3. /\ hand'[t] = <<Head(list[q])>> /\ list'[q] = Tail(list[q])
          /\ <<Head(list[q])>> \in Seq(Thread) /\ <<Head(list[q])>> # <<>>
      BY <3>1, <3>2, <1>1, <1>4, SMTT(60)
    <3>4. Range(hand'[t]) = {Head(list[q])} /\ Once(hand'[t])
      BY <3>3, RangeShort, Zenon
    <3>5. Range(list'[q]) \cap Range(hand'[t]) = {}
      BY <3>2, <3>3, <3>4, Zenon
    <3>6. Range(list'[q]) \cup Range(hand'[t]) = Range(list[q])
      BY <3>2, <3>3, <3>4, Zenon
    <3>7. list' \in [Queue -> Seq(Thread)] /\ hand' \in [Task -> Seq(Thread)]
      BY <3>1, <3>2, <3>3, <1>1, <1>4, Zenon
    <3>8. /\ \A r \in Queue : r # q => list'[r] = list[r]
          /\ \A u \in Task : u # t => hand'[u] = hand[u]
      BY <3>1, <1>1, <1>4, Zenon
    <3>9. Once(list'[q]) /\ (hand'[t] # <<>> <=> x = "wake")
      BY <3>2, <3>3, <2>3, Zenon
    <3> QED BY <3>4, <3>5, <3>6, <3>7, <3>8, <3>9, Zenon
  <2> QED BY <1>2, <2>1, <2>2, <2>3, ZenonT(60)
<1>6. TypeOK'
  BY <1>1, <1>2, <1>5, ZenonT(60) DEF TypeOK, Points, IrqOn
<1>7. StateIsPlace'
  <2>1. ReadyPlace' /\ SleepPlace' /\ CpuPlace'
    BY <1>1, <1>2, ZenonT(60) DEF StateIsPlace, ReadyPlace, SleepPlace, CpuPlace
  <2>2. Range(hand[t]) = {}
    BY <1>3, RangeShort, ZenonT(60)
  <2>3. ASSUME NEW u \in Thread
        PROVE  (\/ \E r \in Queue : u \in Range(list'[r])
                \/ \E v \in Task : u \in Range(hand'[v]))
               <=> (\/ \E r \in Queue : u \in Range(list[r])
                    \/ \E v \in Task : u \in Range(hand[v]))
    BY <1>1, <1>5, <2>2, ZenonT(60)
  <2>4. WaitPlace'
    <3>1. WaitOnce
      BY <1>1, Zenon DEF StateIsPlace, WaitPlace
    <3>2. \A r \in Queue : Once(list'[r]) /\ Range(list'[r]) \subseteq Range(list[r])
      BY <3>1, <1>5, ZenonT(60) DEF WaitOnce
    <3>3. \A v \in Task : Once(hand'[v])
      BY <3>1, <1>5, ZenonT(60) DEF WaitOnce
    <3>4. Range(hand'[t]) \subseteq Range(list[q])
      BY <1>5, Zenon
    <3>5. \A r, v \in Queue : r # v => Range(list'[r]) \cap Range(list'[v]) = {}
      BY <3>1, <3>2, Zenon DEF WaitOnce
    <3>6. \A v \in Task : v # t => Range(hand'[t]) \cap Range(hand'[v]) = {}
      <4>1. ASSUME NEW v \in Task, v # t
            PROVE  Range(list[q]) \cap Range(hand'[v]) = {}
        BY <4>1, <3>1, <1>1, <1>5, ZenonT(60) DEF WaitOnce
      <4> QED BY <4>1, <3>4, Zenon
    <3>7. \A u, v \in Task : u # v => Range(hand'[u]) \cap Range(hand'[v]) = {}
      <4> SUFFICES ASSUME NEW u \in Task, NEW v \in Task, u # v
                   PROVE  Range(hand'[u]) \cap Range(hand'[v]) = {}
        BY Zenon
      <4>1. CASE u # t /\ v # t
        BY <4>1, <3>1, <1>5, ZenonT(60) DEF WaitOnce
      <4> QED BY <4>1, <3>6, Zenon
    <3>8. ASSUME NEW r \in Queue, NEW v \in Task
          PROVE  Range(list'[r]) \cap Range(hand'[v]) = {}
      <4>1. CASE v # t
        BY <4>1, <3>1, <3>2, <1>5, ZenonT(60) DEF WaitOnce
      <4>2. CASE v = t /\ r # q
        BY <4>2, <3>1, <3>2, <3>4, <1>1, Zenon DEF WaitOnce
      <4>3. CASE v = t /\ r = q
        BY <4>3, <1>5, Zenon
      <4> QED BY <4>1, <4>2, <4>3, Zenon
    <3>9. BlockedPlace'
      BY <1>1, <1>2, <2>3, Zenon DEF StateIsPlace, WaitPlace, BlockedPlace
    <3>10. WaitOnce'
      BY <3>2, <3>3, <3>5, <3>7, <3>8, Zenon DEF WaitOnce
    <3> QED BY <3>9, <3>10, Zenon DEF WaitPlace
  <2> QED BY <2>1, <2>4, Zenon DEF StateIsPlace
<1>8. CpuInv' /\ TaskInv' /\ LockInv'
  <2>1. pc[t] \in Inside \ {"pick"} /\ x \in Inside \ Calls /\ x \notin {"pick", "sleep", "wait_if"}
    BY <1>2, Zenon DEF Inside, IrqOn, Calls
  <2>2. /\ \A u \in Task : u # t => wq'[u] = wq[u]
        /\ t \in Cpu => act'[t] = "TO_READY" /\ ret'[t] = "run"
    BY <1>1, <1>2, Zenon DEF TypeOK, TaskInv
  <2>3. \A u \in Task : u # t => /\ act'[u] = act[u] /\ wq'[u] = wq[u]
                                 /\ ret'[u] = ret[u] /\ hand'[u] = hand[u]
    BY <1>2, <1>5, <2>2, Zenon
  <2>4. hand'[t] # <<>> <=> x = "wake"
    BY <1>5, Zenon
  <2>5. /\ \A v \in Cpu : state'[v] = state[v]
        /\ UNCHANGED <<current, prev, stack, space, lock>>
    BY <1>2, Zenon
  <2> HIDE DEF x
  <2> QED BY <1>2, <2>1, <2>2, <2>3, <2>4, <2>5, LocalStep, ZenonT(60)
<1> QED
  BY <1>6, <1>7, <1>8, Zenon DEF IInv

LEMMA MakeReadyInv ==
  ASSUME IInv, NEW c \in Cpu, MakeReady(c)
  PROVE  IInv'
<1> DEFINE t == stack[c]
           u == Head(hand[t])
           x == IF Len(hand[t]) = 1 THEN "run" ELSE "wake"
<1>1. t \in Task /\ TypeOK /\ TaskInv /\ StateIsPlace
  BY Facts, Zenon
<1>2. /\ pc[t] = "wake" /\ pc' = [pc EXCEPT ![t] = x]
      /\ state' = [state EXCEPT ![u] = "READY"] /\ ready' = Append(ready, u)
      /\ hand' = [hand EXCEPT ![t] = Tail(hand[t])]
      /\ UNCHANGED <<current, prev, slice, stack, space, sleepers, zombies, lock, list,
                     due, ret, act, wq>>
  BY Zenon DEF MakeReady, Goto, cpuVars, waitVars
<1>3. hand[t] # <<>> /\ hand[t] \in Seq(Thread) /\ Once(hand[t])
  <2>1. hand[t] # <<>>
    BY <1>1, <1>2, Zenon DEF TaskInv
  <2>2. hand[t] \in Seq(Thread)
    BY <1>1, Zenon DEF TypeOK
  <2>3. Once(hand[t])
    BY <1>1, Zenon DEF StateIsPlace, WaitPlace, WaitOnce
  <2> QED BY <2>1, <2>2, <2>3, Zenon
<1>4. /\ u \in Thread /\ Tail(hand[t]) \in Seq(Thread)
      /\ Range(hand[t]) = Range(Tail(hand[t])) \cup {u}
      /\ Once(Tail(hand[t])) /\ u \notin Range(Tail(hand[t]))
  BY <1>3, RangeTail, Zenon
<1>5. /\ hand' \in [Task -> Seq(Thread)]
      /\ hand'[t] = Tail(hand[t]) /\ \A v \in Task : v # t => hand'[v] = hand[v]
  BY <1>1, <1>2, <1>4, ZenonT(60) DEF TypeOK
<1>6. hand'[t] # <<>> <=> x = "wake"
  <2>1. Len(Tail(hand[t])) = Len(hand[t]) - 1 /\ Len(hand[t]) \in Nat \ {0}
    BY <1>3, SeqTail, Zenon
  <2>2. Tail(hand[t]) = <<>> <=> Len(Tail(hand[t])) = 0
    BY <1>4, SeqLen, ZenonT(60)
  <2> QED BY <1>5, <2>1, <2>2
<1>7. state[u] = "BLOCKED"
  BY <1>1, <1>4, Zenon DEF StateIsPlace, WaitPlace, BlockedPlace, WaitOnce
<1>8. /\ ready' \in Seq(Thread) /\ Range(ready') = Range(ready) \cup {u} /\ Once(ready')
  <2>1. ready \in Seq(Thread) /\ Once(ready) /\ u \notin Range(ready)
    BY <1>1, <1>4, <1>7, Zenon DEF TypeOK, StateIsPlace, ReadyPlace
  <2> QED BY <2>1, <1>2, <1>4, RangeAppend, SMTT(60)
<1>9. /\ state' \in [Task -> States] /\ state'[u] = "READY"
      /\ \A v \in Task : v # u => state'[v] = state[v]
  BY <1>1, <1>2, <1>4, Zenon DEF TypeOK, States
<1>10. TypeOK'
  BY <1>1, <1>2, <1>5, <1>8, <1>9, ZenonT(60) DEF TypeOK, Points, IrqOn
<1>11. StateIsPlace'
  <2>1. ReadyPlace'
    BY <1>1, <1>8, <1>9, Zenon DEF StateIsPlace, ReadyPlace
  <2>2. SleepPlace'
    BY <1>1, <1>2, <1>7, <1>9, Zenon DEF StateIsPlace, SleepPlace
  <2>3. CpuPlace'
    <3>1. \A v \in Thread : state'[v] = "RUNNING" <=> state[v] = "RUNNING"
      BY <1>7, <1>9, Zenon
    <3> QED BY <3>1, <1>1, <1>2, CpuSame, Zenon DEF StateIsPlace
  <2>4. WaitPlace'
    <3>1. ASSUME NEW v \in Thread
          PROVE  state'[v] = "BLOCKED" <=> \/ \E q \in Queue : v \in Range(list'[q])
                                           \/ \E w \in Task : v \in Range(hand'[w])
      <4>1. CASE v = u
        <5>1. \A q \in Queue : u \notin Range(list[q])
          BY <1>1, <1>4, ZenonT(60) DEF StateIsPlace, WaitPlace, BlockedPlace, WaitOnce
        <5>2. \A w \in Task : w # t => u \notin Range(hand[w])
          BY <1>1, <1>4, ZenonT(60) DEF StateIsPlace, WaitPlace, WaitOnce
        <5>3. \A w \in Task : u \notin Range(hand'[w])
          BY <5>2, <1>4, <1>5, ZenonT(60)
        <5> QED BY <4>1, <5>1, <5>3, <1>2, <1>9, Zenon
      <4>2. CASE v # u
        <5>1. \A w \in Task : v \in Range(hand'[w]) <=> v \in Range(hand[w])
          BY <4>2, <1>4, <1>5, ZenonT(60)
        <5> QED BY <4>2, <5>1, <1>1, <1>2, <1>9, Zenon DEF StateIsPlace, WaitPlace, BlockedPlace, WaitOnce
      <4> QED BY <4>1, <4>2, Zenon
    <3>2. \A w \in Task : Once(hand'[w]) /\ Range(hand'[w]) \subseteq Range(hand[w])
      BY <1>1, <1>4, <1>5, ZenonT(60) DEF StateIsPlace, WaitPlace, BlockedPlace, WaitOnce
    <3>3. \A q \in Queue : Once(list'[q]) /\ Range(list'[q]) \subseteq Range(list[q])
      BY <1>1, <1>2, Zenon DEF StateIsPlace, WaitPlace, WaitOnce
    <3>4. WaitOnce'
      BY <3>2, <3>3, <1>1, WaitFewer, Zenon DEF StateIsPlace, WaitPlace
    <3> QED BY <3>1, <3>4, Zenon DEF WaitPlace, BlockedPlace
  <2> QED BY <2>1, <2>2, <2>3, <2>4, Zenon DEF StateIsPlace
<1>12. CpuInv' /\ TaskInv' /\ LockInv'
  <2>1. pc[t] \in Inside \ {"pick"} /\ x \in Inside \ Calls /\ x \notin {"pick", "sleep", "wait_if"}
    BY <1>2, Zenon DEF Inside, IrqOn, Calls
  <2>2. /\ \A v \in Cpu : state'[v] = state[v]
        /\ t \in Cpu => act'[t] = "TO_READY" /\ ret'[t] = "run"
    <3>1. t \in Cpu => act[t] = "TO_READY" /\ ret[t] = "run"
      BY <1>1, Zenon DEF TaskInv
    <3>2. \A v \in Cpu : v \in Task /\ v # u
      BY <1>4, Zenon
    <3> QED BY <3>1, <3>2, <1>2, <1>9, Zenon
  <2> QED BY <1>2, <1>5, <1>6, <2>1, <2>2, LocalStep, ZenonT(60)
<1> QED
  BY <1>10, <1>11, <1>12, Zenon DEF IInv

LEMMA TickInv ==
  ASSUME IInv, NEW c \in Cpu, Tick(c)
  PROVE  IInv'
<1> DEFINE t   == stack[c]
           rem == IF slice[c] > 0 THEN slice[c] - 1 ELSE 0
           now == [u \in Task |-> IF due[u] > 0 THEN due[u] - 1 ELSE 0]
           up  == Expired(now)
           x   == IF rem = 0 THEN "pick" ELSE pc[t]
<1>1. t \in Task /\ TypeOK /\ TaskInv /\ StateIsPlace
  BY Facts, SMTT(60)
<1>2. /\ pc[t] \in IrqOn /\ due' = now /\ sleepers' = sleepers \ up
      /\ state' = [u \in Task |-> IF u \in up THEN "READY" ELSE state[u]]
      /\ UNCHANGED <<current, prev, stack, space, zombies, lock, list, wq, hand>>
  BY Zenon DEF Tick, waitVars
<1>3. /\ pc' = [pc EXCEPT ![t] = x]
      /\ slice' = [slice EXCEPT ![c] = IF rem = 0 THEN TimeSlice ELSE rem]
      /\ act' = [act EXCEPT ![t] = IF rem = 0 THEN "TO_READY" ELSE act[t]]
      /\ ret' = [ret EXCEPT ![t] = IF rem = 0 THEN pc[t] ELSE ret[t]]
  <2>1. CASE rem = 0
    BY <2>1, ZenonT(60) DEF Tick, CallSchedule, Goto
  <2>2. CASE rem # 0
    <3>1. slice' = [slice EXCEPT ![c] = rem] /\ UNCHANGED <<pc, act, ret>>
      BY <2>2, Zenon DEF Tick
    <3> QED BY <2>2, <3>1, <1>1, ZenonT(60) DEF TypeOK
  <2> QED BY <2>1, <2>2, Zenon
<1>4. up \subseteq sleepers /\ up \subseteq Thread
  BY <1>1, Zenon DEF TypeOK, Expired
<1>5. now \in [Task -> 0..MaxSleep]
  <2>1. ASSUME NEW u \in Task PROVE now[u] \in 0..MaxSleep
    <3>1. due[u] \in 0..MaxSleep /\ MaxSleep \in Nat
      BY <1>1, Zenon DEF TypeOK
    <3> QED BY <3>1, SMTT(60)
  <2> QED BY <2>1, ZenonT(60)
<1>6. slice' \in [Cpu -> 0..TimeSlice]
  <2>1. slice[c] \in 0..TimeSlice /\ slice \in [Cpu -> 0..TimeSlice] /\ TimeSlice \in Nat
    BY <1>1, Zenon DEF TypeOK
  <2>2. rem \in 0..TimeSlice
    BY <2>1, SMTT(60)
  <2> QED BY <2>1, <2>2, <1>3, SMTT(60)
<1>7. /\ state' \in [Task -> States]
      /\ \A u \in Task : u \in up => state'[u] = "READY"
      /\ \A u \in Task : u \notin up => state'[u] = state[u]
  BY <1>1, <1>2, Zenon DEF TypeOK, States
<1>8. \A u \in up : state[u] = "SLEEPING"
  BY <1>1, <1>4, Zenon DEF StateIsPlace, SleepPlace
<1>9. /\ ready' \in Seq(Thread) /\ Range(ready') = Range(ready) \cup up /\ Once(ready')
  <2>1. PICK woken \in InAnyOrder(up) : ready' = ready \o woken
    BY ZenonT(60) DEF Tick
  <2>2. ready \in Seq(Thread) /\ Once(ready) /\ Range(ready) \cap up = {}
    BY <1>1, <1>4, <1>8, ZenonT(60) DEF TypeOK, StateIsPlace, ReadyPlace
  <2> HIDE DEF up
  <2> QED BY <2>1, <2>2, <1>4, RangeWoken
<1>10. TypeOK'
  <2>1. pc' \in [Task -> Points] /\ act' \in [Task -> Actions] /\ ret' \in [Task -> IrqOn]
    BY <1>1, <1>2, <1>3, Zenon DEF TypeOK, Points, Actions
  <2>2. sleepers' \subseteq Thread
    BY <1>1, <1>2, Zenon DEF TypeOK
  <2> HIDE DEF now, up
  <2> QED BY <2>1, <2>2, <1>1, <1>2, <1>5, <1>6, <1>7, <1>9, ZenonT(60) DEF TypeOK
<1>11. StateIsPlace'
  <2> HIDE DEF up, now
  <2>1. ReadyPlace'
    BY <1>1, <1>4, <1>7, <1>9, Zenon DEF StateIsPlace, ReadyPlace
  <2>2. SleepPlace'
    BY <1>1, <1>2, <1>4, <1>7, <1>8, Zenon DEF StateIsPlace, SleepPlace
  <2>3. \A u \in Thread : /\ state'[u] = "BLOCKED" <=> state[u] = "BLOCKED"
                          /\ state'[u] = "RUNNING" <=> state[u] = "RUNNING"
    BY <1>7, <1>8, Zenon
  <2>4. WaitPlace' /\ CpuPlace'
    BY <2>3, <1>1, <1>2, WaitSame, CpuSame, Zenon DEF StateIsPlace
  <2> QED BY <2>1, <2>2, <2>4, Zenon DEF StateIsPlace
<1>12. CpuInv' /\ TaskInv' /\ LockInv'
  <2>1. pc[t] \in Inside \ {"pick", "wake"} /\ x \in Inside \ Calls /\ x # "wake"
    BY <1>2, Zenon DEF Inside, IrqOn, Calls
  <2>2. /\ \A u \in Task : u # t => /\ act'[u] = act[u] /\ wq'[u] = wq[u]
                                    /\ ret'[u] = ret[u] /\ hand'[u] = hand[u]
        /\ \A v \in Cpu : state'[v] = state[v]
    <3> HIDE DEF up
    <3> QED BY <1>1, <1>2, <1>3, <1>4, <1>7, ZenonT(60) DEF TypeOK
  <2>3. t \in Cpu => /\ x \notin {"sleep", "wait_if"}
                     /\ act'[t] = "TO_READY" /\ ret'[t] = "run"
    BY <1>1, <1>2, <1>3, ZenonT(60) DEF TypeOK, TaskInv, IrqOn
  <2>4. x = "pick" => act'[t] # "TO_WAIT"
    BY <1>1, <1>2, <1>3, ZenonT(60) DEF TypeOK, IrqOn
  <2>5. hand'[t] # <<>> <=> x = "wake"
    BY <1>1, <1>2, <2>1, Zenon DEF TaskInv
  <2>6. pc' = [pc EXCEPT ![t] = x] /\ UNCHANGED <<current, prev, stack, space, lock>>
    BY <1>2, <1>3, Zenon
  <2> HIDE DEF x
  <2> QED BY <2>1, <2>2, <2>3, <2>4, <2>5, <2>6, LocalStep, ZenonT(60)
<1> QED
  BY <1>10, <1>11, <1>12, Zenon DEF IInv

LEMMA WaitIfInv ==
  ASSUME IInv, NEW c \in Cpu, WaitIf(c)
  PROVE  IInv'
<1> DEFINE t == stack[c]
           q == wq[t]
<1>1. /\ t \in Task /\ TypeOK /\ TaskInv
      /\ \A d \in Cpu : d # c => t \notin {stack[d], current[d], prev[d]}
  BY Owner, ZenonT(60) DEF IInv, TypeOK
<1>2. /\ pc[t] = "wait_if" /\ lock[q] = None /\ lock' = [lock EXCEPT ![q] = t]
      /\ pc' = [pc EXCEPT ![t] = "pick"] /\ act' = [act EXCEPT ![t] = "TO_WAIT"]
      /\ ret' = [ret EXCEPT ![t] = "run"]
      /\ UNCHANGED <<current, prev, slice, stack, space, ready, sleepers, zombies, list,
                     state, due, wq, hand>>
  BY Zenon DEF WaitIf, CallSchedule, Goto, cpuVars
<1>3. t \in Thread /\ q \in Queue
  BY <1>1, <1>2, Zenon DEF IInv, TaskInv, LockInv, Calls
<1>4. TypeOK'
  BY <1>1, <1>2, <1>3, ZenonT(60) DEF TypeOK, Points, IrqOn, Actions
<1>5. StateIsPlace'
  BY <1>2, SamePlaces, Zenon DEF IInv
<1>6. /\ pc'[t] = "pick" /\ act'[t] = "TO_WAIT"
      /\ \A u \in Task : u # t => pc'[u] = pc[u] /\ act'[u] = act[u] /\ ret'[u] = ret[u]
      /\ lock'[q] = t /\ \A r \in Queue : r # q => lock'[r] = lock[r]
  BY <1>1, <1>2, <1>3, ZenonT(60) DEF TypeOK
<1>7. CpuInv' /\ TaskInv'
  <2>1. pc[t] \in Inside /\ "pick" \in Inside
    BY <1>2, Zenon DEF Inside, Calls
  <2>2. hand'[t] # <<>> <=> "pick" = "wake"
    BY <1>1, <1>2, Zenon DEF TaskInv
  <2>3. t \notin Cpu
    BY <1>3, Zenon
  <2> QED BY <1>2, <1>6, <2>1, <2>2, <2>3, LocalCpu, ZenonT(60)
<1>8. LockInv'
  <2>2. LockCrossesSwitchOnly'
    <3>0. SUFFICES ASSUME NEW r \in Queue, lock'[r] # None
                   PROVE  \E d \in Cpu : Blocking(d, lock[r], r)'
      BY Zenon DEF LockCrossesSwitchOnly
    <3>1. CASE r = q
      <4>1. Blocking(c, lock[r], r)'
        BY <3>1, <1>2, <1>6, Zenon DEF Blocking
      <4> QED BY <4>1, Zenon
    <3>2. CASE r # q
      <4>1. PICK d \in Cpu : Blocking(d, lock[r], r)
        BY <3>0, <3>2, <1>6, Zenon DEF IInv, LockInv, LockCrossesSwitchOnly
      <4>2. lock[r] # t /\ lock[r] \in Task
        <5>1. lock[r] # t
          BY <4>1, <1>2, Zenon DEF Blocking
        <5>2. lock \in [Queue -> Thread \cup {None}]
          BY <1>1, ZenonT(60) DEF TypeOK
        <5> QED BY <5>1, <5>2, <3>0, <3>2, <1>6, Zenon
      <4>3. Blocking(d, lock[r], r)'
        <5>1. lock'[r] = lock[r] /\ pc'[lock[r]] = pc[lock[r]] /\ stack' = stack /\ prev' = prev
          BY <4>2, <3>2, <1>2, <1>6, Zenon
        <5>2. act'[lock[r]] = act[lock[r]] /\ wq'[lock[r]] = wq[lock[r]]
          BY <4>2, <1>2, <1>6, Zenon
        <5> QED BY <4>1, <5>1, <5>2, Zenon DEF Blocking
      <4> QED BY <4>3, Zenon
    <3> QED BY <3>1, <3>2, Zenon
  <2>3. \A u \in Task : pc'[u] \in Calls => wq'[u] \in Queue
    BY <1>2, <1>6, Zenon DEF IInv, LockInv, Calls
  <2>4. ASSUME NEW d \in Cpu, NEW u \in Task, act'[u] = "TO_WAIT",
               \/ stack'[d] = u /\ pc'[u] \in {"pick", "switch"}
               \/ prev'[d] = u
        PROVE  wq'[u] \in Queue /\ lock'[wq'[u]] = u
    <3>1. CASE u = t
      BY <3>1, <1>2, <1>3, <1>6, Zenon
    <3>2. CASE u # t
      <4>1. wq[u] \in Queue /\ lock[wq[u]] = u
        <5>1. stack' = stack /\ prev' = prev /\ act'[u] = act[u] /\ pc'[u] = pc[u]
          BY <3>2, <1>2, <1>6, Zenon
        <5>2. act[u] = "TO_WAIT" /\ ((stack[d] = u /\ pc[u] \in {"pick", "switch"}) \/ prev[d] = u)
          BY <2>4, <5>1, Zenon
        <5> QED BY <5>2, Zenon DEF IInv, LockInv
      <4>2. wq[u] # q
        BY <4>1, <1>2, Zenon
      <4>3. wq'[u] = wq[u] /\ lock'[wq[u]] = lock[wq[u]]
        BY <3>2, <4>1, <4>2, <1>2, <1>6, Zenon
      <4> QED BY <4>1, <4>3, Zenon
    <3> QED BY <3>1, <3>2, Zenon
  <2> QED BY <2>2, <2>3, <2>4, ZenonT(60) DEF LockInv
<1> QED
  BY <1>4, <1>5, <1>7, <1>8, Zenon DEF IInv

LEMMA InitThisCpuInv ==
  ASSUME IInv, NEW c \in Cpu, InitThisCpu(c)
  PROVE  IInv'
<1>1. TypeOK /\ TaskInv /\ StateIsPlace /\ CpuInv
  BY Zenon DEF IInv
<1>2. /\ pc[c] = "off" /\ pc' = [pc EXCEPT ![c] = "run"]
      /\ current' = [current EXCEPT ![c] = c]
      /\ UNCHANGED <<prev, slice, stack, space, ready, sleepers, zombies, lock, list,
                     state, due, ret, act, wq, hand>>
  BY Zenon DEF InitThisCpu, Goto, waitVars
<1>3. Offline(c)
  <2>1. PICK d \in Cpu : stack[d] = c
    BY <1>1, <1>2, Zenon DEF TaskInv
  <2>2. d = c
    <3>1. c \in {stack[d], current[d], prev[d]} => d = c
      BY <1>1, Zenon DEF TaskInv
    <3> QED BY <2>1, <3>1, Zenon
  <2> QED BY <2>1, <2>2, <1>1, <1>2, Zenon DEF CpuInv
<1>4. /\ pc'[c] = "run" /\ \A u \in Task : u # c => pc'[u] = pc[u]
      /\ current'[c] = c /\ \A d \in Cpu : d # c => current'[d] = current[d]
      /\ \A d \in Cpu : d # c => c \notin {stack[d], current[d], prev[d]}
  <2>1. pc \in [Task -> Points] /\ current \in [Cpu -> Task \cup {None}]
    BY <1>1, Zenon DEF TypeOK
  <2>2. \A d \in Cpu : c \in {stack[d], current[d], prev[d]} => d = c
    BY <1>1, Zenon DEF TaskInv
  <2> QED BY <2>1, <2>2, <1>2, Zenon
<1>5. TypeOK'
  BY <1>1, <1>2, ZenonT(60) DEF TypeOK, Points, IrqOn
<1>6. StateIsPlace'
  <2>1. ReadyPlace' /\ SleepPlace'
    BY <1>1, <1>2, Zenon DEF StateIsPlace, ReadyPlace, SleepPlace
  <2>2. WaitPlace'
    BY <1>1, <1>2, WaitSame, Zenon DEF StateIsPlace
  <2>3. \A u \in Thread : \A d \in Cpu :
          u \in {current'[d], prev'[d]} <=> u \in {current[d], prev[d]}
    <3> SUFFICES ASSUME NEW u \in Thread, NEW d \in Cpu
                 PROVE  u \in {current'[d], prev'[d]} <=> u \in {current[d], prev[d]}
      BY Zenon
    <3>1. u # None /\ u # c /\ current[c] = None /\ prev' = prev
      BY <1>2, <1>3, Zenon DEF Offline
    <3> QED BY <3>1, <1>4, Zenon
  <2>4. \A d, e \in Cpu : d # e =>
          ({current'[d], prev'[d]} \ {None}) \cap ({current'[e], prev'[e]} \ {None}) = {}
    <3>1. \A d, e \in Cpu : d # e =>
            ({current[d], prev[d]} \ {None}) \cap ({current[e], prev[e]} \ {None}) = {}
      BY <1>1, Zenon DEF StateIsPlace, CpuPlace
    <3>2. {current'[c], prev'[c]} \ {None} \subseteq {c}
      BY <1>2, <1>3, <1>4, Zenon DEF Offline
    <3>3. \A d \in Cpu : d # c => /\ {current'[d], prev'[d]} = {current[d], prev[d]}
                                  /\ c \notin {current'[d], prev'[d]}
      BY <1>2, <1>4, Zenon
    <3> QED BY <3>1, <3>2, <3>3, ZenonT(60)
  <2>5. CpuPlace'
    BY <2>3, <2>4, <1>1, <1>2, Zenon DEF StateIsPlace, CpuPlace
  <2> QED BY <2>1, <2>2, <2>5, Zenon DEF StateIsPlace
<1>7. CpuInv'
  <2> SUFFICES ASSUME NEW d \in Cpu
               PROVE  /\ pc'[stack'[d]] = "off" => Offline(d)'
                      /\ pc'[stack'[d]] = "switch" => Leaving(d)'
                      /\ pc'[stack'[d]] \in {"finish", "boot"} => Arriving(d)'
                      /\ pc'[stack'[d]] \in IrqOn \cup Calls \cup {"pick", "wake"} => Settled(d)'
    BY Zenon DEF CpuInv
  <2>1. CASE d = c
    BY <2>1, <1>2, <1>3, <1>4, ZenonT(60) DEF Offline, Settled
  <2>2. CASE d # c
    <3>1. /\ pc'[stack[d]] = pc[stack[d]] /\ current'[d] = current[d]
          /\ current[d] \in Task => pc'[current[d]] = pc[current[d]]
          /\ prev[d] \in Task => pc'[prev[d]] = pc[prev[d]]
      BY <2>2, <1>1, <1>4, ZenonT(60) DEF TypeOK
    <3>2. prev'[d] = prev[d] /\ stack'[d] = stack[d] /\ space'[d] = space[d]
      BY <1>2, ZenonT(60)
    <3>3. /\ Offline(d)  => Offline(d)'
          /\ Leaving(d)  => Leaving(d)'
          /\ Arriving(d) => Arriving(d)'
          /\ Settled(d)  => Settled(d)'
      BY <3>1, <3>2, ZenonT(60) DEF Offline, Settled, Leaving, Arriving
    <3>4. pc'[stack'[d]] = pc[stack[d]]
      BY <3>1, <3>2, Zenon
    <3> QED
      BY <3>3, <3>4, <1>1, Zenon DEF CpuInv
  <2> QED BY <2>1, <2>2, Zenon
<1>8. TaskInv'
  <2>1. ASSUME NEW u \in Task, \A d \in Cpu : stack'[d] # u
        PROVE  pc'[u] \in {"finish", "boot"}
    <3>1. stack' = stack
      BY <1>2, ZenonT(60)
    <3>2. \A d \in Cpu : stack[d] # u
      BY <2>1, <3>1, ZenonT(60)
    <3>3. pc[u] \in {"finish", "boot"}
      BY <3>2, <1>1, ZenonT(60) DEF TaskInv
    <3>4. u # c
      BY <3>2, <1>3, ZenonT(60) DEF Offline
    <3> QED BY <3>3, <3>4, <1>4, ZenonT(60)
  <2>2. \A u \in Thread : pc'[u] # "off"
    <3>1. \A u \in Thread : pc[u] # "off"
      BY <1>1, ZenonT(60) DEF TaskInv
    <3>2. \A u \in Thread : u # c => pc'[u] = pc[u]
      BY <1>4, ZenonT(60)
    <3> QED BY <3>1, <3>2, <1>4, ZenonT(60)
  <2>3. ASSUME NEW u \in Cpu
        PROVE  /\ state'[u] = "RUNNING" /\ act'[u] = "TO_READY" /\ ret'[u] = "run"
               /\ pc'[u] \notin {"sleep", "wait_if", "boot"}
               /\ \A d \in Cpu : u \in {stack'[d], current'[d], prev'[d]} => d = u
    <3>1. \A d \in Cpu : u \in {stack[d], current[d], prev[d]} => d = u
      BY <1>1, Zenon DEF TaskInv
    <3>2. \A d \in Cpu : u \in {stack'[d], current'[d], prev'[d]} => d = u
      BY <3>1, <1>2, <1>4, ZenonT(60)
    <3>3. /\ state'[u] = "RUNNING" /\ act'[u] = "TO_READY" /\ ret'[u] = "run"
          /\ pc'[u] \notin {"sleep", "wait_if", "boot"}
      <4>1. /\ state[u] = "RUNNING" /\ act[u] = "TO_READY" /\ ret[u] = "run"
            /\ pc[u] \notin {"sleep", "wait_if", "boot"}
        BY <1>1, Zenon DEF TaskInv
      <4>2. state'[u] = "RUNNING" /\ act'[u] = "TO_READY" /\ ret'[u] = "run"
        BY <4>1, <1>2, Zenon
      <4>3. pc'[u] \notin {"sleep", "wait_if", "boot"}
        BY <4>1, <1>4, Zenon
      <4> QED BY <4>2, <4>3, Zenon
    <3> QED BY <3>2, <3>3, Zenon
  <2>4. ASSUME NEW u \in Task PROVE hand'[u] # <<>> <=> pc'[u] = "wake"
    <3>1. \A v \in Task : hand[v] # <<>> <=> pc[v] = "wake"
      BY <1>1, Zenon DEF TaskInv
    <3>2. hand' = hand /\ pc[c] # "wake"
      BY <1>2, Zenon
    <3> QED BY <3>1, <3>2, <1>4, Zenon
  <2> QED BY <2>1, <2>2, <2>3, <2>4, Zenon DEF TaskInv
<1>9. LockInv'
  <2>1. LockCrossesSwitchOnly'
    <3> SUFFICES ASSUME NEW q \in Queue, lock[q] # None
                 PROVE  \E d \in Cpu : Blocking(d, lock[q], q)'
      BY <1>2, Zenon DEF LockCrossesSwitchOnly
    <3>1. PICK d \in Cpu : Blocking(d, lock[q], q)
      BY Zenon DEF IInv, LockInv, LockCrossesSwitchOnly
    <3>2. lock[q] \in Task /\ lock[q] # c
      BY <1>1, <1>2, <3>1, ZenonT(60) DEF TypeOK, Blocking
    <3>3. Blocking(d, lock[q], q)'
      <4>1. pc'[lock[q]] = pc[lock[q]] /\ stack' = stack /\ prev' = prev /\ act' = act
            /\ wq' = wq /\ lock' = lock
        BY <3>2, <1>2, <1>4, Zenon
      <4> QED BY <3>1, <4>1, Zenon DEF Blocking
    <3> QED BY <3>3, Zenon
  <2>2. \A u \in Task : pc'[u] \in Calls => wq'[u] \in Queue
    BY <1>2, <1>4, Zenon DEF IInv, LockInv, Calls
  <2>3. ASSUME NEW d \in Cpu, NEW u \in Task, act'[u] = "TO_WAIT",
               \/ stack'[d] = u /\ pc'[u] \in {"pick", "switch"}
               \/ prev'[d] = u
        PROVE  wq'[u] \in Queue /\ lock'[wq'[u]] = u
    <3>1. stack' = stack /\ prev' = prev /\ act' = act /\ wq' = wq /\ lock' = lock
      BY <1>2, Zenon
    <3>2. pc'[u] \in {"pick", "switch"} => pc[u] \in {"pick", "switch"}
      BY <1>4, Zenon
    <3>3. act[u] = "TO_WAIT" /\ ((stack[d] = u /\ pc[u] \in {"pick", "switch"}) \/ prev[d] = u)
      BY <2>3, <3>1, <3>2, Zenon
    <3>4. wq[u] \in Queue /\ lock[wq[u]] = u
      BY <3>3, Zenon DEF IInv, LockInv
    <3> QED BY <3>1, <3>4, Zenon
  <2> QED BY <2>1, <2>2, <2>3, ZenonT(60) DEF LockInv
<1> QED
  BY <1>5, <1>6, <1>7, <1>8, <1>9, Zenon DEF IInv

LEMMA ContextSwitchInv ==
  ASSUME IInv, NEW c \in Cpu, ContextSwitch(c)
  PROVE  IInv'
<1> DEFINE t == stack[c]
           n == current[c]
<1>1. TypeOK /\ TaskInv /\ CpuInv /\ LockInv
  BY Zenon DEF IInv
<1>2. /\ pc[t] = "switch" /\ stack' = [stack EXCEPT ![c] = n]
      /\ pc' = [pc EXCEPT ![t] = "finish"]
      /\ UNCHANGED <<current, prev, slice, space, ready, sleepers, zombies, lock, list,
                     state, due, ret, act, wq, hand>>
  BY Zenon DEF ContextSwitch, Goto, waitVars
<1>3. /\ t \in Task /\ n \in Task /\ n # t /\ prev[c] = t
      /\ pc[n] \in {"finish", "boot"} /\ space[c] = Root[n]
  BY <1>1, <1>2, Zenon DEF TypeOK, CpuInv, Leaving
<1>4. /\ \A d \in Cpu : d # c => t \notin {stack[d], current[d], prev[d]}
      /\ \A d \in Cpu : d # c => stack[d] # n
  BY Owner, Zenon
<1>5. /\ pc'[t] = "finish" /\ \A u \in Task : u # t => pc'[u] = pc[u]
      /\ stack'[c] = n /\ \A d \in Cpu : d # c => stack'[d] = stack[d]
  BY <1>1, <1>2, <1>3, Zenon DEF TypeOK
<1>6. TypeOK'
  BY <1>1, <1>2, <1>3, ZenonT(60) DEF TypeOK, Points
<1>7. StateIsPlace'
  BY <1>2, SamePlaces, Zenon DEF IInv
<1>8. CpuInv'
  <2> SUFFICES ASSUME NEW d \in Cpu
               PROVE  /\ pc'[stack'[d]] = "off" => Offline(d)'
                      /\ pc'[stack'[d]] = "switch" => Leaving(d)'
                      /\ pc'[stack'[d]] \in {"finish", "boot"} => Arriving(d)'
                      /\ pc'[stack'[d]] \in IrqOn \cup Calls \cup {"pick", "wake"} => Settled(d)'
    BY Zenon DEF CpuInv
  <2>1. CASE d = c
    BY <2>1, <1>2, <1>3, <1>5, Zenon DEF Arriving, IrqOn, Calls
  <2>2. CASE d # c
    <3>1. /\ pc'[stack[d]] = pc[stack[d]]
          /\ current[d] \in Task => pc'[current[d]] = pc[current[d]]
          /\ prev[d] \in Task => pc'[prev[d]] = pc[prev[d]]
      BY <2>2, <1>1, <1>4, <1>5, Zenon DEF TypeOK
    <3>2. /\ stack'[d] = stack[d] /\ current'[d] = current[d]
          /\ prev'[d] = prev[d] /\ space'[d] = space[d]
      BY <2>2, <1>2, <1>5, Zenon
    <3> QED
      BY <3>1, <3>2, <1>1, KeptCpu, Zenon DEF CpuOk
  <2> QED BY <2>1, <2>2, Zenon
<1>9. TaskInv'
  <2>1. ASSUME NEW u \in Task, \A d \in Cpu : stack'[d] # u
        PROVE  pc'[u] \in {"finish", "boot"}
    <3>1. u # t => \A d \in Cpu : stack[d] # u
      BY <2>1, <1>5, Zenon
    <3>2. u # t => pc[u] \in {"finish", "boot"}
      BY <3>1, <1>1, Zenon DEF TaskInv
    <3> QED BY <3>2, <1>5, Zenon
  <2>2. \A u \in Thread : pc'[u] # "off"
    <3>1. \A u \in Thread : pc[u] # "off"
      BY <1>1, Zenon DEF TaskInv
    <3> QED BY <3>1, <1>5, Zenon
  <2>3. ASSUME NEW u \in Cpu
        PROVE  /\ state'[u] = "RUNNING" /\ act'[u] = "TO_READY" /\ ret'[u] = "run"
               /\ pc'[u] \notin {"sleep", "wait_if", "boot"}
               /\ \A d \in Cpu : u \in {stack'[d], current'[d], prev'[d]} => d = u
    <3>1. \A d \in Cpu : u \in {stack[d], current[d], prev[d]} => d = u
      BY <1>1, Zenon DEF TaskInv
    <3>2. \A d \in Cpu : u \in {stack'[d], current'[d], prev'[d]} => d = u
      <4>1. current' = current /\ prev' = prev /\ n = current[c]
        BY <1>2, Zenon
      <4> QED BY <3>1, <4>1, <1>5, Zenon
    <3>3. /\ state[u] = "RUNNING" /\ act[u] = "TO_READY" /\ ret[u] = "run"
          /\ pc[u] \notin {"sleep", "wait_if", "boot"}
      BY <1>1, Zenon DEF TaskInv
    <3>4. state'[u] = "RUNNING" /\ act'[u] = "TO_READY" /\ ret'[u] = "run"
      BY <3>3, <1>2, Zenon
    <3>5. pc'[u] \notin {"sleep", "wait_if", "boot"}
      BY <3>3, <1>5, Zenon
    <3> QED BY <3>2, <3>4, <3>5, Zenon
  <2>4. ASSUME NEW u \in Task PROVE hand'[u] # <<>> <=> pc'[u] = "wake"
    <3>1. \A v \in Task : hand[v] # <<>> <=> pc[v] = "wake"
      BY <1>1, Zenon DEF TaskInv
    <3>2. hand' = hand /\ pc[t] # "wake"
      BY <1>2, Zenon
    <3> QED BY <3>1, <3>2, <1>5, Zenon
  <2> QED BY <2>1, <2>2, <2>3, <2>4, Zenon DEF TaskInv
<1>10. LockInv'
  <2>1. LockCrossesSwitchOnly'
    <3> SUFFICES ASSUME NEW q \in Queue, lock[q] # None
                 PROVE  \E d \in Cpu : Blocking(d, lock[q], q)'
      BY <1>2, Zenon DEF LockCrossesSwitchOnly
    <3>1. PICK d \in Cpu : Blocking(d, lock[q], q)
      BY <1>1, Zenon DEF LockInv, LockCrossesSwitchOnly
    <3>2. lock[q] \in Task
      BY <1>1, Zenon DEF TypeOK
    <3>3. CASE lock[q] = t
      <4>1. Blocking(c, lock[q], q)'
        BY <3>1, <3>3, <1>2, <1>3, <1>5, Zenon DEF Blocking
      <4> QED BY <4>1, Zenon
    <3>4. CASE lock[q] # t
      <4>1. Blocking(d, lock[q], q)'
        <5>1. pc'[lock[q]] = pc[lock[q]] /\ prev' = prev /\ act' = act /\ wq' = wq /\ lock' = lock
          BY <3>2, <3>4, <1>2, <1>5, Zenon
        <5>2. stack[d] = lock[q] => stack'[d] = stack[d]
          BY <3>4, <1>5, Zenon
        <5> QED BY <3>1, <5>1, <5>2, Zenon DEF Blocking
      <4> QED BY <4>1, Zenon
    <3> QED BY <3>3, <3>4, Zenon
  <2>2. \A u \in Task : pc'[u] \in Calls => wq'[u] \in Queue
    BY <1>1, <1>2, <1>5, Zenon DEF LockInv, Calls
  <2>3. ASSUME NEW d \in Cpu, NEW u \in Task, act'[u] = "TO_WAIT",
               \/ stack'[d] = u /\ pc'[u] \in {"pick", "switch"}
               \/ prev'[d] = u
        PROVE  wq'[u] \in Queue /\ lock'[wq'[u]] = u
    <3>1. CASE prev'[d] = u
      BY <2>3, <3>1, <1>1, <1>2, Zenon DEF LockInv
    <3>2. CASE stack'[d] = u /\ pc'[u] \in {"pick", "switch"}
      <4>1. d # c
        BY <3>2, <1>3, <1>5, Zenon
      <4>2. stack[d] = u /\ pc[u] \in {"pick", "switch"}
        BY <4>1, <3>2, <1>4, <1>5, Zenon
      <4> QED BY <2>3, <4>2, <1>1, <1>2, Zenon DEF LockInv
    <3> QED BY <2>3, <3>1, <3>2, Zenon
  <2> QED BY <2>1, <2>2, <2>3, Zenon DEF LockInv
<1> QED
  BY <1>6, <1>7, <1>8, <1>9, <1>10, Zenon DEF IInv

LEMMA ScheduleInv ==
  ASSUME IInv, NEW c \in Cpu, Schedule(c)
  PROVE  IInv'
<1> DEFINE t == stack[c]
           n == PickNext(c)
<1>1. TypeOK /\ TaskInv /\ CpuInv /\ LockInv /\ StateIsPlace
  BY Zenon DEF IInv
<1>2. /\ t \in Task /\ \A d \in Cpu : d # c => t \notin {stack[d], current[d], prev[d]}
      /\ t \in Thread => state[t] = "RUNNING"
  BY Owner, Zenon
<1>3. /\ pc[t] = "pick" /\ ready' = IF ready = <<>> THEN ready ELSE Tail(ready)
      /\ UNCHANGED <<stack, sleepers, zombies, lock, list, due, ret, act, wq, hand>>
  BY Zenon DEF Schedule, cpuVars, waitVars
<1>4. current[c] = t /\ prev[c] = None /\ space[c] = Root[t]
  BY <1>1, <1>3, Zenon DEF CpuInv, Settled
<1>5. /\ ready # <<>> => /\ n \in Thread /\ n \in Range(ready) /\ Tail(ready) \in Seq(Thread)
                         /\ Once(Tail(ready)) /\ n \notin Range(Tail(ready))
                         /\ Range(ready) = Range(Tail(ready)) \cup {n}
      /\ ready = <<>> => n = c
  <2>1. ready \in Seq(Thread) /\ Once(ready)
    BY <1>1, Zenon DEF TypeOK, StateIsPlace, ReadyPlace
  <2> QED BY <2>1, RangeTail DEF PickNext
<1>6. n \in Thread => state[n] = "READY" /\ ready # <<>>
  BY <1>1, <1>5, Zenon DEF StateIsPlace, ReadyPlace
<1>7. CASE n = t /\ act[t] = "TO_READY"
  <2>1. t = c /\ ready = <<>>
    BY <1>2, <1>5, <1>6, <1>7, Zenon
  <2>2. pc' = [pc EXCEPT ![t] = ret[t]] /\ UNCHANGED <<current, prev, slice, stack, space, state>>
    BY <1>7, Zenon DEF Schedule, Goto, cpuVars
  <2>3. ret[t] = "run" /\ hand[t] = <<>>
    <3>1. ret[c] = "run" /\ (hand[t] # <<>> <=> pc[t] = "wake")
      BY <1>1, <1>2, Zenon DEF TaskInv
    <3> QED BY <3>1, <2>1, <1>3, Zenon
  <2>4. TypeOK'
    BY <1>1, <1>2, <1>3, <2>1, <2>2, <2>3, Zenon DEF TypeOK, Points, IrqOn
  <2>5. StateIsPlace'
    BY <1>1, <1>3, <2>1, <2>2, SamePlaces, Zenon
  <2>6. "run" \in Inside \ Calls /\ pc[t] \in Inside
    BY <1>3, Zenon DEF Inside, IrqOn, Calls
  <2>7. CpuInv' /\ TaskInv' /\ LockInv'
    <3>1. t \in Cpu => act'[t] = "TO_READY" /\ ret'[t] = "run"
      BY <1>3, <1>7, <2>3, Zenon
    <3> QED BY <1>3, <1>7, <2>2, <2>3, <2>6, <3>1, LocalStep, ZenonT(60)
  <2> QED BY <2>4, <2>5, <2>7, Zenon DEF IInv
<1>8. CASE ~(n = t /\ act[t] = "TO_READY")
  <2>1. /\ prev' = [prev EXCEPT ![c] = t] /\ state' = [state EXCEPT ![n] = "RUNNING"]
        /\ slice' = [slice EXCEPT ![c] = TimeSlice] /\ current' = [current EXCEPT ![c] = n]
        /\ space' = [space EXCEPT ![c] = Root[n]] /\ pc' = [pc EXCEPT ![t] = "switch"]
    BY <1>8, Zenon DEF Schedule, Goto, Activate
  <2>2. /\ n \in Task /\ n # t
        /\ n \in Cpu => n = c
        /\ \A d \in Cpu : n \notin {stack[d], current[d], prev[d]}
    <3>1. CASE ready = <<>>
      <4>1. n = c /\ act[c] = "TO_READY"
        BY <3>1, <1>1, <1>5, Zenon DEF TaskInv
      <4>2. t # c
        BY <4>1, <1>8, Zenon
      <4>3. \A d \in Cpu : c \in {stack[d], current[d], prev[d]} => d = c
        BY <1>1, Zenon DEF TaskInv
      <4> QED BY <4>1, <4>2, <4>3, <1>4, Zenon
    <3>2. CASE ready # <<>>
      <4>1. n \in Thread /\ state[n] = "READY"
        BY <3>2, <1>5, <1>6, Zenon
      <4>2. \A d \in Cpu : n \notin {current[d], prev[d]}
        BY <4>1, <1>1, Zenon DEF StateIsPlace, CpuPlace
      <4>3. \A d \in Cpu : n # stack[d]
        BY <4>1, Owner, Zenon
      <4> QED BY <4>1, <4>2, <4>3, Zenon
    <3> QED BY <3>1, <3>2, Zenon
  <2>3. pc[n] \in {"finish", "boot"}
    BY <2>2, <1>1, Zenon DEF TaskInv
  <2>4. /\ pc'[t] = "switch" /\ \A u \in Task : u # t => pc'[u] = pc[u]
        /\ current'[c] = n /\ \A d \in Cpu : d # c => current'[d] = current[d]
        /\ prev'[c] = t /\ \A d \in Cpu : d # c => prev'[d] = prev[d]
        /\ space'[c] = Root[n] /\ \A d \in Cpu : d # c => space'[d] = space[d]
        /\ state'[n] = "RUNNING" /\ \A u \in Task : u # n => state'[u] = state[u]
    <3>1. /\ pc \in [Task -> Points] /\ state \in [Task -> States]
          /\ current \in [Cpu -> Task \cup {None}] /\ prev \in [Cpu -> Task \cup {None}]
          /\ space \in [Cpu -> Range(Root)]
      BY <1>1, Zenon DEF TypeOK
    <3> QED BY <3>1, <1>2, <2>1, <2>2, Zenon
  <2>5. TypeOK'
    <3>1. ready' \in Seq(Thread)
      BY <1>1, <1>3, <1>5, Zenon DEF TypeOK
    <3>2. slice' \in [Cpu -> 0..TimeSlice]
      BY <1>1, <2>1, SMTT(60) DEF TypeOK
    <3>3. space' \in [Cpu -> Range(Root)]
      BY <1>1, <2>1, <2>2, Zenon DEF TypeOK, Range
    <3> QED BY <3>1, <3>2, <3>3, <1>1, <1>2, <1>3, <2>1, <2>2, ZenonT(60) DEF TypeOK, Points, States
  <2>6. StateIsPlace'
    <3> HIDE DEF n
    <3>1. ReadyPlace'
      <4>1. Once(ready) /\ \A u \in Thread : state[u] = "READY" <=> u \in Range(ready)
        BY <1>1, Zenon DEF StateIsPlace, ReadyPlace
      <4>2. CASE ready = <<>>
        <5>1. ready' = ready /\ n = c
          BY <4>2, <1>3, <1>5, Zenon
        <5>2. \A u \in Thread : state'[u] = state[u]
          BY <5>1, <2>4, Zenon
        <5> QED BY <5>1, <5>2, <4>1, Zenon DEF ReadyPlace
      <4>3. CASE ready # <<>>
        <5>1. ready' = Tail(ready)
          BY <4>3, <1>3, Zenon
        <5>2. ASSUME NEW u \in Thread PROVE state'[u] = "READY" <=> u \in Range(Tail(ready))
          <6>1. u = n => state'[u] # "READY" /\ u \notin Range(Tail(ready))
            BY <4>3, <1>5, <2>4, Zenon
          <6>2. u # n => /\ state'[u] = state[u]
                         /\ u \in Range(ready) <=> u \in Range(Tail(ready))
            BY <4>3, <1>5, <2>4, Zenon
          <6> QED BY <6>1, <6>2, <4>1, Zenon
        <5> QED BY <5>1, <5>2, <4>3, <1>5, Zenon DEF ReadyPlace
      <4> QED BY <4>2, <4>3, Zenon
    <3>2. \A u \in Thread : \A x \in States \ {"READY", "RUNNING"} :
            state'[u] = x <=> state[u] = x
      BY <1>6, <2>4, Zenon
    <3>3. SleepPlace'
      BY <1>1, <1>3, <3>2, Zenon DEF StateIsPlace, SleepPlace, States
    <3>4. WaitPlace'
      BY <1>1, <1>3, <3>2, WaitSame, Zenon DEF StateIsPlace, States
    <3>5. ASSUME NEW u \in Thread
          PROVE  state'[u] = "RUNNING" <=> \E d \in Cpu : u \in {current'[d], prev'[d]}
      <4>1. CASE u = n
        BY <4>1, <2>4, Zenon
      <4>2. CASE u # n
        <5>1. \A d \in Cpu : u \in {current'[d], prev'[d]} <=> u \in {current[d], prev[d]}
          <6>1. u # None
            BY Zenon
          <6> QED BY <4>2, <6>1, <1>4, <2>4, Zenon
        <5>2. state[u] = "RUNNING" <=> \E d \in Cpu : u \in {current[d], prev[d]}
          BY <1>1, Zenon DEF StateIsPlace, CpuPlace
        <5>3. state'[u] = state[u]
          BY <4>2, <2>4, Zenon
        <5> QED BY <5>1, <5>2, <5>3, Zenon
      <4> QED BY <4>1, <4>2, Zenon
    <3>6. \A d \in Cpu : d # c =>
            ({current'[c], prev'[c]} \ {None}) \cap ({current'[d], prev'[d]} \ {None}) = {}
      <4> SUFFICES ASSUME NEW d \in Cpu, d # c
                   PROVE  ({current'[c], prev'[c]} \ {None}) \cap ({current'[d], prev'[d]} \ {None}) = {}
        BY Zenon
      <4>1. current'[d] = current[d] /\ prev'[d] = prev[d] /\ current'[c] = n /\ prev'[c] = t
        BY <2>4, Zenon
      <4>2. n \notin {current[d], prev[d]} /\ t \notin {current[d], prev[d]}
        BY <1>2, <2>2, Zenon
      <4> QED BY <4>1, <4>2, Zenon
    <3>7. \A d, e \in Cpu : d # c /\ e # c /\ d # e =>
            ({current'[d], prev'[d]} \ {None}) \cap ({current'[e], prev'[e]} \ {None}) = {}
      <4>1. \A d, e \in Cpu : d # e =>
              ({current[d], prev[d]} \ {None}) \cap ({current[e], prev[e]} \ {None}) = {}
        BY <1>1, Zenon DEF StateIsPlace, CpuPlace
      <4> QED BY <4>1, <2>4, Zenon
    <3>8. \A d, e \in Cpu : d # e =>
            ({current'[d], prev'[d]} \ {None}) \cap ({current'[e], prev'[e]} \ {None}) = {}
      <4> SUFFICES ASSUME NEW d \in Cpu, NEW e \in Cpu, d # e
                   PROVE  ({current'[d], prev'[d]} \ {None}) \cap ({current'[e], prev'[e]} \ {None}) = {}
        BY Zenon
      <4>1. CASE d = c
        BY <4>1, <3>6, Zenon
      <4>2. CASE e = c
        BY <4>2, <3>6, Zenon
      <4> QED BY <4>1, <4>2, <3>7, Zenon
    <3>9. CpuPlace'
      BY <3>5, <3>8, Zenon DEF CpuPlace
    <3> QED BY <3>1, <3>3, <3>4, <3>9, Zenon DEF StateIsPlace
  <2> HIDE DEF n
  <2>7. CpuInv'
    <3> SUFFICES ASSUME NEW d \in Cpu
                 PROVE  /\ pc'[stack'[d]] = "off" => Offline(d)'
                        /\ pc'[stack'[d]] = "switch" => Leaving(d)'
                        /\ pc'[stack'[d]] \in {"finish", "boot"} => Arriving(d)'
                        /\ pc'[stack'[d]] \in IrqOn \cup Calls \cup {"pick", "wake"} => Settled(d)'
      BY Zenon DEF CpuInv
    <3>1. CASE d = c
      BY <3>1, <1>3, <2>2, <2>3, <2>4, Zenon DEF Leaving, IrqOn, Calls
    <3>2. CASE d # c
      <4>1. /\ pc'[stack[d]] = pc[stack[d]]
            /\ current[d] \in Task => pc'[current[d]] = pc[current[d]]
            /\ prev[d] \in Task => pc'[prev[d]] = pc[prev[d]]
        BY <3>2, <1>1, <1>2, <2>4, ZenonT(60) DEF TypeOK
      <4>2. /\ stack'[d] = stack[d] /\ current'[d] = current[d]
            /\ prev'[d] = prev[d] /\ space'[d] = space[d]
        BY <3>2, <1>3, <2>4, Zenon
      <4> QED
        BY <4>1, <4>2, <1>1, KeptCpu, Zenon DEF CpuOk
    <3> QED BY <3>1, <3>2, Zenon
  <2>8. TaskInv'
    <3>1. ASSUME NEW u \in Task, \A d \in Cpu : stack'[d] # u
          PROVE  pc'[u] \in {"finish", "boot"}
      <4>1. \A d \in Cpu : stack[d] # u
        BY <3>1, <1>3, Zenon
      <4>2. u # t /\ pc[u] \in {"finish", "boot"}
        BY <4>1, <1>1, Zenon DEF TaskInv
      <4> QED BY <4>2, <2>4, Zenon
    <3>2. \A u \in Thread : pc'[u] # "off"
      <4>1. \A u \in Thread : pc[u] # "off"
        BY <1>1, Zenon DEF TaskInv
      <4> QED BY <4>1, <2>4, Zenon
    <3>3. ASSUME NEW u \in Cpu
          PROVE  /\ state'[u] = "RUNNING" /\ act'[u] = "TO_READY" /\ ret'[u] = "run"
                 /\ pc'[u] \notin {"sleep", "wait_if", "boot"}
                 /\ \A d \in Cpu : u \in {stack'[d], current'[d], prev'[d]} => d = u
      <4>1. \A d \in Cpu : u \in {stack[d], current[d], prev[d]} => d = u
        BY <1>1, Zenon DEF TaskInv
      <4>2. \A d \in Cpu : u \in {stack'[d], current'[d], prev'[d]} => d = u
        <5>1. stack' = stack /\ (u = n => n = c)
          BY <1>3, <2>2, Zenon
        <5>2. u = t \/ u = n => c = u
          BY <4>1, <5>1, Zenon
        <5>3. u \in {stack'[c], current'[c], prev'[c]} => c = u
          <6>1. stack'[c] = t /\ current'[c] = n /\ prev'[c] = t
            BY <5>1, <2>4, Zenon
          <6>2. u \in {stack'[c], current'[c], prev'[c]} => u = t \/ u = n
            BY <6>1, Zenon
          <6> QED BY <6>2, <5>2, Zenon
        <5>4. ASSUME NEW d \in Cpu, d # c, u \in {stack'[d], current'[d], prev'[d]} PROVE d = u
          <6>1. stack'[d] = stack[d] /\ current'[d] = current[d] /\ prev'[d] = prev[d]
            BY <5>4, <5>1, <2>4, Zenon
          <6>2. u \in {stack[d], current[d], prev[d]}
            BY <5>4, <6>1, Zenon
          <6> QED BY <6>2, <4>1, Zenon
        <5> QED BY <5>3, <5>4, Zenon
      <4>3. /\ state[u] = "RUNNING" /\ act[u] = "TO_READY" /\ ret[u] = "run"
            /\ pc[u] \notin {"sleep", "wait_if", "boot"}
        BY <1>1, Zenon DEF TaskInv
      <4>4. act'[u] = "TO_READY" /\ ret'[u] = "run"
        BY <4>3, <1>3, Zenon
      <4>5. state'[u] = "RUNNING" /\ pc'[u] \notin {"sleep", "wait_if", "boot"}
        BY <4>3, <2>4, Zenon
      <4> QED BY <4>2, <4>4, <4>5, Zenon
    <3>4. ASSUME NEW u \in Task PROVE hand'[u] # <<>> <=> pc'[u] = "wake"
      <4>1. \A v \in Task : hand[v] # <<>> <=> pc[v] = "wake"
        BY <1>1, Zenon DEF TaskInv
      <4>2. hand' = hand /\ pc[t] # "wake"
        BY <1>3, Zenon
      <4> QED BY <4>1, <4>2, <2>4, Zenon
    <3> QED BY <3>1, <3>2, <3>3, <3>4, Zenon DEF TaskInv
  <2>9. LockInv'
    <3>1. LockCrossesSwitchOnly'
      <4> SUFFICES ASSUME NEW q \in Queue, lock[q] # None
                   PROVE  \E d \in Cpu : Blocking(d, lock[q], q)'
        BY <1>3, Zenon DEF LockCrossesSwitchOnly
      <4>1. PICK d \in Cpu : Blocking(d, lock[q], q)
        BY <1>1, Zenon DEF LockInv, LockCrossesSwitchOnly
      <4>2. lock[q] \in Task
        BY <1>1, Zenon DEF TypeOK
      <4>3. Blocking(d, lock[q], q)'
        BY <4>1, <4>2, <1>3, <1>4, <2>4, Zenon DEF Blocking
      <4> QED BY <4>3, Zenon
    <3>2. \A u \in Task : pc'[u] \in Calls => wq'[u] \in Queue
      BY <1>1, <1>3, <2>4, Zenon DEF LockInv, Calls
    <3>3. ASSUME NEW d \in Cpu, NEW u \in Task, act'[u] = "TO_WAIT",
                 \/ stack'[d] = u /\ pc'[u] \in {"pick", "switch"}
                 \/ prev'[d] = u
          PROVE  wq'[u] \in Queue /\ lock'[wq'[u]] = u
      <4>1. CASE u = t
        BY <4>1, <3>3, <1>1, <1>2, <1>3, Zenon DEF LockInv
      <4>2. CASE u # t
        <5>1. /\ stack' = stack /\ act' = act /\ wq' = wq /\ lock' = lock
              /\ pc'[u] = pc[u] /\ (prev'[d] = u => prev[d] = u)
          BY <4>2, <1>3, <2>4, Zenon
        <5>2. act[u] = "TO_WAIT" /\ ((stack[d] = u /\ pc[u] \in {"pick", "switch"}) \/ prev[d] = u)
          BY <3>3, <5>1, Zenon
        <5>3. wq[u] \in Queue /\ lock[wq[u]] = u
          BY <5>2, <1>1, Zenon DEF LockInv
        <5> QED BY <5>1, <5>3, Zenon
      <4> QED BY <4>1, <4>2, Zenon
    <3> QED BY <3>1, <3>2, <3>3, Zenon DEF LockInv
  <2> QED BY <2>5, <2>6, <2>7, <2>8, <2>9, Zenon DEF IInv
<1> QED
  BY <1>7, <1>8, Zenon

(***************************************************************************)
(* finish_switch.  What it knows of the outgoing task p, and what all of   *)
(* its cases do: p leaves its CPU, which settles on the incoming task.     *)
(***************************************************************************)
LEMMA Outgoing ==
  ASSUME IInv, NEW c \in Cpu, FinishSwitch(c)
  PROVE  /\ prev[c] \in Task /\ prev[c] # stack[c] /\ current[c] = stack[c]
         /\ space[c] = Root[stack[c]] /\ pc[prev[c]] = "finish"
         /\ \A d \in Cpu : prev[c] # stack[d]
         /\ \A d \in Cpu : d # c => prev[c] \notin {current[d], prev[d]}
         /\ prev[c] \in Thread => state[prev[c]] = "RUNNING"
         /\ prev[c] \in Cpu => act[prev[c]] = "TO_READY"
<1>1. pc[stack[c]] \in {"finish", "boot"} /\ TypeOK /\ TaskInv /\ CpuInv /\ StateIsPlace
  BY Zenon DEF FinishSwitch, IInv
<1>2. Arriving(c)
  BY <1>1, Zenon DEF CpuInv
<1>3. \A d \in Cpu : d # c => stack[d] \notin {stack[c], current[c], prev[c]}
  BY Owner, Zenon
<1>4. \A d \in Cpu : prev[c] # stack[d]
  BY <1>2, <1>3, Zenon DEF Arriving
<1>5. prev[c] \in Task /\ prev[c] # None
  BY <1>2, Zenon DEF Arriving
<1>6. \A d \in Cpu : d # c => prev[c] \notin {current[d], prev[d]}
  <2>1. \A d \in Cpu : d # c =>
          ({current[c], prev[c]} \ {None}) \cap ({current[d], prev[d]} \ {None}) = {}
    BY <1>1, Zenon DEF StateIsPlace, CpuPlace
  <2> QED
    <3> SUFFICES ASSUME NEW d \in Cpu, d # c PROVE prev[c] # current[d] /\ prev[c] # prev[d]
      BY Zenon
    <3>1. prev[c] \in {current[c], prev[c]} \ {None}
      BY <1>5, Zenon
    <3>2. prev[c] \notin {current[d], prev[d]} \ {None}
      BY <2>1, <3>1, Zenon
    <3> QED BY <3>2, <1>5, Zenon
<1>7. prev[c] \in Thread => state[prev[c]] = "RUNNING"
  BY <1>1, Zenon DEF StateIsPlace, CpuPlace
<1>8. prev[c] \in Cpu => act[prev[c]] = "TO_READY"
  BY <1>1, Zenon DEF TaskInv
<1> QED
  BY <1>2, <1>4, <1>5, <1>6, <1>7, <1>8, Zenon DEF Arriving

LEMMA FinishCpu ==
  ASSUME IInv, NEW c \in Cpu, FinishSwitch(c),
         \A u \in Task : u # prev[c] => state'[u] = state[u],
         prev[c] \in Thread => state'[prev[c]] # "RUNNING",
         prev[c] \in Cpu => state'[prev[c]] = state[prev[c]]
  PROVE  CpuInv' /\ TaskInv' /\ CpuPlace'
<1> DEFINE t == stack[c]
           p == prev[c]
           x == IF pc[t] = "boot" THEN "run" ELSE ret[t]
<1>1. TypeOK /\ TaskInv /\ CpuInv /\ StateIsPlace
  BY Zenon DEF IInv
<1>2. /\ pc[t] \in {"finish", "boot"} /\ prev' = [prev EXCEPT ![c] = None]
      /\ pc' = [pc EXCEPT ![t] = x]
      /\ UNCHANGED <<current, slice, stack, space, due, ret, act, hand>>
  BY Zenon DEF FinishSwitch, Goto
<1>3. /\ t \in Task /\ \A d \in Cpu : d # c => t \notin {stack[d], current[d], prev[d]}
  BY Owner, Zenon
<1>4. x \in IrqOn /\ (t \in Cpu => x = "run")
  BY <1>1, <1>3, SMTT(60) DEF TypeOK, TaskInv, IrqOn
<1>5. /\ pc'[t] = x /\ \A u \in Task : u # t => pc'[u] = pc[u]
      /\ prev'[c] = None /\ \A d \in Cpu : d # c => prev'[d] = prev[d]
  BY <1>1, <1>2, <1>3, Zenon DEF TypeOK
<1> HIDE DEF x
<1>6. CpuInv'
  <2> SUFFICES ASSUME NEW d \in Cpu
               PROVE  /\ pc'[stack'[d]] = "off" => Offline(d)'
                      /\ pc'[stack'[d]] = "switch" => Leaving(d)'
                      /\ pc'[stack'[d]] \in {"finish", "boot"} => Arriving(d)'
                      /\ pc'[stack'[d]] \in IrqOn \cup Calls \cup {"pick", "wake"} => Settled(d)'
    BY Zenon DEF CpuInv
  <2>1. CASE d = c
    <3>1. Settled(c)'
      BY <1>2, <1>5, Outgoing, Zenon DEF Settled
    <3> QED BY <2>1, <3>1, <1>2, <1>4, <1>5, Zenon DEF IrqOn
  <2>2. CASE d # c
    <3>1. /\ pc'[stack[d]] = pc[stack[d]]
          /\ current[d] \in Task => pc'[current[d]] = pc[current[d]]
          /\ prev[d] \in Task => pc'[prev[d]] = pc[prev[d]]
      BY <2>2, <1>1, <1>3, <1>5, ZenonT(60) DEF TypeOK
    <3>2. /\ stack'[d] = stack[d] /\ current'[d] = current[d]
          /\ prev'[d] = prev[d] /\ space'[d] = space[d]
      BY <2>2, <1>2, <1>5, Zenon
    <3> QED
      BY <3>1, <3>2, <1>1, KeptCpu, Zenon DEF CpuOk
  <2> QED BY <2>1, <2>2, Zenon
<1>7. TaskInv'
  <2>1. ASSUME NEW u \in Task, \A d \in Cpu : stack'[d] # u
        PROVE  pc'[u] \in {"finish", "boot"}
    <3>1. \A d \in Cpu : stack[d] # u
      BY <2>1, <1>2, Zenon
    <3>2. u # t /\ pc[u] \in {"finish", "boot"}
      BY <3>1, <1>1, Zenon DEF TaskInv
    <3> QED BY <3>2, <1>5, Zenon
  <2>2. \A u \in Thread : pc'[u] # "off"
    <3>1. \A u \in Thread : u \in Task /\ pc[u] # "off"
      BY <1>1, Zenon DEF TaskInv
    <3>2. x # "off"
      BY <1>4, Zenon DEF IrqOn
    <3> QED BY <3>1, <3>2, <1>5, Zenon
  <2>3. ASSUME NEW u \in Cpu
        PROVE  /\ state'[u] = "RUNNING" /\ act'[u] = "TO_READY" /\ ret'[u] = "run"
               /\ pc'[u] \notin {"sleep", "wait_if", "boot"}
               /\ \A d \in Cpu : u \in {stack'[d], current'[d], prev'[d]} => d = u
    <3>1. \A d \in Cpu : u \in {stack[d], current[d], prev[d]} => d = u
      BY <1>1, Zenon DEF TaskInv
    <3>2. \A d \in Cpu : u \in {stack'[d], current'[d], prev'[d]} => d = u
      <4> SUFFICES ASSUME NEW d \in Cpu, u \in {stack'[d], current'[d], prev'[d]}
                   PROVE  u \in {stack[d], current[d], prev[d]}
        BY <3>1, Zenon
      <4>1. stack'[d] = stack[d] /\ current'[d] = current[d]
        BY <1>2, Zenon
      <4>2. u # None
        BY Zenon
      <4>3. prev'[d] \in {prev[d], None}
        BY <1>5, Zenon
      <4> QED BY <4>1, <4>2, <4>3, Zenon
    <3>3. /\ state[u] = "RUNNING" /\ act[u] = "TO_READY" /\ ret[u] = "run"
          /\ pc[u] \notin {"sleep", "wait_if", "boot"} /\ u \in Task
      BY <1>1, Zenon DEF TaskInv
    <3>4. act'[u] = "TO_READY" /\ ret'[u] = "run"
      BY <3>3, <1>2, Zenon
    <3>5. pc'[u] \notin {"sleep", "wait_if", "boot"}
      BY <3>3, <1>4, <1>5, Zenon
    <3>6. state'[u] = "RUNNING"
      BY <3>3, Zenon
    <3> QED BY <3>2, <3>4, <3>5, <3>6, Zenon
  <2>4. ASSUME NEW u \in Task PROVE hand'[u] # <<>> <=> pc'[u] = "wake"
    <3>1. hand[u] # <<>> <=> pc[u] = "wake"
      BY <1>1, Zenon DEF TaskInv
    <3>2. hand' = hand /\ x # "wake" /\ pc[t] # "wake"
      BY <1>2, <1>4, Zenon DEF IrqOn
    <3>3. u = t \/ pc'[u] = pc[u]
      BY <1>5, Zenon
    <3> QED BY <3>1, <3>2, <3>3, <1>5, Zenon
  <2> QED BY <2>1, <2>2, <2>3, <2>4, Zenon DEF TaskInv
<1>8. CpuPlace'
  <2>1. ASSUME NEW u \in Thread
        PROVE  state'[u] = "RUNNING" <=> \E d \in Cpu : u \in {current'[d], prev'[d]}
    <3>1. CASE u = p
      <4>1. \A d \in Cpu : p \notin {current'[d], prev'[d]}
        <5>1. /\ p \in Task /\ p # t /\ current[c] = t /\ current' = current
              /\ \A d \in Cpu : d # c => p \notin {current[d], prev[d]}
          BY <1>2, Outgoing, Zenon
        <5> QED BY <5>1, <1>5, Zenon
      <4> QED BY <3>1, <4>1, Zenon
    <3>2. CASE u # p
      <4>1. \A d \in Cpu : u \in {current'[d], prev'[d]} <=> u \in {current[d], prev[d]}
        <5>1. u # None /\ current' = current
          BY <1>2, Zenon
        <5> QED BY <3>2, <5>1, <1>5, Zenon
      <4>2. state[u] = "RUNNING" <=> \E d \in Cpu : u \in {current[d], prev[d]}
        BY <1>1, Zenon DEF StateIsPlace, CpuPlace
      <4>3. state'[u] = state[u]
        BY <3>2, Zenon
      <4> QED BY <4>1, <4>2, <4>3, Zenon
    <3> QED BY <3>1, <3>2, Zenon
  <2>2. \A d \in Cpu : {current'[d], prev'[d]} \ {None} \subseteq {current[d], prev[d]} \ {None}
    BY <1>2, <1>5, Zenon
  <2>3. \A d, e \in Cpu : d # e =>
          ({current[d], prev[d]} \ {None}) \cap ({current[e], prev[e]} \ {None}) = {}
    BY <1>1, Zenon DEF StateIsPlace, CpuPlace
  <2>4. \A d, e \in Cpu : d # e =>
          ({current'[d], prev'[d]} \ {None}) \cap ({current'[e], prev'[e]} \ {None}) = {}
    BY <2>2, <2>3, Zenon
  <2> QED BY <2>1, <2>4, ZenonT(60) DEF CpuPlace
<1> QED
  BY <1>6, <1>7, <1>8, Zenon

\* Unless p leaves for a wait queue, no lock is concerned.
LEMMA FinishLock ==
  ASSUME IInv, NEW c \in Cpu, FinishSwitch(c), act[prev[c]] # "TO_WAIT",
         UNCHANGED <<lock, wq>>
  PROVE  LockInv'
<1> DEFINE t == stack[c]
           p == prev[c]
           x == IF pc[t] = "boot" THEN "run" ELSE ret[t]
<1>1. TypeOK /\ LockInv
  BY Zenon DEF IInv
<1>2. /\ pc[t] \in {"finish", "boot"} /\ prev' = [prev EXCEPT ![c] = None]
      /\ pc' = [pc EXCEPT ![t] = x]
      /\ UNCHANGED <<current, slice, stack, space, due, ret, act, hand>>
  BY Zenon DEF FinishSwitch, Goto
<1>3. /\ t \in Task /\ \A d \in Cpu : d # c => t \notin {stack[d], current[d], prev[d]}
  BY Owner, Zenon
<1>4. x \in IrqOn
  BY <1>1, <1>3, Zenon DEF TypeOK, IrqOn
<1>5. /\ pc'[t] = x /\ \A u \in Task : u # t => pc'[u] = pc[u]
      /\ prev'[c] = None /\ \A d \in Cpu : d # c => prev'[d] = prev[d]
  BY <1>1, <1>2, <1>3, Zenon DEF TypeOK
<1> HIDE DEF x
<1>6. LockCrossesSwitchOnly'
  <2> SUFFICES ASSUME NEW q \in Queue, lock[q] # None
               PROVE  \E d \in Cpu : Blocking(d, lock[q], q)'
    BY Zenon DEF LockCrossesSwitchOnly
  <2>1. PICK d \in Cpu : Blocking(d, lock[q], q)
    BY <1>1, Zenon DEF LockInv, LockCrossesSwitchOnly
  <2>2. lock[q] \in Task
    BY <1>1, Zenon DEF TypeOK
  <2>3. lock[q] # p
    BY <2>1, Zenon DEF Blocking
  <2>4. lock[q] # t
    <3>1. \A e \in Cpu : prev[e] # t
      BY <1>3, Outgoing, Zenon
    <3>2. pc[t] \notin {"pick", "switch"}
      BY <1>2, Zenon
    <3> QED BY <2>1, <3>1, <3>2, Zenon DEF Blocking
  <2>5. Blocking(d, lock[q], q)'
    <3>1. pc'[lock[q]] = pc[lock[q]]
      BY <2>2, <2>4, <1>5, Zenon
    <3>2. prev[d] = lock[q] => prev'[d] = prev[d]
      BY <2>3, <1>5, Zenon
    <3>3. stack' = stack /\ act' = act /\ wq' = wq /\ lock' = lock
      BY <1>2, Zenon
    <3> QED BY <2>1, <3>1, <3>2, <3>3, Zenon DEF Blocking
  <2> QED BY <2>5, Zenon
<1>7. \A u \in Task : pc'[u] \in Calls => wq'[u] \in Queue
  BY <1>1, <1>4, <1>5, Zenon DEF LockInv, Calls, IrqOn
<1>8. ASSUME NEW d \in Cpu, NEW u \in Task, act'[u] = "TO_WAIT",
             \/ stack'[d] = u /\ pc'[u] \in {"pick", "switch"}
             \/ prev'[d] = u
      PROVE  wq'[u] \in Queue /\ lock'[wq'[u]] = u
  <2>1. u = t => prev'[d] = t
    BY <1>8, <1>4, <1>5, Zenon DEF IrqOn
  <2>2. u # t
    BY <2>1, <1>3, <1>5, Zenon
  <2>3. stack' = stack /\ act' = act /\ pc'[u] = pc[u] /\ (prev'[d] = u => prev[d] = u)
    BY <2>2, <1>2, <1>5, Zenon
  <2>4. act[u] = "TO_WAIT" /\ ((stack[d] = u /\ pc[u] \in {"pick", "switch"}) \/ prev[d] = u)
    BY <1>8, <2>3, Zenon
  <2>5. wq[u] \in Queue /\ lock[wq[u]] = u
    BY <2>4, <1>1, Zenon DEF LockInv
  <2> QED BY <2>5, Zenon
<1> QED
  BY <1>6, <1>7, <1>8, Zenon DEF LockInv

LEMMA FinishType ==
  ASSUME IInv, NEW c \in Cpu, FinishSwitch(c)
  PROVE  /\ prev' \in [Cpu -> Task \cup {None}] /\ pc' \in [Task -> Points]
         /\ UNCHANGED <<current, slice, stack, space, due, ret, act, hand>>
<1>1. TypeOK /\ stack[c] \in Task
  BY Facts, Zenon
<1>2. /\ prev' = [prev EXCEPT ![c] = None]
      /\ pc' = [pc EXCEPT ![stack[c]] = IF pc[stack[c]] = "boot" THEN "run" ELSE ret[stack[c]]]
      /\ UNCHANGED <<current, slice, stack, space, due, ret, act, hand>>
  BY Zenon DEF FinishSwitch, Goto
<1> QED
  BY <1>1, <1>2, Zenon DEF TypeOK, Points, IrqOn

LEMMA FinishReadyInv ==
  ASSUME IInv, NEW c \in Cpu, FinishSwitch(c), act[prev[c]] = "TO_READY", FinishReady(prev[c])
  PROVE  IInv'
<1> DEFINE p == prev[c]
<1>1. TypeOK /\ StateIsPlace /\ p \in Task
  BY Outgoing, Zenon DEF IInv
<1>2. UNCHANGED <<sleepers, zombies, lock, list, wq>>
  BY Zenon DEF FinishReady, waitVars
<1>3. CASE p \in Thread
  <2>1. state' = [state EXCEPT ![p] = "READY"] /\ ready' = Append(ready, p)
    BY <1>3, Zenon DEF FinishReady
  <2>2. state[p] = "RUNNING"
    BY <1>3, Outgoing, Zenon
  <2>3. /\ state' \in [Task -> States] /\ state'[p] = "READY"
        /\ \A u \in Task : u # p => state'[u] = state[u]
    BY <1>1, <2>1, ZenonT(60) DEF TypeOK, States
  <2>4. ready' \in Seq(Thread) /\ Range(ready') = Range(ready) \cup {p} /\ Once(ready')
    <3>1. ready \in Seq(Thread) /\ Once(ready) /\ p \notin Range(ready)
      BY <1>1, <1>3, <2>2, Zenon DEF TypeOK, StateIsPlace, ReadyPlace
    <3> QED BY <3>1, <2>1, <1>3, RangeAppend, SMTT(60)
  <2>5. TypeOK'
    BY <1>1, <1>2, <2>3, <2>4, FinishType, ZenonT(60) DEF TypeOK
  <2>6. CpuInv' /\ TaskInv' /\ CpuPlace'
    BY <1>3, <2>3, FinishCpu, Zenon
  <2>7. LockInv'
    BY <1>2, FinishLock, Zenon
  <2>8. ReadyPlace'
    BY <1>1, <2>3, <2>4, Zenon DEF StateIsPlace, ReadyPlace
  <2>9. SleepPlace'
    BY <1>1, <1>2, <2>2, <2>3, Zenon DEF StateIsPlace, SleepPlace
  <2>10. WaitPlace'
    <3>1. \A u \in Thread : state'[u] = "BLOCKED" <=> state[u] = "BLOCKED"
      BY <2>2, <2>3, Zenon
    <3> QED BY <3>1, <1>1, <1>2, FinishType, WaitSame, Zenon DEF StateIsPlace
  <2> QED BY <2>5, <2>6, <2>7, <2>8, <2>9, <2>10, Zenon DEF IInv, StateIsPlace
<1>4. CASE p \notin Thread
  <2>1. UNCHANGED <<state, ready>>
    BY <1>4, Zenon DEF FinishReady
  <2>2. TypeOK'
    BY <1>1, <1>2, <2>1, FinishType, ZenonT(60) DEF TypeOK
  <2>3. CpuInv' /\ TaskInv' /\ CpuPlace'
    BY <1>4, <2>1, FinishCpu, Zenon
  <2>4. LockInv'
    <3>1. act[prev[c]] # "TO_WAIT"
      BY Zenon
    <3> QED BY <3>1, <1>2, FinishLock, Zenon
  <2>5. ReadyPlace' /\ SleepPlace'
    BY <1>1, <1>2, <2>1, Zenon DEF StateIsPlace, ReadyPlace, SleepPlace
  <2>6. WaitPlace'
    BY <1>1, <1>2, <2>1, FinishType, WaitSame, Zenon DEF StateIsPlace
  <2> QED BY <2>2, <2>3, <2>4, <2>5, <2>6, Zenon DEF IInv, StateIsPlace
<1> QED
  BY <1>3, <1>4, Zenon

LEMMA FinishSleepInv ==
  ASSUME IInv, NEW c \in Cpu, FinishSwitch(c), act[prev[c]] = "TO_SLEEP", FinishSleep(prev[c])
  PROVE  IInv'
<1> DEFINE p == prev[c]
<1>1. /\ TypeOK /\ StateIsPlace /\ p \in Thread /\ state[p] = "RUNNING"
  BY Outgoing, Zenon DEF IInv
<1>2. /\ state' = [state EXCEPT ![p] = "SLEEPING"] /\ sleepers' = sleepers \cup {p}
      /\ UNCHANGED <<ready, zombies, lock, list, wq>>
  BY Zenon DEF FinishSleep, waitVars
<1>3. /\ state' \in [Task -> States] /\ state'[p] = "SLEEPING"
      /\ \A u \in Task : u # p => state'[u] = state[u]
  BY <1>1, <1>2, ZenonT(60) DEF TypeOK, States
<1>4. TypeOK'
  BY <1>1, <1>2, <1>3, FinishType, ZenonT(60) DEF TypeOK
<1>5. CpuInv' /\ TaskInv' /\ CpuPlace'
  BY <1>1, <1>3, FinishCpu, Zenon
<1>6. LockInv'
  BY <1>2, FinishLock, Zenon
<1>7. ReadyPlace'
  BY <1>1, <1>2, <1>3, Zenon DEF StateIsPlace, ReadyPlace
<1>8. SleepPlace'
  BY <1>1, <1>2, <1>3, Zenon DEF StateIsPlace, SleepPlace
<1>9. WaitPlace'
  <2>1. \A u \in Thread : state'[u] = "BLOCKED" <=> state[u] = "BLOCKED"
    BY <1>1, <1>3, Zenon
  <2> QED BY <2>1, <1>1, <1>2, FinishType, WaitSame, Zenon DEF StateIsPlace
<1> QED
  BY <1>4, <1>5, <1>6, <1>7, <1>8, <1>9, ZenonT(60) DEF IInv, StateIsPlace

LEMMA FinishZombieInv ==
  ASSUME IInv, NEW c \in Cpu, FinishSwitch(c), act[prev[c]] = "TO_ZOMBIE", FinishZombie(prev[c])
  PROVE  IInv'
<1> DEFINE p == prev[c]
<1>1. /\ TypeOK /\ StateIsPlace /\ p \in Thread /\ state[p] = "RUNNING"
  BY Outgoing, ZenonT(60) DEF IInv
<1>2. /\ state' = [state EXCEPT ![p] = "EXITED"] /\ zombies' = zombies \cup {p}
      /\ UNCHANGED <<ready, sleepers, lock, list, wq>>
  BY Zenon DEF FinishZombie, waitVars
<1>3. /\ state' \in [Task -> States] /\ state'[p] = "EXITED"
      /\ \A u \in Task : u # p => state'[u] = state[u]
  BY <1>1, <1>2, ZenonT(60) DEF TypeOK, States
<1>4. TypeOK'
  BY <1>1, <1>2, <1>3, FinishType, ZenonT(60) DEF TypeOK
<1>5. CpuInv' /\ TaskInv' /\ CpuPlace'
  BY <1>1, <1>3, FinishCpu, Zenon
<1>6. LockInv'
  BY <1>2, FinishLock, Zenon
<1>7. ReadyPlace'
  BY <1>1, <1>2, <1>3, Zenon DEF StateIsPlace, ReadyPlace
<1>8. SleepPlace'
  BY <1>1, <1>2, <1>3, Zenon DEF StateIsPlace, SleepPlace
<1>9. WaitPlace'
  <2>1. \A u \in Thread : state'[u] = "BLOCKED" <=> state[u] = "BLOCKED"
    BY <1>1, <1>3, Zenon
  <2> QED BY <2>1, <1>1, <1>2, FinishType, WaitSame, Zenon DEF StateIsPlace
<1> QED
  BY <1>4, <1>5, <1>6, <1>7, <1>8, <1>9, Zenon DEF IInv, StateIsPlace

LEMMA FinishWaitInv ==
  ASSUME IInv, NEW c \in Cpu, FinishSwitch(c), act[prev[c]] = "TO_WAIT", FinishWait(prev[c])
  PROVE  IInv'
<1> DEFINE t == stack[c]
           p == prev[c]
           q == wq[p]
           x == IF pc[t] = "boot" THEN "run" ELSE ret[t]
<1>1. /\ TypeOK /\ StateIsPlace /\ LockInv /\ p \in Thread /\ state[p] = "RUNNING"
  BY Outgoing, Zenon DEF IInv
<1>2. /\ state' = [state EXCEPT ![p] = "BLOCKED"]
      /\ list' = [list EXCEPT ![q] = Append(@, p)] /\ lock' = [lock EXCEPT ![q] = None]
      /\ wq' = [wq EXCEPT ![p] = None] /\ UNCHANGED <<ready, sleepers, zombies>>
  BY Zenon DEF FinishWait
<1>3. q \in Queue /\ lock[q] = p
  BY <1>1, Zenon DEF LockInv
<1>4. /\ state' \in [Task -> States] /\ state'[p] = "BLOCKED"
      /\ \A u \in Task : u # p => state'[u] = state[u]
  BY <1>1, <1>2, ZenonT(60) DEF TypeOK, States
<1>5. /\ lock' \in [Queue -> Thread \cup {None}] /\ lock'[q] = None
      /\ \A r \in Queue : r # q => lock'[r] = lock[r]
      /\ wq' \in [Task -> Queue \cup {None}]
      /\ \A u \in Task : u # p => wq'[u] = wq[u]
  BY <1>1, <1>2, <1>3, ZenonT(60) DEF TypeOK
<1>6. \A r \in Queue : p \notin Range(list[r])
  BY <1>1, Zenon DEF StateIsPlace, WaitPlace, BlockedPlace
<1>7. \A u \in Task : p \notin Range(hand[u])
  BY <1>1, Zenon DEF StateIsPlace, WaitPlace, BlockedPlace
<1>8. /\ list' \in [Queue -> Seq(Thread)] /\ Once(list'[q])
      /\ Range(list'[q]) = Range(list[q]) \cup {p}
      /\ \A r \in Queue : r # q => list'[r] = list[r]
  <2>1. list[q] \in Seq(Thread) /\ list \in [Queue -> Seq(Thread)] /\ Once(list[q])
    BY <1>1, <1>3, ZenonT(60) DEF TypeOK, StateIsPlace, WaitPlace, WaitOnce
  <2>2. /\ Append(list[q], p) \in Seq(Thread) /\ Once(Append(list[q], p))
        /\ Range(Append(list[q], p)) = Range(list[q]) \cup {p}
    BY <2>1, <1>1, <1>3, <1>6, RangeAppend, SMTT(60)
  <2>3. list' = [list EXCEPT ![q] = Append(list[q], p)]
    BY <1>2, Zenon
  <2> QED BY <2>1, <2>2, <2>3, <1>3, Zenon
<1>9. TypeOK'
  <2>1. /\ prev' \in [Cpu -> Task \cup {None}] /\ pc' \in [Task -> Points]
        /\ UNCHANGED <<current, slice, stack, space, due, ret, act, hand>>
    BY FinishType, ZenonT(60)
  <2>2. UNCHANGED <<ready, sleepers, zombies>>
    BY <1>2, Zenon
  <2>3. /\ list' \in [Queue -> Seq(Thread)] /\ state' \in [Task -> States]
        /\ lock' \in [Queue -> Thread \cup {None}] /\ wq' \in [Task -> Queue \cup {None}]
    BY <1>4, <1>5, <1>8, ZenonT(60)
  <2> QED BY <2>1, <2>2, <2>3, <1>1, ZenonT(60) DEF TypeOK
<1>10. CpuInv' /\ TaskInv' /\ CpuPlace'
  BY <1>1, <1>4, FinishCpu, ZenonT(60)
<1>11. hand' = hand /\ act' = act /\ stack' = stack
  BY FinishType, Zenon
<1>12. LockInv'
  <2>1. /\ pc[t] \in {"finish", "boot"} /\ prev' = [prev EXCEPT ![c] = None]
        /\ pc' = [pc EXCEPT ![t] = x]
    BY Zenon DEF FinishSwitch, Goto
  <2>2. /\ t \in Task /\ \A d \in Cpu : d # c => t \notin {stack[d], current[d], prev[d]}
    BY Owner, Zenon
  <2>3. x \in IrqOn
    BY <1>1, <2>2, ZenonT(60) DEF TypeOK, IrqOn
  <2>4. /\ pc'[t] = x /\ \A u \in Task : u # t => pc'[u] = pc[u]
        /\ prev'[c] = None /\ \A d \in Cpu : d # c => prev'[d] = prev[d]
    BY <1>1, <2>1, <2>2, Zenon DEF TypeOK
  <2> HIDE DEF x
  <2>5. LockCrossesSwitchOnly'
    <3>0. SUFFICES ASSUME NEW r \in Queue, lock'[r] # None
                   PROVE  \E d \in Cpu : Blocking(d, lock[r], r)'
      BY Zenon DEF LockCrossesSwitchOnly
    <3>1. r # q /\ lock'[r] = lock[r]
      BY <3>0, <1>3, <1>5, Zenon
    <3>2. PICK d \in Cpu : Blocking(d, lock[r], r)
      BY <3>0, <3>1, <1>1, Zenon DEF LockInv, LockCrossesSwitchOnly
    <3>3. lock[r] \in Task
      BY <3>0, <3>1, <1>1, ZenonT(60) DEF TypeOK
    <3>4. lock[r] # p
      BY <3>1, <3>2, Zenon DEF Blocking
    <3>5. lock[r] # t
      <4>1. \A e \in Cpu : prev[e] # t
        BY <2>2, Outgoing, Zenon
      <4>2. pc[t] \notin {"pick", "switch"}
        BY <2>1, Zenon
      <4> QED BY <3>2, <4>1, <4>2, Zenon DEF Blocking
    <3>6. Blocking(d, lock[r], r)'
      <4>1. pc'[lock[r]] = pc[lock[r]] /\ wq'[lock[r]] = wq[lock[r]]
        BY <3>3, <3>4, <3>5, <1>5, <2>4, Zenon
      <4>2. prev[d] = lock[r] => prev'[d] = prev[d]
        BY <3>4, <2>4, Zenon
      <4> QED BY <3>1, <3>2, <4>1, <4>2, <1>11, Zenon DEF Blocking
    <3> QED BY <3>6, Zenon
  <2>6. \A u \in Task : pc'[u] \in Calls => wq'[u] \in Queue
    <3>1. pc[p] = "finish" /\ p # t
      BY Outgoing, Zenon
    <3>2. x \notin Calls /\ pc[p] \notin Calls
      BY <3>1, <2>3, Zenon DEF Calls, IrqOn
    <3>3. \A u \in Task : pc[u] \in Calls => wq[u] \in Queue
      BY <1>1, Zenon DEF LockInv
    <3> QED BY <3>1, <3>2, <3>3, <1>5, <2>4, Zenon
  <2>7. ASSUME NEW d \in Cpu, NEW u \in Task, act'[u] = "TO_WAIT",
               \/ stack'[d] = u /\ pc'[u] \in {"pick", "switch"}
               \/ prev'[d] = u
        PROVE  wq'[u] \in Queue /\ lock'[wq'[u]] = u
    <3>1. u = t => prev'[d] = t
      BY <2>7, <2>3, <2>4, Zenon DEF IrqOn
    <3>2. u # t
      BY <3>1, <2>2, <2>4, Zenon
    <3>3. u # p
      <4>1. \A e \in Cpu : stack'[e] # p
        BY <1>11, Outgoing, Zenon
      <4>2. \A e \in Cpu : prev'[e] # p
        <5>1. p # None /\ \A e \in Cpu : e # c => prev[e] # p
          BY <1>1, Outgoing, Zenon
        <5> QED BY <5>1, <2>4, Zenon
      <4> QED BY <2>7, <4>1, <4>2, Zenon
    <3>4. wq[u] \in Queue /\ lock[wq[u]] = u
      <4>1. pc'[u] = pc[u] /\ (prev'[d] = u => prev[d] = u)
        BY <3>2, <2>4, Zenon
      <4>2. act[u] = "TO_WAIT" /\ ((stack[d] = u /\ pc[u] \in {"pick", "switch"}) \/ prev[d] = u)
        BY <2>7, <4>1, <1>11, Zenon
      <4> QED BY <4>2, <1>1, Zenon DEF LockInv
    <3> QED BY <3>3, <3>4, <1>3, <1>5, Zenon
  <2> QED BY <2>5, <2>6, <2>7, ZenonT(60) DEF LockInv
<1>13. ReadyPlace'
  BY <1>1, <1>2, <1>4, Zenon DEF StateIsPlace, ReadyPlace
<1>14. SleepPlace'
  BY <1>1, <1>2, <1>4, Zenon DEF StateIsPlace, SleepPlace
<1>15. BlockedPlace'
  <2> SUFFICES ASSUME NEW u \in Thread
               PROVE  state'[u] = "BLOCKED" <=> \/ \E r \in Queue : u \in Range(list'[r])
                                                \/ \E v \in Task : u \in Range(hand'[v])
    BY Zenon DEF BlockedPlace
  <2>1. CASE u = p
    BY <2>1, <1>3, <1>4, <1>8, Zenon
  <2>2. CASE u # p
    <3>1. \A r \in Queue : u \in Range(list'[r]) <=> u \in Range(list[r])
      BY <2>2, <1>8, Zenon
    <3> QED BY <2>2, <3>1, <1>1, <1>4, <1>11, Zenon DEF StateIsPlace, WaitPlace, BlockedPlace
  <2> QED BY <2>1, <2>2, Zenon
<1>16. WaitOnce'
  <2>1. WaitOnce
    BY <1>1, Zenon DEF StateIsPlace, WaitPlace
  <2>2. \A r \in Queue : Once(list'[r])
    BY <2>1, <1>8, Zenon DEF WaitOnce
  <2>3. \A r \in Queue : r # q => Range(list'[q]) \cap Range(list'[r]) = {}
    <3> SUFFICES ASSUME NEW r \in Queue, r # q
                 PROVE  Range(list'[q]) \cap Range(list'[r]) = {}
      BY Zenon
    <3>1. Range(list[q]) \cap Range(list[r]) = {} /\ p \notin Range(list[r])
      BY <2>1, <1>3, <1>6, Zenon DEF WaitOnce
    <3>2. Range(list'[q]) = Range(list[q]) \cup {p} /\ list'[r] = list[r]
      BY <1>8, Zenon
    <3> QED BY <3>1, <3>2, Zenon
  <2>4. \A r, v \in Queue : r # q /\ v # q /\ r # v => Range(list'[r]) \cap Range(list'[v]) = {}
    BY <2>1, <1>8, ZenonT(60) DEF WaitOnce
  <2>5. ASSUME NEW r \in Queue, NEW v \in Queue, r # v
        PROVE  Range(list'[r]) \cap Range(list'[v]) = {}
    <3>1. CASE r = q
      BY <3>1, <2>3, <2>5, Zenon
    <3>2. CASE v = q
      BY <3>2, <2>3, <2>5, Zenon
    <3> QED BY <3>1, <3>2, <2>4, <2>5, Zenon
  <2>6. ASSUME NEW r \in Queue, NEW u \in Task
        PROVE  Range(list'[r]) \cap Range(hand'[u]) = {}
    <3>1. Range(list[r]) \cap Range(hand[u]) = {}
      BY <2>1, Zenon DEF WaitOnce
    <3>2. Range(list'[r]) \subseteq Range(list[r]) \cup {p}
      BY <1>8, Zenon
    <3>3. p \notin Range(hand'[u]) /\ hand' = hand
      BY <1>7, <1>11, Zenon
    <3> QED BY <3>1, <3>2, <3>3, Zenon
  <2>7. /\ \A u \in Task : Once(hand'[u])
        /\ \A u, v \in Task : u # v => Range(hand'[u]) \cap Range(hand'[v]) = {}
    BY <2>1, <1>11, Zenon DEF WaitOnce
  <2> QED BY <2>2, <2>5, <2>6, <2>7, ZenonT(60) DEF WaitOnce
<1> QED
  BY <1>9, <1>10, <1>12, <1>13, <1>14, <1>15, <1>16, ZenonT(60) DEF IInv, StateIsPlace, WaitPlace

LEMMA FinishSwitchInv ==
  ASSUME IInv, NEW c \in Cpu, FinishSwitch(c)
  PROVE  IInv'
  BY FinishReadyInv, FinishSleepInv, FinishZombieInv, FinishWaitInv, ZenonT(60) DEF FinishSwitch

-----------------------------------------------------------------------------

(***************************************************************************)
(* IInv is inductive.                                                      *)
(***************************************************************************)
LEMMA NextIInv == IInv /\ [Next]_vars => IInv'
<1> SUFFICES ASSUME IInv, [Next]_vars PROVE IInv'
  BY Zenon
<1>1. CASE Next
  <2>1. PICK c \in Cpu : \/ Program(c) \/ Kernel(c) \/ Tick(c)
                         \/ \E d \in 1..MaxSleep : Sleep(c, d)
                         \/ Schedule(c) \/ ContextSwitch(c) \/ FinishSwitch(c)
    BY <1>1, Zenon DEF Next
  <2>2. CASE Program(c)
    BY <2>2, SpawnInv, YieldNowInv, ExitInv, IdleLoopInv, WaitCallInv, Zenon DEF Program
  <2>3. CASE Kernel(c)
    BY <2>3, InitThisCpuInv, SleepParkInv, WaitIfInv, WaitRejectedInv, WakeInv, MakeReadyInv, Zenon
       DEF Kernel
  <2>4. CASE Tick(c)
    BY <2>4, TickInv, Zenon
  <2>5. CASE \E d \in 1..MaxSleep : Sleep(c, d)
    BY <2>5, SleepInv, Zenon
  <2>6. CASE Schedule(c)
    BY <2>6, ScheduleInv, Zenon
  <2>7. CASE ContextSwitch(c)
    BY <2>7, ContextSwitchInv, Zenon
  <2>8. CASE FinishSwitch(c)
    BY <2>8, FinishSwitchInv, Zenon
  <2> QED BY <2>1, <2>2, <2>3, <2>4, <2>5, <2>6, <2>7, <2>8, Zenon
<1>2. CASE UNCHANGED vars
  <2>1. UNCHANGED <<current, prev, slice, stack, space, ready, sleepers, zombies, lock, list,
                    state, due, pc, ret, act, wq, hand>>
    BY <1>2, Zenon DEF vars, cpuVars, taskVars, waitVars
  <2>2. TypeOK'
    BY <2>1, Zenon DEF IInv, TypeOK
  <2>3. StateIsPlace'
    BY <2>1, SamePlaces, Zenon DEF IInv
  <2>4. CpuInv'
    BY <2>1, Zenon DEF IInv, CpuInv, Offline, Settled, Leaving, Arriving
  <2>5. TaskInv'
    BY <2>1, Zenon DEF IInv, TaskInv
  <2>6. LockInv'
    <3>1. LockCrossesSwitchOnly'
      <4> SUFFICES ASSUME NEW q \in Queue, lock[q] # None
                   PROVE  \E d \in Cpu : Blocking(d, lock[q], q)'
        BY <2>1, Zenon DEF LockCrossesSwitchOnly
      <4>1. PICK d \in Cpu : Blocking(d, lock[q], q)
        BY Zenon DEF IInv, LockInv, LockCrossesSwitchOnly
      <4>2. Blocking(d, lock[q], q)'
        BY <4>1, <2>1, Zenon DEF Blocking
      <4> QED BY <4>2, Zenon
    <3> QED BY <2>1, <3>1, Zenon DEF IInv, LockInv
  <2> QED BY <2>2, <2>3, <2>4, <2>5, <2>6, Zenon DEF IInv
<1> QED
  BY <1>1, <1>2, Zenon

\* The inductive invariant holds throughout: what the registers of a CPU and the
\* places of the tasks say of each other at every point of schedule() and
\* finish_switch, for any number of CPUs, threads and wait queues.
THEOREM Inductive == Spec => []IInv
  BY InitIInv, NextIInv, PTL DEF Spec

\* Every variable of the scheduler keeps its type: in particular, no idle task is
\* ever queued, put to sleep or made a zombie.
THEOREM TypeCorrect == Spec => []TypeOK
<1>1. IInv => TypeOK
  BY Zenon DEF IInv
<1> QED BY <1>1, Inductive, PTL

\* No two CPUs ever execute on the same task's stack (schedule, context_switch and
\* finish_switch against every queue a task can be taken from).
THEOREM StackExclusion == Spec => []NoSharedStack
  BY Inductive, SharedStack, PTL

\* A task's state says where it is, and it is in one place only.
THEOREM OnePlace == Spec => []StateIsPlace
<1>1. IInv => StateIsPlace
  BY Zenon DEF IInv
<1> QED BY <1>1, Inductive, PTL

\* A queued task has its context saved: finish_switch defers every transition long
\* enough.
THEOREM SavedBeforeFound == Spec => []ParkedIsSaved
<1>1. IInv => ParkedIsSaved
  <2> SUFFICES ASSUME IInv, NEW t \in Task, Parked(t)
               PROVE  t \notin Cpu /\ \A c \in Cpu : stack[c] # t
    BY Zenon DEF ParkedIsSaved
  <2>1. TypeOK /\ StateIsPlace
    BY Zenon DEF IInv
  <2>2. t \in Thread /\ state[t] # "RUNNING"
    <3>1. CASE t \in Range(ready)
      <4>1. t \in Thread
        BY <3>1, <2>1, RangeOfSeq, Zenon DEF TypeOK
      <4> QED BY <3>1, <4>1, <2>1, Zenon DEF StateIsPlace, ReadyPlace
    <3>2. CASE t \in sleepers \cup zombies
      BY <3>2, <2>1, Zenon DEF TypeOK, StateIsPlace, SleepPlace
    <3>3. CASE \E q \in Queue : t \in Range(list[q])
      <4>1. t \in Thread
        BY <3>3, <2>1, RangeOfSeq, Zenon DEF TypeOK
      <4> QED BY <3>3, <4>1, <2>1, Zenon DEF StateIsPlace, WaitPlace, BlockedPlace
    <3>4. CASE \E u \in Task : t \in Range(hand[u])
      <4>1. t \in Thread
        BY <3>4, <2>1, RangeOfSeq, Zenon DEF TypeOK
      <4> QED BY <3>4, <4>1, <2>1, Zenon DEF StateIsPlace, WaitPlace, BlockedPlace
    <3> QED BY <3>1, <3>2, <3>3, <3>4, Zenon DEF Parked
  <2>3. t \notin Cpu
    BY <2>2, Zenon
  <2>4. \A c \in Cpu : stack[c] # t
    BY <2>2, Owner, Zenon
  <2> QED BY <2>3, <2>4, Zenon
<1> QED BY <1>1, Inductive, PTL

\* A wait queue's raw lock crosses the context switch with its holder, and is held
\* at no other time: block_locked to finish_switch.
THEOREM LockDiscipline == Spec => []LockCrossesSwitchOnly
<1>1. IInv => LockCrossesSwitchOnly
  BY Zenon DEF IInv, LockInv
<1> QED BY <1>1, Inductive, PTL

\* A task's own code runs as the current task, in its own address space.
THEOREM RightContext == Spec => []RunsAsItself
<1>1. IInv => RunsAsItself
  BY Zenon DEF IInv, CpuInv, Settled, RunsAsItself
<1> QED BY <1>1, Inductive, PTL
=============================================================================
