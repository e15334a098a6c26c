------------------------------- MODULE Sched -------------------------------
(***************************************************************************)
(* The SMP task scheduler of base/kor-sched: a shared FIFO ready queue, a  *)
(* list of sleepers, a list of zombies, wait queues whose raw lock is held *)
(* across the context switch, and the DEFERRED TRANSITION that makes it    *)
(* all work: schedule() only records what is to become of the outgoing     *)
(* task; the incoming task applies it (finish_switch) once the outgoing    *)
(* context has been saved.                                                 *)
(*                                                                         *)
(* A CPU c executes on the stack of task stack[c], at that task's pc.  The *)
(* steps of schedule() are separate actions, because other CPUs run        *)
(* between them; on the CPU itself they run with interrupts disabled, so   *)
(* Tick(c) needs pc[stack[c]] \in IrqOn.  A critical section of a spin     *)
(* lock is one step, except that of a WaitQueue a task blocks on.          *)
(* The idle task of CPU c is c itself.                                     *)
(***************************************************************************)
EXTENDS Naturals, Sequences, FiniteSets, Functions

CONSTANTS Cpu, Boot, Thread, Queue, None,
          Root,        \* the address-space root of every task
          TimeSlice,   \* ticks before preemption (TIME_SLICE = 5)
          MaxSleep     \* bound: the longest sleep, in ticks

Task == Thread \cup Cpu

ASSUME SchedAssumption ==
  /\ Boot \in Cpu
  /\ Cpu \cap Thread = {}
  /\ None \notin Task \cup Queue
  /\ DOMAIN Root = Task
  /\ TimeSlice \in Nat \ {0}
  /\ MaxSleep \in Nat \ {0}

VARIABLES
  current, prev, slice,       \* PerCpu, without the constant field idle
  stack, space,               \* what the hardware executes on / translates by
  ready, sleepers, zombies,   \* READY_QUEUE, SLEEPERS, ZOMBIES
  lock, list,                 \* WaitQueue: its raw lock's holder, its tasks
  state, due,                 \* Task.state; Task.wake_tick less the tick count
  pc, ret,                    \* where the task is; where its call returns to
  act, wq,                    \* the arguments of its schedule() call
  hand                        \* tasks it popped from a wait queue

cpuVars  == <<current, prev, slice, stack, space>>
taskVars == <<state, due, pc, ret, act, wq, hand>>
waitVars == <<lock, list>>
vars == <<cpuVars, ready, sleepers, zombies, waitVars, taskVars>>

States  == {"NEW", "READY", "RUNNING", "SLEEPING", "EXITED", "BLOCKED"}
Actions == {"TO_READY", "TO_SLEEP", "TO_ZOMBIE", "TO_WAIT"}
Calls   == {"wait_if", "wake_one", "wake_all"}
\* Code that runs with interrupts enabled: a task's own code (the idle loop of
\* an idle task), and sleep() before it disables them.
IrqOn   == {"run", "sleep"}
Points  == IrqOn \cup Calls \cup {"off", "boot", "pick", "switch", "finish", "wake"}

TypeOK ==
  /\ current \in [Cpu -> Task \cup {None}]
  /\ prev \in [Cpu -> Task \cup {None}]
  /\ slice \in [Cpu -> 0..TimeSlice]
  /\ stack \in [Cpu -> Task]
  /\ space \in [Cpu -> Range(Root)]
  /\ ready \in Seq(Thread)
  /\ sleepers \subseteq Thread
  /\ zombies \subseteq Thread
  /\ lock \in [Queue -> Thread \cup {None}]
  /\ list \in [Queue -> Seq(Thread)]
  /\ state \in [Task -> States]
  /\ due \in [Task -> 0..MaxSleep]
  /\ pc \in [Task -> Points]
  /\ ret \in [Task -> IrqOn]
  /\ act \in [Task -> Actions]
  /\ wq \in [Task -> Queue \cup {None}]
  /\ hand \in [Task -> Seq(Thread)]

Init ==
  /\ current = [c \in Cpu |-> IF c = Boot THEN Boot ELSE None]
  /\ prev = [c \in Cpu |-> None]
  /\ slice = [c \in Cpu |-> TimeSlice]
  /\ stack = [c \in Cpu |-> c]
  /\ space = [c \in Cpu |-> Root[c]]
  /\ ready = <<>> /\ sleepers = {} /\ zombies = {}
  /\ lock = [q \in Queue |-> None]
  /\ list = [q \in Queue |-> <<>>]
  /\ state = [t \in Task |-> IF t \in Cpu THEN "RUNNING" ELSE "NEW"]
  /\ due = [t \in Task |-> 0]
  /\ pc = [t \in Task |-> IF t = Boot THEN "run"
                          ELSE IF t \in Cpu THEN "off" ELSE "boot"]
  /\ ret = [t \in Task |-> "run"]
  /\ act = [t \in Task |-> "TO_READY"]
  /\ wq = [t \in Task |-> None]
  /\ hand = [t \in Task |-> <<>>]

Goto(t, point) == pc' = [pc EXCEPT ![t] = point]

(***************************************************************************)
(* Entering schedule(action, wait_ptr); `from` is where it returns to.     *)
(***************************************************************************)
CallSchedule(t, action, from) ==
  /\ Goto(t, "pick")
  /\ act' = [act EXCEPT ![t] = action]
  /\ ret' = [ret EXCEPT ![t] = from]

(***************************************************************************)
(* A secondary CPU joins: its boot context becomes its idle task.          *)
(***************************************************************************)
InitThisCpu(c) ==
  /\ pc[c] = "off"
  /\ current' = [current EXCEPT ![c] = c]
  /\ Goto(c, "run")
  /\ UNCHANGED <<prev, slice, stack, space, ready, sleepers, zombies, waitVars,
                 state, due, ret, act, wq, hand>>

(***************************************************************************)
(* spawn_configured: a new task becomes visible in the ready queue.        *)
(***************************************************************************)
Spawn(c, u) ==
  /\ pc[stack[c]] = "run"
  /\ state[u] = "NEW"
  /\ state' = [state EXCEPT ![u] = "READY"]
  /\ ready' = Append(ready, u)
  /\ UNCHANGED <<cpuVars, sleepers, zombies, waitVars, due, pc, ret, act, wq, hand>>

\* A slip: the task is queued before its context is saved.
YieldNowEarly(c) ==
  LET t == stack[c] IN
  /\ pc[t] = "run" /\ t \in Thread
  /\ CallSchedule(t, "TO_READY", "run")
  /\ ready' = Append(ready, t)
  /\ UNCHANGED <<cpuVars, sleepers, zombies, waitVars, state, due, wq, hand>>

YieldNow(c) ==
  LET t == stack[c] IN
  /\ pc[t] = "run" /\ t \in Thread
  /\ CallSchedule(t, "TO_READY", "run")
  /\ UNCHANGED <<cpuVars, ready, sleepers, zombies, waitVars, state, due, wq, hand>>

(***************************************************************************)
(* sleep(d): the wake tick is computed with interrupts still enabled, then *)
(* interrupts are disabled and the task parks.                             *)
(***************************************************************************)
Sleep(c, d) ==
  LET t == stack[c] IN
  /\ pc[t] = "run" /\ t \in Thread
  /\ due' = [due EXCEPT ![t] = d]
  /\ Goto(t, "sleep")
  /\ UNCHANGED <<cpuVars, ready, sleepers, zombies, waitVars, state, ret, act, wq, hand>>

\* A slip: the task is put to sleep before its context is saved.
SleepParkEarly(c) ==
  LET t == stack[c] IN
  /\ pc[t] = "sleep"
  /\ CallSchedule(t, "TO_SLEEP", "run")
  /\ sleepers' = sleepers \cup {t}
  /\ UNCHANGED <<cpuVars, ready, zombies, waitVars, state, due, wq, hand>>

SleepPark(c) ==
  LET t == stack[c] IN
  /\ pc[t] = "sleep"
  /\ CallSchedule(t, "TO_SLEEP", "run")
  /\ UNCHANGED <<cpuVars, ready, sleepers, zombies, waitVars, state, due, wq, hand>>

Exit(c) ==
  LET t == stack[c] IN
  /\ pc[t] = "run" /\ t \in Thread
  /\ CallSchedule(t, "TO_ZOMBIE", "run")
  /\ UNCHANGED <<cpuVars, ready, sleepers, zombies, waitVars, state, due, wq, hand>>

(***************************************************************************)
(* The idle loop: free the zombies, then yield.                            *)
(***************************************************************************)
IdleLoop(c) ==
  /\ stack[c] = c /\ pc[c] = "run"
  /\ zombies' = {}
  /\ CallSchedule(c, "TO_READY", "run")
  /\ UNCHANGED <<cpuVars, ready, sleepers, waitVars, state, due, wq, hand>>

\* A slip: the wake tick is compared with ==.
ExpiredNow(now) == {u \in sleepers : due[u] = 1}

\* The sleepers whose wake tick has come.
Expired(now) == {u \in sleepers : now[u] = 0}

\* The sequences that list S, each element once.
InAnyOrder(S) == UNION {Bijection(1..n, S) : n \in 0..Cardinality(S)}

(***************************************************************************)
(* The timer interrupt: increment_tick, timer_tick and preempt.  Every     *)
(* pending wake tick comes one nearer; the sleepers that are due become    *)
(* ready, in the order swap_remove leaves them in (any, here).             *)
(***************************************************************************)
Tick(c) ==
  LET t   == stack[c]
      rem == IF slice[c] > 0 THEN slice[c] - 1 ELSE 0
      now == [u \in Task |-> IF due[u] > 0 THEN due[u] - 1 ELSE 0]
      up  == Expired(now)
  IN
  /\ pc[t] \in IrqOn
  /\ due' = now
  /\ sleepers' = sleepers \ up
  /\ state' = [u \in Task |-> IF u \in up THEN "READY" ELSE state[u]]
  /\ \E woken \in InAnyOrder(up) : ready' = ready \o woken
  /\ IF rem = 0
     THEN /\ slice' = [slice EXCEPT ![c] = TimeSlice]
          /\ CallSchedule(t, "TO_READY", pc[t])
     ELSE /\ slice' = [slice EXCEPT ![c] = rem]
          /\ UNCHANGED <<pc, act, ret>>
  /\ UNCHANGED <<current, prev, stack, space, zombies, waitVars, wq, hand>>

(***************************************************************************)
(* schedule(), first half: pick the head of the ready queue or the idle    *)
(* task, record the outgoing task in prev, make the next one current and   *)
(* activate its address space.  An idle task with nothing to yield to      *)
(* returns at once.                                                        *)
(***************************************************************************)
PickNext(c) == IF ready = <<>> THEN c ELSE Head(ready)

Activate(c, n) == space' = [space EXCEPT ![c] = Root[n]]

Schedule(c) ==
  LET t == stack[c]
      n == PickNext(c)
  IN
  /\ pc[t] = "pick"
  /\ ready' = IF ready = <<>> THEN ready ELSE Tail(ready)
  /\ IF n = t /\ act[t] = "TO_READY"
     THEN /\ Goto(t, ret[t])
          /\ UNCHANGED <<cpuVars, state>>
     ELSE /\ prev' = [prev EXCEPT ![c] = t]
          /\ state' = [state EXCEPT ![n] = "RUNNING"]
          /\ slice' = [slice EXCEPT ![c] = TimeSlice]
          /\ current' = [current EXCEPT ![c] = n]
          /\ Activate(c, n)
          /\ Goto(t, "switch")
          /\ UNCHANGED stack
  /\ UNCHANGED <<sleepers, zombies, waitVars, due, ret, act, wq, hand>>

(***************************************************************************)
(* context_switch: save the outgoing context, resume the incoming one.     *)
(***************************************************************************)
ContextSwitch(c) ==
  /\ pc[stack[c]] = "switch"
  /\ stack' = [stack EXCEPT ![c] = current[c]]
  /\ Goto(stack[c], "finish")
  /\ UNCHANGED <<current, prev, slice, space, ready, sleepers, zombies, waitVars,
                 state, due, ret, act, wq, hand>>

(***************************************************************************)
(* finish_switch, run by the incoming task (by task_bootstrap on its first *)
(* run): take prev and apply its deferred transition.                      *)
(***************************************************************************)

FinishReadyLost(p) ==
  /\ IF p \in Thread THEN state' = [state EXCEPT ![p] = "READY"] ELSE UNCHANGED state
  /\ UNCHANGED <<ready, sleepers, zombies, waitVars, wq>>

FinishReady(p) ==
  /\ IF p \in Thread
     THEN /\ state' = [state EXCEPT ![p] = "READY"]
          /\ ready' = Append(ready, p)
     ELSE UNCHANGED <<state, ready>>
  /\ UNCHANGED <<sleepers, zombies, waitVars, wq>>

FinishSleep(p) ==
  /\ state' = [state EXCEPT ![p] = "SLEEPING"]
  /\ sleepers' = sleepers \cup {p}
  /\ UNCHANGED <<ready, zombies, waitVars, wq>>

FinishZombie(p) ==
  /\ state' = [state EXCEPT ![p] = "EXITED"]
  /\ zombies' = zombies \cup {p}
  /\ UNCHANGED <<ready, sleepers, waitVars, wq>>

FinishWait(p) ==
  /\ state' = [state EXCEPT ![p] = "BLOCKED"]
  /\ list' = [list EXCEPT ![wq[p]] = Append(@, p)]
  /\ lock' = [lock EXCEPT ![wq[p]] = None]
  /\ wq' = [wq EXCEPT ![p] = None]
  /\ UNCHANGED <<ready, sleepers, zombies>>

FinishSwitch(c) ==
  LET t == stack[c]
      p == prev[c]
  IN
  /\ pc[t] \in {"finish", "boot"}
  /\ p # None
  /\ prev' = [prev EXCEPT ![c] = None]
  /\ \/ act[p] = "TO_READY"  /\ FinishReady(p)
     \/ act[p] = "TO_SLEEP"  /\ FinishSleep(p)
     \/ act[p] = "TO_ZOMBIE" /\ FinishZombie(p)
     \/ act[p] = "TO_WAIT"   /\ FinishWait(p)
  /\ Goto(t, IF pc[t] = "boot" THEN "run" ELSE ret[t])
  /\ UNCHANGED <<current, slice, stack, space, due, ret, act, hand>>

(***************************************************************************)
(* WaitQueue.  A call disables interrupts and spins for the raw lock.  A   *)
(* task waits (wait, wait_if); a task or an interrupt handler, on an idle  *)
(* CPU too, wakes (wake_one, wake_all).                                    *)
(***************************************************************************)
WaitCall(c, q, call) ==
  LET t == stack[c] IN
  /\ pc[t] = "run"
  /\ call = "wait_if" => t \in Thread
  /\ wq' = [wq EXCEPT ![t] = q]
  /\ Goto(t, call)
  /\ UNCHANGED <<cpuVars, ready, sleepers, zombies, waitVars, state, due, ret, act, hand>>

(***************************************************************************)
(* The lock is taken: block, keeping it (block_locked) ...                 *)
(***************************************************************************)
WaitIf(c) ==
  LET t == stack[c] IN
  /\ pc[t] = "wait_if"
  /\ lock[wq[t]] = None
  /\ lock' = [lock EXCEPT ![wq[t]] = t]
  /\ CallSchedule(t, "TO_WAIT", "run")
  /\ UNCHANGED <<cpuVars, ready, sleepers, zombies, list, state, due, wq, hand>>

(***************************************************************************)
(* ... or release it at once, when the predicate of wait_if rejects.       *)
(***************************************************************************)
WaitRejected(c) ==
  LET t == stack[c] IN
  /\ pc[t] = "wait_if"
  /\ lock[wq[t]] = None
  /\ wq' = [wq EXCEPT ![t] = None]
  /\ Goto(t, "run")
  /\ UNCHANGED <<cpuVars, ready, sleepers, zombies, waitVars, state, due, ret, act, hand>>

(***************************************************************************)
(* wake_one and wake_all pop under the lock and make the popped tasks      *)
(* ready, one by one, after releasing it.                                  *)
(***************************************************************************)
Wake(c) ==
  LET t == stack[c]
      q == wq[t]
      all == pc[t] = "wake_all"
  IN
  /\ pc[t] \in {"wake_one", "wake_all"}
  /\ lock[q] = None
  /\ IF list[q] = <<>>
     THEN Goto(t, "run") /\ UNCHANGED <<list, hand>>
     ELSE /\ Goto(t, "wake")
          /\ hand' = [hand EXCEPT ![t] = IF all THEN list[q] ELSE <<Head(list[q])>>]
          /\ list' = [list EXCEPT ![q] = IF all THEN <<>> ELSE Tail(@)]
  /\ wq' = [wq EXCEPT ![t] = None]
  /\ UNCHANGED <<cpuVars, ready, sleepers, zombies, lock, state, due, ret, act>>

MakeReady(c) ==
  LET t == stack[c]
      u == Head(hand[t])
  IN
  /\ pc[t] = "wake"
  /\ state' = [state EXCEPT ![u] = "READY"]
  /\ ready' = Append(ready, u)
  /\ hand' = [hand EXCEPT ![t] = Tail(@)]
  /\ Goto(t, IF Len(hand[t]) = 1 THEN "run" ELSE "wake")
  /\ UNCHANGED <<cpuVars, sleepers, zombies, waitVars, due, ret, act, wq>>

\* A call a running task (or the idle loop) may make next.
Program(c) ==
  \/ \E u \in Thread : Spawn(c, u)
  \/ YieldNow(c)
  \/ Exit(c)
  \/ IdleLoop(c)
  \/ \E q \in Queue, call \in Calls : WaitCall(c, q, call)

\* The rest of such a call, apart from the switch itself.
Kernel(c) ==
  \/ InitThisCpu(c)
  \/ SleepPark(c)
  \/ WaitIf(c)
  \/ WaitRejected(c)
  \/ Wake(c)
  \/ MakeReady(c)

Next ==
  \E c \in Cpu : \/ Program(c) \/ Kernel(c) \/ Tick(c)
                 \/ \E d \in 1..MaxSleep : Sleep(c, d)
                 \/ Schedule(c) \/ ContextSwitch(c) \/ FinishSwitch(c)

Spec == Init /\ [][Next]_vars

(***************************************************************************)
(*                               Properties                                *)
(***************************************************************************)

\* No two CPUs ever execute on the stack of the same task: neither the ready
\* queue, the sleepers, the wait queues nor a preemption hands a task to a
\* second CPU while context_switch has not finished saving it on the first.
NoSharedStack ==
  \A c, d \in Cpu : stack[c] = stack[d] => c = d

Parked(t) ==
  \/ t \in Range(ready) \cup sleepers \cup zombies
  \/ \E q \in Queue : t \in Range(list[q])
  \/ \E u \in Task : t \in Range(hand[u])

\* finish_switch runs after the switch: a task another CPU can find (in a queue,
\* or popped from a wait queue by a waker) has its context saved, and a zombie
\* that reap may free is nobody's stack.
ParkedIsSaved ==
  \A t \in Task : Parked(t) => t \notin Cpu /\ \A c \in Cpu : stack[c] # t

Once(s) == IsInjective(s)

\* The parts of StateIsPlace: a task is READY, SLEEPING, BLOCKED or RUNNING ...
ReadyPlace ==
  /\ \A t \in Thread : state[t] = "READY" <=> t \in Range(ready)
  /\ Once(ready)

SleepPlace ==
  \A t \in Thread : /\ state[t] = "SLEEPING" <=> t \in sleepers
                    /\ t \in zombies => state[t] = "EXITED"

BlockedPlace ==
  \A t \in Thread : state[t] = "BLOCKED" <=> \/ \E q \in Queue : t \in Range(list[q])
                                             \/ \E u \in Task : t \in Range(hand[u])

WaitOnce ==
  /\ \A q \in Queue : Once(list[q])
  /\ \A u \in Task : Once(hand[u])
  /\ \A q, r \in Queue : q # r => Range(list[q]) \cap Range(list[r]) = {}
  /\ \A u, v \in Task : u # v => Range(hand[u]) \cap Range(hand[v]) = {}
  /\ \A q \in Queue, u \in Task : Range(list[q]) \cap Range(hand[u]) = {}

WaitPlace == BlockedPlace /\ WaitOnce

CpuPlace ==
  /\ \A t \in Thread : state[t] = "RUNNING" <=> \E c \in Cpu : t \in {current[c], prev[c]}
  /\ \A c, d \in Cpu : c # d =>
       ({current[c], prev[c]} \ {None}) \cap ({current[d], prev[d]} \ {None}) = {}

\* Task.state tells where the task is, and it is there once: READY in the ready
\* queue, SLEEPING among the sleepers, BLOCKED on one wait queue or in the hands
\* of one waker, RUNNING on one CPU (as its current task or awaiting its deferred
\* transition there).  So no task is ever lost or queued twice.
StateIsPlace == ReadyPlace /\ SleepPlace /\ WaitPlace /\ CpuPlace

\* The task leaving CPU c, about to leave it or just switched away from.
Blocking(c, t, q) ==
  /\ act[t] = "TO_WAIT" /\ wq[t] = q
  /\ \/ stack[c] = t /\ pc[t] \in {"pick", "switch"}
     \/ prev[c] = t /\ pc[t] = "finish"

\* The raw lock of a wait queue is held only by a task on its way out of a CPU,
\* from block_locked to the finish_switch of the task that follows it there: it is
\* never held by a task that is queued, or that runs with interrupts enabled.
LockCrossesSwitchOnly ==
  \A q \in Queue : lock[q] # None => \E c \in Cpu : Blocking(c, lock[q], q)

\* A task's own code runs with the task recorded as current, with no transition
\* left pending on its CPU, and in its own address space, wherever it was
\* migrated to.
RunsAsItself ==
  \A c \in Cpu : pc[stack[c]] \in IrqOn =>
    /\ current[c] = stack[c]
    /\ prev[c] = None
    /\ space[c] = Root[stack[c]]

(***************************************************************************)
(* The inductive invariant behind these five: what a CPU's registers say   *)
(* of each other at each point of schedule(), ...                          *)
(***************************************************************************)
Offline(c)  == stack[c] = c /\ current[c] = None /\ prev[c] = None /\ space[c] = Root[c]
Settled(c)  == current[c] = stack[c] /\ prev[c] = None /\ space[c] = Root[stack[c]]
Leaving(c)  == /\ prev[c] = stack[c] /\ current[c] \in Task \ {stack[c]}
               /\ pc[current[c]] \in {"finish", "boot"} /\ space[c] = Root[current[c]]
Arriving(c) == /\ current[c] = stack[c] /\ prev[c] \in Task \ {stack[c]}
               /\ pc[prev[c]] = "finish" /\ space[c] = Root[stack[c]]

CpuInv ==
  \A c \in Cpu :
    /\ pc[stack[c]] = "off" => Offline(c)
    /\ pc[stack[c]] = "switch" => Leaving(c)
    /\ pc[stack[c]] \in {"finish", "boot"} => Arriving(c)
    /\ pc[stack[c]] \in IrqOn \cup Calls \cup {"pick", "wake"} => Settled(c)

\* ... where a task is that no CPU executes on, what idle tasks never do, ...
TaskInv ==
  /\ \A t \in Task : (\A c \in Cpu : stack[c] # t) => pc[t] \in {"finish", "boot"}
  /\ \A t \in Thread : pc[t] # "off"
  /\ \A c \in Cpu : /\ state[c] = "RUNNING" /\ act[c] = "TO_READY" /\ ret[c] = "run"
                    /\ pc[c] \notin {"sleep", "wait_if", "boot"}
                    /\ \A d \in Cpu : c \in {stack[d], current[d], prev[d]} => d = c
  /\ \A t \in Task : hand[t] # <<>> <=> pc[t] = "wake"

\* ... and that a task leaving for a wait queue holds its lock.
LockInv ==
  /\ LockCrossesSwitchOnly
  /\ \A t \in Task : pc[t] \in Calls => wq[t] \in Queue
  /\ \A c \in Cpu, t \in Task :
       act[t] = "TO_WAIT" /\ (\/ stack[c] = t /\ pc[t] \in {"pick", "switch"}
                             \/ prev[c] = t)
         => wq[t] \in Queue /\ lock[wq[t]] = t

IInv == TypeOK /\ StateIsPlace /\ CpuInv /\ TaskInv /\ LockInv

(***************************************************************************)
(* Liveness.  A CPU that is inside the scheduler goes on (interrupts are   *)
(* off).  The timer interrupt is latched, so it is taken if interrupts are *)
(* enabled again and again; the timer of each CPU is periodic.  The raw    *)
(* spin lock is assumed not to starve a CPU.                               *)
(***************************************************************************)
Switching(c) == \/ InitThisCpu(c) \/ SleepPark(c) \/ MakeReady(c)
                \/ Schedule(c) \/ ContextSwitch(c) \/ FinishSwitch(c)

FairSpec ==
  /\ Spec
  /\ \A c \in Cpu : /\ WF_vars(Switching(c))
                    /\ SF_vars(Tick(c))
                    /\ SF_vars(WaitIf(c) \/ WaitRejected(c) \/ Wake(c))

Runs(t) == \E c \in Cpu : stack[c] = t

\* Whatever the other tasks do, a task in the ready queue gets a CPU: the queue is
\* FIFO and every slice ends.
ReadyRuns == \A t \in Thread : state[t] = "READY" ~> Runs(t)

\* A sleeping task is made ready again by the tick of some CPU.
SleeperWakes == \A t \in Thread : state[t] = "SLEEPING" ~> state[t] = "READY"
=============================================================================
