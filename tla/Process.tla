------------------------------ MODULE Process ------------------------------
(***************************************************************************)
(* korix processes: clone, execve, exit, wait4, signals and futexes        *)
(* (apps/korix/src/sched/mod.rs, syscall/mod.rs and the trap handlers).    *)
(*                                                                         *)
(* A process has exactly one task, so its number names both.  One action   *)
(* is one section under the process lock or under PROCESSES; several       *)
(* processes run at once, on several CPUs.  The two semaphores of a        *)
(* process have one waiter, its own task, so a count is enough here (the   *)
(* semaphore itself is module Semaphore).                                  *)
(***************************************************************************)
EXTENDS Naturals, Sequences

CONSTANTS MaxPid,      \* bound on NEXT_PID
          Signal,      \* the signals in use, members of 1..64
          Handlers,    \* the caught actions that sigaction may install
          Masks,       \* the masks that sigprocmask and sigsuspend may be given
          Programs,    \* how many processes there will be, and which calls each makes
          MaxTokens,   \* bound on the unconsumed tokens of signal_events
          MaxFrames,   \* bound on nested handlers: the user stack
          Arch         \* "x86_64", "riscv64" or "aarch64"

SIGKILL == 9
SIGCHLD == 17
SIGSTOP == 19
UNBLOCKABLE_MASK == {SIGKILL, SIGSTOP}

Pid == 1..MaxPid
Calls == {"clone", "execve", "wait4", "kill", "sigaction", "sigprocmask", "sigsuspend",
          "sigreturn", "futex"}
SIG_DFL == [handler |-> "DFL", mask |-> {}, nodefer |-> FALSE, resethand |-> FALSE, restorer |-> FALSE]
SIG_IGN == [SIG_DFL EXCEPT !.handler = "IGN"]
SignalAction == [handler : {"DFL", "IGN", "caught"}, mask : SUBSET Signal, nodefer : BOOLEAN,
                 resethand : BOOLEAN, restorer : BOOLEAN]

ASSUME ProcessAssumption ==
  /\ MaxPid \in Nat \ {0}
  /\ Signal \subseteq 1..64
  /\ Handlers \subseteq {a \in SignalAction : a.handler = "caught"}
  /\ Masks \subseteq SUBSET Signal
  /\ \A prog \in Programs : \E n \in Pid : prog \in [1..n -> SUBSET Calls]
  /\ Arch \in {"x86_64", "riscv64", "aarch64"}

VARIABLES next,        \* NEXT_PID
          processes,   \* the keys of PROCESSES
          parent,      \* ProcessState.parent
          zombie,      \* ProcessState.state is STATE_ZOMBIE
          childEvents, \* ProcessState.child_events: its count
          signalEvents,\* ProcessState.signal_events: its count
          actions, blocked, pending,    \* SignalState
          frames,      \* the masks in the signal frames on the user stack
          program,     \* the programs that run, a member of Programs
          pc,          \* where the task is
          arg          \* the locals of the system call it is in

procVars   == <<next, processes, parent, zombie>>
eventVars  == <<childEvents, signalEvents>>
signalVars == <<actions, blocked, pending, frames>>
vars == <<procVars, eventVars, signalVars, program, pc, arg>>

Points == {"none", "born", "user", "clone", "spawn", "scan", "reap", "wait", "suspend",
           "futex", "leave", "exit", "notify", "gone"}

\* The locals: the child being made or reaped; wait4's pid (0 for -1) and
\* WNOHANG; sigsuspend's saved mask and, for clone, the parent's SignalState.
NoArg == [child |-> 0, requested |-> 0, nohang |-> FALSE, old |-> {}]

TypeOK ==
  /\ next \in Pid
  /\ processes \in SUBSET Pid
  /\ parent \in [Pid -> 0..MaxPid]
  /\ zombie \in [Pid -> BOOLEAN]
  /\ childEvents \in [Pid -> Nat] /\ signalEvents \in [Pid -> Nat]
  /\ actions \in [Pid -> [Signal -> SignalAction]]
  /\ blocked \in [Pid -> SUBSET Signal] /\ pending \in [Pid -> SUBSET Signal]
  /\ frames \in [Pid -> Seq(SUBSET Signal)]
  /\ program \in Programs
  /\ pc \in [Pid -> Points]
  /\ arg \in [Pid -> [child : 0..MaxPid, requested : 0..MaxPid, nohang : BOOLEAN,
                      old : SUBSET Signal]]

\* SignalState::new
NewActions == [s \in Signal |-> SIG_DFL]

\* sched::init and spawn_init: process 1 has entered user mode.
Init ==
  /\ next = 1 /\ processes = {1}
  /\ parent = [p \in Pid |-> 0]
  /\ zombie = [p \in Pid |-> FALSE]
  /\ childEvents = [p \in Pid |-> 0] /\ signalEvents = [p \in Pid |-> 0]
  /\ actions = [p \in Pid |-> NewActions]
  /\ blocked = [p \in Pid |-> {}] /\ pending = [p \in Pid |-> {}]
  /\ frames = [p \in Pid |-> <<>>]
  /\ program \in Programs
  /\ pc = [p \in Pid |-> IF p = 1 THEN "user" ELSE "none"]
  /\ arg = [p \in Pid |-> NoArg]

Lowest(S) == {x \in S : \A y \in S : x <= y}

Goto(p, point) == pc' = [pc EXCEPT ![p] = point]
At(p, point) == pc[p] = point

(***************************************************************************)
(* fork                                                                    *)
(***************************************************************************)

\* sys_clone up to alloc_process: the parent's state is copied (nobody but its own
\* task changes the part that is copied) and the child is in PROCESSES, with the
\* SignalState::new of ProcessState::new.
Clone(p) ==
  /\ At(p, "user") /\ next + 1 \in DOMAIN program
  /\ next' = next + 1
  /\ processes' = processes \cup {next + 1}
  /\ parent' = [parent EXCEPT ![next + 1] = p]
  /\ arg' = [arg EXCEPT ![p] = [NoArg EXCEPT !.child = next + 1]]
  /\ Goto(p, "clone")
  /\ UNCHANGED <<zombie, eventVars, signalVars>>

\* The section that fills the child in: signals.fork_clone() replaces what the child
\* had, a signal sent to it since alloc_process included.  The forked user stack
\* holds the parent's signal frames.
CloneFill(p) ==
  LET c == arg[p].child IN
  /\ At(p, "clone")
  /\ actions' = [actions EXCEPT ![c] = actions[p]]
  /\ blocked' = [blocked EXCEPT ![c] = blocked[p]]
  /\ pending' = [pending EXCEPT ![c] = {}]
  /\ frames' = [frames EXCEPT ![c] = frames[p]]
  /\ Goto(p, "spawn")
  /\ UNCHANGED <<procVars, eventVars, arg>>

\* spawn_process: the child's task exists, and the call returns its pid.
Spawn(p) ==
  /\ At(p, "spawn")
  /\ pc' = [pc EXCEPT ![p] = "leave", ![arg[p].child] = "born"]
  /\ arg' = [arg EXCEPT ![p] = NoArg]
  /\ UNCHANGED <<procVars, eventVars, signalVars>>

\* fork_child_entry: straight to user mode, past the trap epilogue.
ForkChildEntry(c) ==
  /\ At(c, "born")
  /\ Goto(c, "user")
  /\ UNCHANGED <<procVars, eventVars, signalVars, arg>>

(***************************************************************************)
(* exec and exit                                                           *)
(***************************************************************************)

\* SignalState::reset_for_exec; the new image has no signal frames.
Execve(p) ==
  /\ At(p, "user")
  /\ actions' = [actions EXCEPT ![p] = [s \in Signal |-> IF @[s].handler = "IGN" THEN @[s] ELSE SIG_DFL]]
  /\ pending' = [pending EXCEPT ![p] = {}]
  /\ frames' = [frames EXCEPT ![p] = <<>>]
  /\ Goto(p, "leave")
  /\ UNCHANGED <<procVars, eventVars, blocked, arg>>

\* exit, exit_group, the exit vector and, on aarch64, a fault in user mode.
Exit(p) ==
  /\ At(p, "user")
  /\ Goto(p, "exit")
  /\ UNCHANGED <<procVars, eventVars, signalVars, arg>>

\* exit_current, the section under the process's own lock.
ExitCurrent(p) ==
  /\ At(p, "exit")
  /\ zombie' = [zombie EXCEPT ![p] = TRUE]
  /\ Goto(p, "notify")
  /\ UNCHANGED <<next, processes, parent, eventVars, signalVars, arg>>

\* The tasks queued on the futexes of p: the queue's key has the pid.
FutexWaiters(p) == {q \in Pid : q = p /\ At(q, "futex")}

\* SignalState::enqueue and the post of signal_events, in one section.
Enqueue(p, s) ==
  /\ pending' = [pending EXCEPT ![p] = @ \cup ({s} \cap Signal)]
  /\ signalEvents' = [signalEvents EXCEPT ![p] = @ + 1]

\* A slip: the parent is told of the signal but not of the child.
ExitNotifySignal(p) ==
  /\ At(p, "notify")
  /\ IF parent[p] # 0 /\ parent[p] \in processes
     THEN Enqueue(parent[p], SIGCHLD) /\ UNCHANGED childEvents
     ELSE UNCHANGED <<eventVars, pending>>
  /\ Goto(p, "gone")
  /\ UNCHANGED <<procVars, actions, blocked, frames, arg>>

\* The rest of exit_current: clear_child_tid wakes the process's own futex, the
\* parent is told if it is still in PROCESSES (its children are never given a new
\* parent), and the task ends.
ExitNotify(p) ==
  /\ At(p, "notify")
  /\ IF parent[p] # 0 /\ parent[p] \in processes
     THEN /\ childEvents' = [childEvents EXCEPT ![parent[p]] = @ + 1]
          /\ Enqueue(parent[p], SIGCHLD)
     ELSE UNCHANGED <<eventVars, pending>>
  /\ pc' = [q \in Pid |-> IF q = p THEN "gone" ELSE IF q \in FutexWaiters(p) THEN "leave" ELSE pc[q]]
  /\ UNCHANGED <<procVars, actions, blocked, frames, arg>>

(***************************************************************************)
(* wait4                                                                   *)
(***************************************************************************)

\* sys_wait4's arguments; requested 0 stands for -1, any child.
Wait4(p, requested, nohang) ==
  /\ At(p, "user")
  /\ arg' = [arg EXCEPT ![p] = [NoArg EXCEPT !.requested = requested, !.nohang = nohang]]
  /\ Goto(p, "scan")
  /\ UNCHANGED <<procVars, eventVars, signalVars>>

Matches(p, c) == parent[c] = p /\ arg[p].requested \in {0, c}

Zombies(p) == {c \in processes : Matches(p, c) /\ zombie[c]}

\* matching_zombie: the first in pid order, found with PROCESSES locked.
MatchingZombie(p) ==
  /\ At(p, "scan")
  /\ \/ \E c \in Lowest(Zombies(p)) : arg' = [arg EXCEPT ![p].child = c] /\ Goto(p, "reap")
     \/ Zombies(p) = {} /\ arg[p].nohang /\ arg' = [arg EXCEPT ![p] = NoArg] /\ Goto(p, "leave")
     \/ Zombies(p) = {} /\ ~arg[p].nohang /\ Goto(p, "wait") /\ UNCHANGED arg
  /\ UNCHANGED <<procVars, eventVars, signalVars>>

\* A slip: the child is removed before its status is written, and the call starts over.
ReapLate(p) ==
  /\ At(p, "reap")
  /\ \E faulted \in BOOLEAN :
       /\ Goto(p, IF faulted THEN "reap" ELSE "leave")
       /\ processes' = processes \ {arg[p].child}
       /\ arg' = IF faulted THEN arg ELSE [arg EXCEPT ![p] = NoArg]
  /\ UNCHANGED <<next, parent, zombie, eventVars, signalVars>>

\* The status is written, which may fault, and then the child is removed.
Reap(p) ==
  /\ At(p, "reap")
  /\ \E faulted \in BOOLEAN :
       processes' = IF faulted THEN processes ELSE processes \ {arg[p].child}
  /\ arg' = [arg EXCEPT ![p] = NoArg]
  /\ Goto(p, "leave")
  /\ UNCHANGED <<next, parent, zombie, eventVars, signalVars>>

\* events.wait() takes a token and the loop looks again.
WaitChild(p) ==
  /\ At(p, "wait") /\ childEvents[p] > 0
  /\ childEvents' = [childEvents EXCEPT ![p] = @ - 1]
  /\ Goto(p, "scan")
  /\ UNCHANGED <<procVars, signalEvents, signalVars, arg>>

(***************************************************************************)
(* Signals                                                                 *)
(***************************************************************************)

\* A slip: the signal is recorded but a sleeper is not woken.
KillQuiet(p, q, s) ==
  /\ At(p, "user") /\ q \in processes /\ signalEvents[q] < MaxTokens
  /\ pending' = [pending EXCEPT ![q] = @ \cup {s}]
  /\ Goto(p, "leave")
  /\ UNCHANGED <<procVars, eventVars, actions, blocked, frames, arg>>

\* sys_kill of a process in PROCESSES, which may be a zombie.
Kill(p, q, s) ==
  /\ At(p, "user") /\ q \in processes /\ signalEvents[q] < MaxTokens
  /\ Enqueue(q, s)
  /\ Goto(p, "leave")
  /\ UNCHANGED <<procVars, childEvents, actions, blocked, frames, arg>>

SigAction(p, s, a) ==
  /\ At(p, "user") /\ s \notin UNBLOCKABLE_MASK
  /\ actions' = [actions EXCEPT ![p][s] = [a EXCEPT !.mask = @ \ UNBLOCKABLE_MASK]]
  /\ Goto(p, "leave")
  /\ UNCHANGED <<procVars, eventVars, blocked, pending, frames, arg>>

Hows == {"BLOCK", "UNBLOCK", "SETMASK"}

SigProcMask(p, how, set) ==
  /\ At(p, "user")
  /\ LET requested == set \ UNBLOCKABLE_MASK IN
     blocked' = [blocked EXCEPT ![p] = CASE how = "BLOCK"   -> @ \cup requested
                                         [] how = "UNBLOCK" -> @ \ requested
                                         [] how = "SETMASK" -> requested]
  /\ Goto(p, "leave")
  /\ UNCHANGED <<procVars, eventVars, actions, pending, frames, arg>>

Deliverable(p) == pending[p] \ blocked[p]

\* sys_rt_sigsuspend: under the lock the new mask is tried; a signal it lets through
\* ends the call at once, with the old mask back.
SigSuspend(p, mask) ==
  LET requested == mask \ UNBLOCKABLE_MASK IN
  /\ At(p, "user")
  /\ IF pending[p] \ requested # {}
     THEN Goto(p, "leave") /\ UNCHANGED <<blocked, arg>>
     ELSE /\ blocked' = [blocked EXCEPT ![p] = requested]
          /\ arg' = [arg EXCEPT ![p] = [NoArg EXCEPT !.old = blocked[p]]]
          /\ Goto(p, "suspend")
  /\ UNCHANGED <<procVars, eventVars, actions, pending, frames>>

\* A slip: the temporary mask stays.
SigSuspendEndMasked(p) ==
  /\ At(p, "suspend") /\ signalEvents[p] > 0
  /\ signalEvents' = [signalEvents EXCEPT ![p] = @ - 1]
  /\ Goto(p, "leave")
  /\ arg' = [arg EXCEPT ![p] = NoArg]
  /\ UNCHANGED <<procVars, childEvents, signalVars>>

\* A token arrives, possibly one of a signal long handled; the old mask comes back
\* before the epilogue looks at the pending signals.
SigSuspendEnd(p) ==
  /\ At(p, "suspend") /\ signalEvents[p] > 0
  /\ signalEvents' = [signalEvents EXCEPT ![p] = @ - 1]
  /\ blocked' = [blocked EXCEPT ![p] = arg[p].old]
  /\ arg' = [arg EXCEPT ![p] = NoArg]
  /\ Goto(p, "leave")
  /\ UNCHANGED <<procVars, childEvents, actions, pending, frames>>

\* sys_rt_sigreturn with a frame on the stack; without one the process ends (139).
SigReturn(p) ==
  /\ At(p, "user")
  /\ IF frames[p] = <<>>
     THEN Goto(p, "exit") /\ UNCHANGED <<blocked, frames>>
     ELSE /\ blocked' = [blocked EXCEPT ![p] = Head(frames[p]) \ UNBLOCKABLE_MASK]
          /\ frames' = [frames EXCEPT ![p] = Tail(@)]
          /\ Goto(p, "leave")
  /\ UNCHANGED <<procVars, eventVars, actions, pending, arg>>

\* signal_restorer; ensure_signal_restorer may find no frame for its page.
HasRestorer(a) ==
  CASE Arch = "x86_64"  -> {a.restorer}
    [] Arch = "aarch64" -> IF a.restorer THEN {TRUE} ELSE BOOLEAN
    [] Arch = "riscv64" -> BOOLEAN

Ignored(s, a) == a.handler = "IGN" \/ (a.handler = "DFL" /\ s = SIGCHLD)

\* The frame holds the mask at the time (make_ucontext), and it must fit the stack.
PushFrame(p, s, a) ==
  /\ frames' = [frames EXCEPT ![p] = <<blocked[p]>> \o @]
  /\ actions' = [actions EXCEPT ![p][s] = IF a.resethand THEN SIG_DFL ELSE @]
  /\ blocked' = [blocked EXCEPT ![p] = (@ \cup a.mask \cup (IF a.nodefer THEN {} ELSE {s}))
                                         \ UNBLOCKABLE_MASK]

\* An iteration of the loop of korix_deliver_pending_signal: the lowest signal that is
\* not blocked is ignored, ends the process (as does a frame that cannot be made) or
\* is caught.
Deliver(p) ==
  \E s \in Lowest(Deliverable(p)) :
    LET a == actions[p][s] IN
    /\ pending' = [pending EXCEPT ![p] = @ \ {s}]
    /\ \/ Ignored(s, a) /\ UNCHANGED <<actions, blocked, frames, pc>>
       \/ /\ ~Ignored(s, a)
          /\ a.handler = "DFL" \/ Len(frames[p]) = MaxFrames \/ FALSE \in HasRestorer(a)
          /\ Goto(p, "exit") /\ UNCHANGED <<actions, blocked, frames>>
       \/ /\ a.handler = "caught" /\ Len(frames[p]) < MaxFrames /\ TRUE \in HasRestorer(a)
          /\ PushFrame(p, s, a) /\ Goto(p, "user")
    /\ UNCHANGED <<procVars, eventVars, arg>>

\* handle_syscall (x86_64) after dispatch: user_trap_status, then user mode.
LeaveSyscall(p) ==
  /\ At(p, "leave")
  /\ \/ Deliver(p)
     \/ Deliverable(p) = {} /\ Goto(p, "user") /\ UNCHANGED <<procVars, eventVars, signalVars, arg>>

\* trap_dispatch of riscv64 and aarch64, and of x86_64 for int 0x80: the call
\* returns to user mode and nothing looks at the pending signals.
LeaveTrap(p) ==
  /\ At(p, "leave")
  /\ Goto(p, "user")
  /\ UNCHANGED <<procVars, eventVars, signalVars, arg>>

Leave(p) == IF Arch = "x86_64" THEN LeaveSyscall(p) ELSE LeaveTrap(p)

(***************************************************************************)
(* Futexes                                                                 *)
(***************************************************************************)

\* FUTEX_WAIT whose word has the expected value: the task queues under its own pid.
FutexWait(p) ==
  /\ At(p, "user")
  /\ Goto(p, "futex")
  /\ UNCHANGED <<procVars, eventVars, signalVars, arg>>

\* FUTEX_WAKE, likewise under the caller's pid.
FutexWake(p) ==
  /\ At(p, "user")
  /\ pc' = [q \in Pid |-> IF q = p \/ q \in FutexWaiters(p) THEN "leave" ELSE pc[q]]
  /\ UNCHANGED <<procVars, eventVars, signalVars, arg>>

\* Every other call, and every call that fails before it changes anything.
OtherCall(p) ==
  /\ At(p, "user")
  /\ Goto(p, "leave")
  /\ UNCHANGED <<procVars, eventVars, signalVars, arg>>

(***************************************************************************)
(* The system                                                              *)
(***************************************************************************)

\* dispatch_inner: the calls of process p.
Syscall(p) ==
  \/ Exit(p) \/ OtherCall(p)
  \/ "clone" \in program[p] /\ Clone(p)
  \/ "execve" \in program[p] /\ Execve(p)
  \/ "wait4" \in program[p] /\ \E c \in 0..MaxPid, nohang \in BOOLEAN : Wait4(p, c, nohang)
  \/ "kill" \in program[p] /\ \E q \in Pid, s \in Signal : Kill(p, q, s)
  \/ "sigaction" \in program[p]
     /\ \E s \in Signal, a \in Handlers \cup {SIG_DFL, SIG_IGN} : SigAction(p, s, a)
  \/ "sigprocmask" \in program[p] /\ \E how \in Hows, set \in Masks : SigProcMask(p, how, set)
  \/ "sigsuspend" \in program[p] /\ \E mask \in Masks : SigSuspend(p, mask)
  \/ "sigreturn" \in program[p] /\ SigReturn(p)
  \/ "futex" \in program[p] /\ (FutexWait(p) \/ FutexWake(p))

\* What the kernel goes on to do on behalf of p.
Kernel(p) ==
  \/ CloneFill(p) \/ Spawn(p) \/ ForkChildEntry(p) \/ ExitCurrent(p) \/ ExitNotify(p)
  \/ MatchingZombie(p) \/ Reap(p) \/ WaitChild(p) \/ SigSuspendEnd(p) \/ Leave(p)

Next == (\E p \in DOMAIN program : Syscall(p) \/ Kernel(p)) /\ UNCHANGED program

Spec == Init /\ [][Next]_vars

\* A CPU gets to every task that can go on in the kernel (ReadyRuns of module Sched).
FairSpec == Spec /\ \A p \in Pid : WF_vars(Kernel(p) /\ UNCHANGED program)

(***************************************************************************)
(* Properties                                                              *)
(***************************************************************************)

\* No wakeup is lost.  A parent asleep in wait4 has a token coming for every zombie
\* it waits for, from the child's exit_current, which marks the zombie and posts in
\* two sections; a process asleep in sigsuspend has one for every signal its mask
\* lets through, although tokens are also taken by earlier calls and left by
\* children reaped before they posted.
NoLostWakeup ==
  \A p \in Pid :
    /\ At(p, "wait") => \A c \in Zombies(p) : At(c, "notify") \/ childEvents[p] > 0
    /\ At(p, "suspend") /\ Deliverable(p) # {} => signalEvents[p] > 0

\* wait4's expect("zombie disappeared while reaping") and exit_current's
\* expect("exiting task is not a process") never fail: the zombie found stays in
\* PROCESSES until this very parent removes it, once, and a process that is not a
\* zombie yet is always listed.
TableIsSound ==
  \A p \in Pid :
    /\ At(p, "reap") => arg[p].child \in Zombies(p)
    /\ pc[p] \notin {"none", "notify", "gone"} => p \in processes /\ ~zombie[p]

\* The mask the program itself set, under whatever handlers and sigsuspends are
\* in progress.
OwnMask(p) ==
  IF frames[p] # <<>> THEN frames[p][Len(frames[p])]
  ELSE IF At(p, "suspend") THEN arg[p].old ELSE blocked[p]

\* Only the program's own sigprocmask, outside handlers, changes its mask for good:
\* every nest of handlers and sigsuspends gives it back.  execve keeps the mask in
\* force at the time, and a child starts with its parent's.
MaskIsKept ==
  [][\A p \in Pid :
       OwnMask(p)' # OwnMask(p) =>
         \/ At(p, "none")
         \/ Execve(p)
         \/ frames[p] = <<>> /\ \E how \in Hows, set \in Masks : SigProcMask(p, how, set)]_vars

\* A parent asleep in wait4 gets to a zombie it waits for.
ZombieIsReaped ==
  \A p \in Pid : At(p, "wait") /\ Zombies(p) # {} ~> At(p, "reap")

\* A number not given out yet is unused; a child that is being made is in the table,
\* under the parent that makes it, and has not run.
Birth ==
  \A p \in Pid :
    /\ p > next => At(p, "none") /\ p \notin processes /\ ~zombie[p]
    /\ pc[p] \in {"clone", "spawn"} =>
         /\ arg[p].child \in processes /\ parent[arg[p].child] = p
         /\ At(arg[p].child, "none") /\ ~zombie[arg[p].child]

\* SIGKILL and SIGSTOP are in no mask, in force or saved.
NeverBlocked ==
  \A p \in Pid :
    /\ blocked[p] \cap UNBLOCKABLE_MASK = {} /\ arg[p].old \cap UNBLOCKABLE_MASK = {}
    /\ \A i \in DOMAIN frames[p] : frames[p][i] \cap UNBLOCKABLE_MASK = {}

\* The inductive invariant.
IInv == TypeOK /\ NoLostWakeup /\ TableIsSound /\ Birth /\ NeverBlocked
=============================================================================
