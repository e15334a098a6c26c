------------------------------- MODULE Mutex -------------------------------
(***************************************************************************)
(* Mutex2 and sync::Mutex: a semaphore of one token, taken by lock() and   *)
(* posted by unlock(), or when the MutexGuard is dropped.                  *)
(***************************************************************************)
EXTENDS Semaphore

CONSTANT m    \* the mutex's semaphore

ASSUME MutexAssumption == m \in Sem

VARIABLE guard   \* "out", "lock" (inside lock()) or "in" (holding the guard)

mutexVars == <<semVars, guard>>

MutexTypeOK == SemTypeOK /\ guard \in [Task -> {"out", "lock", "in"}]

MutexInit == SemInit([s \in Sem |-> 1]) /\ guard = [t \in Task |-> "out"]

MutexGoto(t, point) == guard' = [guard EXCEPT ![t] = point]

MutexCall(t) == guard[t] = "out" /\ MutexGoto(t, "lock") /\ UNCHANGED semVars

MutexLock(t)   == guard[t] = "lock" /\ Take(t, m) /\ MutexGoto(t, "in")
MutexBlock(t)  == guard[t] = "lock" /\ Block(t, m) /\ UNCHANGED guard
MutexUnlock(t) == guard[t] = "in" /\ Post(t, m) /\ MutexGoto(t, "out")

\* The steps of the scheduler on behalf of t.
MutexSwitch(t) == (Enqueue(t, m) \/ Resume(t)) /\ UNCHANGED guard

MutexStep(t) == MutexLock(t) \/ MutexBlock(t) \/ MutexUnlock(t) \/ MutexSwitch(t)

MutexNext == \E t \in Task : MutexCall(t) \/ MutexStep(t)

MutexSpec == MutexInit /\ [][MutexNext]_mutexVars

(***************************************************************************)
(* Properties                                                              *)
(***************************************************************************)

\* Two guards of the same mutex never exist at once (MutexGuard::deref_mut hands
\* out &mut under this assumption): the token is taken before it is posted again,
\* although a post only wakes a waiter and the token may go to another task.
MutualExclusion == \A s, t \in Task : guard[s] = "in" /\ guard[t] = "in" => s = t

\* No lost wakeup: a free mutex does not leave its waiters asleep.  Whenever the
\* token is there and tasks are queued, one of the tasks inside lock() is awake or
\* about to be, and will look at the count again.
FreeIsNoticed ==
  count[m] > 0 /\ list[m] # <<>> =>
    \E t \in Task : guard[t] = "lock" /\ phase[t] \in {"woken", "run"}

\* The inductive invariant behind both: the token is either in the semaphore or with
\* the one task inside; the queue holds exactly the blocked callers, once each.
Token ==
  /\ count[m] \in {0, 1}
  /\ \A t \in Task : guard[t] = "in" => count[m] = 0
  /\ MutualExclusion

Waiting ==
  /\ \A t \in Task : phase[t] # "run" => guard[t] = "lock"
  /\ \A t \in Task : phase[t] = "blocked" <=> t \in Range(list[m])
  /\ \A t \in Task : phase[t] = "blocking" <=> lock[m] = t
  /\ lock[m] # None => count[m] = 0
  /\ IsInjective(list[m])

MutexInv == MutexTypeOK /\ Token /\ Waiting /\ FreeIsNoticed

(***************************************************************************)
(* Liveness: a task inside lock() or unlock() goes on when it can, and the *)
(* raw spin lock does not pass it by for ever.                             *)
(***************************************************************************)
MutexFairSpec == /\ MutexSpec
            /\ \A t \in Task : /\ WF_mutexVars(MutexSwitch(t))
                               /\ SF_mutexVars(MutexLock(t) \/ MutexBlock(t)) /\ SF_mutexVars(MutexUnlock(t))

\* Every lock() returns once no new callers come: a post wakes one waiter, and the
\* token it finds gone was taken by a task whose own unlock wakes the next.  (While
\* new callers come, they may overtake a woken task for ever: the token is not
\* handed over.)
LockReturns ==
  <>[][\A t \in Task : ~MutexCall(t)]_mutexVars => \A t \in Task : guard[t] = "lock" ~> guard[t] = "in"
=============================================================================
