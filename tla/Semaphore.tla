----------------------------- MODULE Semaphore -----------------------------
(***************************************************************************)
(* The counting semaphores of base/kor-sched, as their callers see them:   *)
(* the scheduler (module Sched) is reduced to what it promises.  A task    *)
(* that finds the count at zero keeps the raw lock of the wait queue       *)
(* ("blocking") until finish_switch has queued it ("blocked"); a post pops *)
(* the first waiter ("woken"), which runs again when a CPU gets to it and  *)
(* then checks the count once more: a token is taken, never handed over.   *)
(***************************************************************************)
EXTENDS Naturals, Sequences, FiniteSets, Functions

CONSTANTS Task, Sem, None

ASSUME SemaphoreAssumption == None \notin Task

VARIABLES count, lock, list,   \* Semaphore.count; its WaitQueue's lock and list
          phase                \* what the scheduler does with each task

semVars == <<count, lock, list, phase>>

Phases == {"run", "blocking", "blocked", "woken"}

SemTypeOK ==
  /\ count \in [Sem -> Nat]
  /\ lock \in [Sem -> Task \cup {None}]
  /\ list \in [Sem -> Seq(Task)]
  /\ phase \in [Task -> Phases]

\* Semaphore::new(initial)
SemInit(initial) ==
  /\ count = initial
  /\ lock = [s \in Sem |-> None]
  /\ list = [s \in Sem |-> <<>>]
  /\ phase = [t \in Task |-> "run"]

\* A slip: the count is checked with >= 0.
TakeNone(t, s) ==
  /\ phase[t] = "run" /\ lock[s] = None
  /\ count' = [count EXCEPT ![s] = @ - 1]
  /\ UNCHANGED <<lock, list, phase>>

\* An iteration of the loop of wait() that takes a token and returns ...
Take(t, s) ==
  /\ phase[t] = "run" /\ lock[s] = None
  /\ count[s] > 0
  /\ count' = [count EXCEPT ![s] = @ - 1]
  /\ UNCHANGED <<lock, list, phase>>

\* ... and one that blocks; the raw lock stays with the task.
Block(t, s) ==
  /\ phase[t] = "run" /\ lock[s] = None
  /\ count[s] <= 0
  /\ lock' = [lock EXCEPT ![s] = t]
  /\ phase' = [phase EXCEPT ![t] = "blocking"]
  /\ UNCHANGED <<count, list>>

\* finish_switch (TO_WAIT): the task is queued and the raw lock released.
Enqueue(t, s) ==
  /\ phase[t] = "blocking" /\ lock[s] = t
  /\ list' = [list EXCEPT ![s] = Append(@, t)]
  /\ lock' = [lock EXCEPT ![s] = None]
  /\ phase' = [phase EXCEPT ![t] = "blocked"]
  /\ UNCHANGED count

\* A slip: nobody is woken.
PostOnly(t, s) ==
  /\ phase[t] = "run" /\ lock[s] = None
  /\ count' = [count EXCEPT ![s] = @ + 1]
  /\ UNCHANGED <<lock, list, phase>>

\* post(): one more token, and the first waiter is popped.
Post(t, s) ==
  /\ phase[t] = "run" /\ lock[s] = None
  /\ count' = [count EXCEPT ![s] = @ + 1]
  /\ IF list[s] = <<>>
     THEN UNCHANGED <<list, phase>>
     ELSE /\ list' = [list EXCEPT ![s] = Tail(@)]
          /\ phase' = [phase EXCEPT ![Head(list[s])] = "woken"]
  /\ UNCHANGED lock

\* make_ready, and a CPU resumes the task: back at the head of the loop.
Resume(t) ==
  /\ phase[t] = "woken"
  /\ phase' = [phase EXCEPT ![t] = "run"]
  /\ UNCHANGED <<count, lock, list>>
=============================================================================
