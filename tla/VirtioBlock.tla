---------------------------- MODULE VirtioBlock ----------------------------
(***************************************************************************)
(* Interrupt-driven requests of kor-virtio's VirtioBlock: the mutex        *)
(* op_lock (semaphore "op") around each request, and the semaphore         *)
(* "completion" that the interrupt handler posts.  A flush is polled, so   *)
(* the interrupt it raises leaves a token nobody waited for: a requester   *)
(* must look at the used ring each time it is woken.  Each step under the  *)
(* spin lock `inner` (interrupts off) is one action.                       *)
(***************************************************************************)
EXTENDS Semaphore

CONSTANTS Irq,        \* the interrupt handler, a task to the semaphores
          MaxStale    \* bound: flushes are started with fewer tokens than this

ASSUME VirtioAssumption ==
  /\ Irq \in Task
  /\ {"op", "completion"} \subseteq Sem
  /\ MaxStale \in Nat

VARIABLES
  stage,      \* where each task is in read_irq, write_irq, flush, handle_interrupt
  owner,   \* the task whose buffers the device holds
  used,    \* its request is in the used ring
  irq      \* the device's interrupt is raised

devVars == <<owner, used, irq>>
virtioVars == <<semVars, stage, devVars>>

Request == {"op", "submit", "wait", "check", "unlock"}
VirtioPoints == Request \cup {"idle", "flush_op", "flush", "post"}

VirtioTypeOK ==
  /\ SemTypeOK
  /\ stage \in [Task -> VirtioPoints]
  /\ owner \in Task \cup {None}
  /\ used \in BOOLEAN
  /\ irq \in BOOLEAN

VirtioInit ==
  /\ SemInit([s \in Sem |-> IF s = "op" THEN 1 ELSE 0])
  /\ stage = [t \in Task |-> "idle"]
  /\ owner = None /\ used = FALSE /\ irq = FALSE

VirtioGoto(t, point) == stage' = [stage EXCEPT ![t] = point]

\* read_blocks, write_blocks or flush is called.
VirtioCall(t) ==
  /\ stage[t] = "idle" /\ t # Irq
  /\ \/ VirtioGoto(t, "op")
     \/ count["completion"] < MaxStale /\ VirtioGoto(t, "flush_op")
  /\ UNCHANGED <<semVars, devVars>>

\* self.op_lock.lock()
OpLock(t) ==
  /\ stage[t] \in {"op", "flush_op"}
  /\ \/ Take(t, "op") /\ VirtioGoto(t, IF stage[t] = "op" THEN "submit" ELSE "flush")
     \/ Block(t, "op") /\ UNCHANGED stage
  /\ UNCHANGED devVars

\* read_blocks_nb or write_blocks_nb: the device gets the buffers, or it refuses.
Submit(t) ==
  /\ stage[t] = "submit"
  /\ \/ owner' = t /\ VirtioGoto(t, "wait")
     \/ UNCHANGED owner /\ VirtioGoto(t, "unlock")
  /\ UNCHANGED <<semVars, used, irq>>

\* self.completion.wait()
Wait(t) ==
  /\ stage[t] = "wait"
  /\ \/ Take(t, "completion") /\ VirtioGoto(t, "check")
     \/ Block(t, "completion") /\ UNCHANGED stage
  /\ UNCHANGED devVars

\* A slip: the token is taken for the completion.
CheckNothing(t) ==
  /\ stage[t] = "check"
  /\ VirtioGoto(t, "unlock")
  /\ UNCHANGED <<semVars, devVars>>

\* A slip: a request that is done is submitted again.
CheckAgain(t) ==
  /\ stage[t] = "check"
  /\ IF owner = t /\ used
     THEN owner' = None /\ used' = FALSE /\ VirtioGoto(t, "submit")
     ELSE VirtioGoto(t, "wait") /\ UNCHANGED <<owner, used>>
  /\ UNCHANGED <<semVars, irq>>

\* peek_used() == Some(token): the buffers come back; otherwise wait again.
Check(t) ==
  /\ stage[t] = "check"
  /\ IF owner = t /\ used
     THEN owner' = None /\ used' = FALSE /\ VirtioGoto(t, "unlock")
     ELSE VirtioGoto(t, "wait") /\ UNCHANGED <<owner, used>>
  /\ UNCHANGED <<semVars, irq>>

\* flush(): polled to its end under `inner`; the device raises its interrupt.
Flush(t) ==
  /\ stage[t] = "flush"
  /\ irq' = TRUE
  /\ VirtioGoto(t, "unlock")
  /\ UNCHANGED <<semVars, owner, used>>

\* The guard of op_lock is dropped.
VirtioUnlock(t) ==
  /\ stage[t] = "unlock"
  /\ Post(t, "op")
  /\ VirtioGoto(t, "idle")
  /\ UNCHANGED devVars

\* handle_interrupt: acknowledge, then post.
AckInterrupt ==
  /\ stage[Irq] = "idle" /\ irq
  /\ irq' = FALSE
  /\ VirtioGoto(Irq, "post")
  /\ UNCHANGED <<semVars, owner, used>>

PostCompletion ==
  /\ stage[Irq] = "post"
  /\ Post(Irq, "completion")
  /\ VirtioGoto(Irq, "idle")
  /\ UNCHANGED devVars

\* The device (external) finishes the request it holds.
Complete ==
  /\ owner # None /\ ~used
  /\ used' = TRUE /\ irq' = TRUE
  /\ UNCHANGED <<semVars, stage, owner>>

\* The steps of the scheduler on behalf of t.
VirtioSwitch(t) ==
  /\ Resume(t) \/ \E s \in Sem : Enqueue(t, s)
  /\ UNCHANGED <<stage, devVars>>

Handler == AckInterrupt \/ PostCompletion

VirtioStep(t) ==
  OpLock(t) \/ Submit(t) \/ Wait(t) \/ Check(t) \/ Flush(t) \/ VirtioUnlock(t) \/ VirtioSwitch(t)

VirtioNext == Handler \/ Complete \/ \E t \in Task : VirtioCall(t) \/ VirtioStep(t)

VirtioSpec == VirtioInit /\ [][VirtioNext]_virtioVars

(***************************************************************************)
(* Properties                                                              *)
(***************************************************************************)

\* "request, buffer, and response remain live and untouched until the matching
\* completion call": the device holds the buffers of exactly the task that is between
\* its submission and its completion in read_irq or write_irq, whatever stale tokens
\* the completion semaphore has.
BuffersLive == \A t \in Task : owner = t <=> stage[t] \in {"wait", "check"}

\* A requester sleeps on a request that the device has finished only while the
\* interrupt for it has still to be handled: no completion is lost between peek_used
\* and completion.wait().
NoLostCompletion ==
  used /\ phase[owner] \in {"blocking", "blocked"} => irq \/ stage[Irq] = "post"

(***************************************************************************)
(* The inductive invariant                                                 *)
(***************************************************************************)

\* The points under the guard of op_lock, and those at which a task may wait for s.
Inside == {"submit", "wait", "check", "flush", "unlock"}
WaitsAt(s) ==
  IF s = "op" THEN {"op", "flush_op"} ELSE IF s = "completion" THEN {"wait"} ELSE {}

\* The token of op_lock is in its semaphore, or with the one task inside.
OpToken ==
  /\ count["op"] <= 1
  /\ count["op"] = 1 => \A t \in Task : stage[t] \notin Inside
  /\ \A t, u \in Task : stage[t] \in Inside /\ stage[u] \in Inside => t = u
  /\ stage[Irq] \in {"idle", "post"}

\* A task sleeps only where it calls wait(), and on the list of what it waits for.
VirtioWaiting ==
  /\ \A s \in Sem :
       /\ IsInjective(list[s])
       /\ \A t \in Range(list[s]) : phase[t] = "blocked" /\ stage[t] \in WaitsAt(s)
       /\ lock[s] # None => phase[lock[s]] = "blocking" /\ stage[lock[s]] \in WaitsAt(s)
  /\ \A t \in Task :
       /\ phase[t] # "run" => stage[t] \in WaitsAt("op") \cup WaitsAt("completion")
       /\ stage[t] = "wait" /\ phase[t] = "blocking" => lock["completion"] = t
       /\ stage[t] = "wait" /\ phase[t] = "blocked" => t \in Range(list["completion"])

\* The requester does not sleep while there is a token for it, and a request that the
\* device has finished is announced until its requester looks at the used ring.
Announced ==
  /\ \A t \in Task :
       stage[t] = "wait" /\ phase[t] \in {"blocking", "blocked"} => count["completion"] = 0
  /\ used => /\ owner # None
             /\ irq \/ stage[Irq] = "post" \/ count["completion"] > 0 \/ stage[owner] = "check"

VirtioInv == VirtioTypeOK /\ OpToken /\ BuffersLive /\ VirtioWaiting /\ Announced

(***************************************************************************)
(* Liveness: the device finishes requests, interrupts are taken, and tasks *)
(* go on when they can.                                                    *)
(***************************************************************************)
VirtioFairSpec ==
  /\ VirtioSpec
  /\ WF_virtioVars(Complete) /\ SF_virtioVars(Handler)
  /\ \A t \in Task : /\ SF_virtioVars(OpLock(t)) /\ SF_virtioVars(Wait(t))
                     /\ SF_virtioVars(VirtioUnlock(t))
                     /\ WF_virtioVars(Submit(t) \/ Check(t) \/ Flush(t) \/ VirtioSwitch(t))

\* Every request returns once no new ones come: in particular no requester sleeps on
\* a completion that was announced while it was consuming a stale token.
RequestReturns ==
  <>[][\A t \in Task : ~VirtioCall(t)]_virtioVars =>
    \A t \in Task : stage[t] \in Request ~> stage[t] = "idle"
=============================================================================
