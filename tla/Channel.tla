------------------------------ MODULE Channel ------------------------------
(***************************************************************************)
(* sync::Channel: a VecDeque behind a blocking Mutex (semaphore "queue")   *)
(* and a semaphore "items" that counts what is in it.  send() pushes under *)
(* the mutex and then posts "items"; recv() takes a token of "items" first *)
(* and then pops under the mutex, trusting the token.                      *)
(***************************************************************************)
EXTENDS Semaphore

CONSTANTS Sender, Receiver,
          MaxItems      \* bound: how many items each sender sends

ASSUME ChannelAssumption ==
  /\ Task = Sender \cup Receiver
  /\ Sender \cap Receiver = {}
  /\ IsFiniteSet(Task)
  /\ {"queue", "items"} \subseteq Sem
  /\ MaxItems \in Nat

VARIABLES queue, pc,    \* the VecDeque; where each task is in send() or recv()
          sent, got     \* history: items pushed per sender, popped per receiver

vars == <<semVars, queue, pc, sent, got>>

Points == {"idle", "lock", "in", "unlock", "post", "items"}

TypeOK ==
  /\ SemTypeOK
  /\ queue \in Seq(Sender \X (1..MaxItems))
  /\ pc \in [Task -> Points]
  /\ sent \in [Sender -> 0..MaxItems]
  /\ got \in [Receiver -> Seq(Sender \X (1..MaxItems))]

Init ==
  /\ SemInit([s \in Sem |-> IF s = "queue" THEN 1 ELSE 0])
  /\ queue = <<>>
  /\ pc = [t \in Task |-> "idle"]
  /\ sent = [s \in Sender |-> 0]
  /\ got = [r \in Receiver |-> <<>>]

Goto(t, point) == pc' = [pc EXCEPT ![t] = point]

\* send() and recv() are called.
Call(t) ==
  /\ pc[t] = "idle"
  /\ \/ t \in Sender /\ sent[t] < MaxItems /\ Goto(t, "lock")
     \/ t \in Receiver /\ Goto(t, "items")
  /\ UNCHANGED <<semVars, queue, sent, got>>

\* recv: self.items.wait()
TakeItem(t) ==
  /\ pc[t] = "items"
  /\ \/ Take(t, "items") /\ Goto(t, "lock")
     \/ Block(t, "items") /\ UNCHANGED pc
  /\ UNCHANGED <<queue, sent, got>>

\* send and recv: self.queue.lock()
Lock(t) ==
  /\ pc[t] = "lock"
  /\ \/ Take(t, "queue") /\ Goto(t, "in")
     \/ Block(t, "queue") /\ UNCHANGED pc
  /\ UNCHANGED <<queue, sent, got>>

\* send: push_back(item), under the guard.
Push(t) ==
  /\ pc[t] = "in" /\ t \in Sender
  /\ sent' = [sent EXCEPT ![t] = @ + 1]
  /\ queue' = Append(queue, <<t, sent'[t]>>)
  /\ Goto(t, "unlock")
  /\ UNCHANGED <<semVars, got>>

\* A slip: pop_back().
PopBack(t) ==
  /\ pc[t] = "in" /\ t \in Receiver
  /\ queue # <<>>
  /\ got' = [got EXCEPT ![t] = Append(@, queue[Len(queue)])]
  /\ queue' = SubSeq(queue, 1, Len(queue) - 1)
  /\ Goto(t, "unlock")
  /\ UNCHANGED <<semVars, sent>>

\* recv: pop_front().expect("channel item missing"), under the guard.  A receiver
\* that finds the queue empty panics: it is stuck here for ever.
Pop(t) ==
  /\ pc[t] = "in" /\ t \in Receiver
  /\ queue # <<>>
  /\ got' = [got EXCEPT ![t] = Append(@, Head(queue))]
  /\ queue' = Tail(queue)
  /\ Goto(t, "unlock")
  /\ UNCHANGED <<semVars, sent>>

\* The guard, a temporary of the statement, is dropped at its end.
Unlock(t) ==
  /\ pc[t] = "unlock"
  /\ Post(t, "queue")
  /\ Goto(t, IF t \in Sender THEN "post" ELSE "idle")
  /\ UNCHANGED <<queue, sent, got>>

\* send: self.items.post()
PostItem(t) ==
  /\ pc[t] = "post"
  /\ Post(t, "items")
  /\ Goto(t, "idle")
  /\ UNCHANGED <<queue, sent, got>>

\* The steps of the scheduler on behalf of t.
Switch(t) ==
  /\ Resume(t) \/ \E s \in Sem : Enqueue(t, s)
  /\ UNCHANGED <<queue, pc, sent, got>>

Step(t) == TakeItem(t) \/ Lock(t) \/ Push(t) \/ Pop(t) \/ Unlock(t) \/ PostItem(t) \/ Switch(t)

Next == \E t \in Task : Call(t) \/ Step(t)

Spec == Init /\ [][Next]_vars

(***************************************************************************)
(* Properties                                                              *)
(***************************************************************************)

\* The channel implements a FIFO queue: each push is one abstract send, each pop one
\* abstract receive, and nothing else touches the contents.  So nothing is lost,
\* duplicated or reordered.
F == INSTANCE Fifo
ImplementsFifo == F!Spec

\* recv(): pop_front() finds an item: the "channel item missing" of its expect() is
\* never seen, although the token and the item are taken under two different locks.
ItemIsThere == \A r \in Receiver : pc[r] = "in" => Len(queue) > 0

\* The VecDeque is touched by one task at a time.
Guarded == \A t, u \in Task : {pc[t], pc[u]} \subseteq {"in", "unlock"} => t = u

(***************************************************************************)
(* The inductive invariant                                                 *)
(***************************************************************************)

\* Receivers that hold a token for an item, and senders that still owe one for theirs.
Promised == {r \in Receiver : pc[r] \in {"lock", "in"}}
Owing    == {s \in Sender : pc[s] \in {"unlock", "post"}}

\* Every item in the queue has one token: in the semaphore, with a receiver, or
\* still to be posted.
Counted == Len(queue) = count["items"] + Cardinality(Promised) + Cardinality(Owing)

\* The token of the mutex is in its semaphore, or with the one task inside.
QueueToken ==
  /\ count["queue"] <= 1
  /\ count["queue"] = 1 => \A t \in Task : pc[t] \notin {"in", "unlock"}

\* Who is where: a sender that was let in has an item to send.
Places ==
  /\ \A s \in Sender : /\ pc[s] # "items"
                       /\ pc[s] \in {"lock", "in"} => sent[s] < MaxItems
  /\ \A r \in Receiver : pc[r] # "post"

IInv == TypeOK /\ Places /\ QueueToken /\ Guarded /\ Counted

(***************************************************************************)
(* Liveness: every task goes on when it can.  The bound on the items makes *)
(* overtaking finite, so weak fairness is enough for the raw locks.        *)
(***************************************************************************)
FairSpec == Spec /\ \A t \in Task : WF_vars(Step(t)) /\ WF_vars(t \in Receiver /\ Call(t))

\* Every item that was pushed is received, while receivers keep calling recv(), and
\* every recv() that took a token returns.
AllReceived == []<>(queue = <<>> /\ Promised = {})
=============================================================================
