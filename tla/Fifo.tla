-------------------------------- MODULE Fifo --------------------------------
(***************************************************************************)
(* What a Channel promises: an unbounded first-in first-out queue.  A send *)
(* appends the sender's next item in one step; a receive takes the oldest  *)
(* item in one step, and waits while there is none.                        *)
(***************************************************************************)
EXTENDS Naturals, Sequences

CONSTANTS Sender, Receiver,
          MaxItems      \* bound: how many items each sender sends

VARIABLES sent,         \* how many items each sender has sent
          queue,        \* the items sent and not received
          got           \* the items each receiver received, in order

Init == /\ sent = [s \in Sender |-> 0]
        /\ queue = <<>>
        /\ got = [r \in Receiver |-> <<>>]

Send(s) ==
  /\ sent[s] < MaxItems
  /\ sent' = [sent EXCEPT ![s] = @ + 1]
  /\ queue' = Append(queue, <<s, sent'[s]>>)
  /\ UNCHANGED got

Recv(r) ==
  /\ queue # <<>>
  /\ got' = [got EXCEPT ![r] = Append(@, Head(queue))]
  /\ queue' = Tail(queue)
  /\ UNCHANGED sent

Next == (\E s \in Sender : Send(s)) \/ (\E r \in Receiver : Recv(r))

Spec == Init /\ [][Next]_<<sent, queue, got>>
=============================================================================
