----------------------------- MODULE MCProcess -----------------------------
(* Process for TLC. *)
EXTENDS Process

\* A handler that blocks more while it runs, and one that is re-entered.
MCHandlers ==
  {[handler |-> "caught", mask |-> Signal, nodefer |-> FALSE, resethand |-> FALSE, restorer |-> TRUE],
   [handler |-> "caught", mask |-> {}, nodefer |-> TRUE, resethand |-> TRUE, restorer |-> TRUE]}

\* A tree of processes that fork and wait; and one that uses every signal call, with
\* a child that only ends and signals it.
Tree == [p \in Pid |-> {"clone", "wait4"}]
Signals == [p \in 1..2 |-> IF p = 1 THEN Calls \ {"wait4"} ELSE {"kill"}]
MCPrograms == {Tree, Signals}
=============================================================================
