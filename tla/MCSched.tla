------------------------------ MODULE MCSched ------------------------------
(***************************************************************************)
(* Instances of the scheduler for TLC.  The idle tasks share the kernel's  *)
(* address space; every thread has one of its own.                         *)
(***************************************************************************)
EXTENDS Sched

MCRoot == [t \in Task |-> IF t \in Cpu THEN Boot ELSE t]
=============================================================================
