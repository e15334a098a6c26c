------------------------------- MODULE MCMutex -------------------------------
(* Mutex for TLC. *)
EXTENDS Mutex

MCSem == {m}
=============================================================================
