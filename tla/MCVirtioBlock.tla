--------------------------- MODULE MCVirtioBlock ---------------------------
(* VirtioBlock for TLC. *)
EXTENDS VirtioBlock

MCSem == {"op", "completion"}
=============================================================================
