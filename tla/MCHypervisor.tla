---------------------------- MODULE MCHypervisor ----------------------------
(* Small instances of the hypervisor: each start gives the two guests one    *)
(* pair of programs.  The last mixes disk and timer interrupts in one guest.  *)
EXTENDS Hypervisor

Start(p0, p1, irqs, keys) ==
  [ops |-> [i \in Guest |-> IF i = 0 THEN p0 ELSE p1], irqs |-> irqs, keys |-> keys]

Base == {"idle", "gic"}

MCPrograms ==
  {Start(Base \cup {"timer"}, Base \cup {"timer"}, {Timer}, {}),
   Start(Base \cup {"timer", "compute"}, {"idle", "compute", "off"}, {Timer}, {}),
   Start({"idle", "uart", "ignored"}, {"idle", "fault", "psci"}, {},
         {"key", "ctrl_o", "enter 0", "enter 1"}),
   Start({"idle", "disk"}, {"idle", "disk", "compute"}, {}, {}),
   Start({"disk", "timer", "gic"}, {"idle"}, {Timer}, {})}

MCQueueBlocks == {514, 584}
=============================================================================
