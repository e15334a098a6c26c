---------------------------- MODULE GuestDevices ----------------------------
(* What korhv gives each of its two AArch64 guests: private memory behind a  *)
(* stage-2 table, an emulated GICv2 (Vgic), an emulated PL011 (Vuart), and a *)
(* virtio block device whose registers are forwarded to a physical one.      *)
(*                                                                           *)
(* Memory is counted in the 2 MiB blocks the stage-2 tables map.  The words  *)
(* of enable and pending bits are the sets of interrupts they stand for; the *)
(* control, priority and baud registers, which nothing consults, are left    *)
(* out, and so is the value of a received byte.                              *)
EXTENDS Integers, Sequences, FiniteSets, FiniteSetsExt

CONSTANT MaxRx    \* how many bytes rxbuf holds (256 in the code)

Guest == 0..1
Timer == 27       \* VIRQ_TIMER, the guest's virtual timer
UartIrq == 33
DiskIrq == 48     \* the interrupt both device trees give the virtio device
NoIrq == 1023

-----------------------------------------------------------------------------
(* Memory *)

\* What each guest sees at ipa_base and dtb_ipa, and where it really is.
Manifest ==
  [i \in Guest |->
     [ipa_base |-> 513, hpa_base |-> 513 + 32 * i, memory_size |-> 32,
      dtb_ipa |-> 584, dtb_hpa |-> 577 + i]]

\* The host blocks a guest reaches through its stage-2 table.
Stage2(i) ==
  LET m == Manifest[i] IN
    [b \in m.ipa_base .. m.ipa_base + m.memory_size - 1 \cup {m.dtb_ipa} |->
       IF b = m.dtb_ipa THEN m.dtb_hpa ELSE m.hpa_base + b - m.ipa_base]

\* GuestMemory::translate of something within one block: the host block, or
\* none.  Only RAM is translated, not the device tree.
Translate(i, b) ==
  LET m == Manifest[i] IN
    IF m.ipa_base =< b /\ b < m.ipa_base + m.memory_size
      THEN {m.hpa_base + b - m.ipa_base}
      ELSE {}

-----------------------------------------------------------------------------
(* The interrupt controller *)

NewVgic == [enabled |-> {}, pending |-> {}, active |-> NoIrq]

Inject(v, irq) == [v EXCEPT !.pending = @ \cup {irq}]

HasPending(v) == v.pending \cap v.enabled # {}

\* What a read of GICC_IAR returns, and what it leaves: the lowest interrupt
\* that is pending and enabled becomes the active one.
Iar(v) == IF HasPending(v) THEN Min(v.pending \cap v.enabled) ELSE NoIrq

Acknowledge(v) ==
  IF HasPending(v)
    THEN [v EXCEPT !.pending = @ \ {Iar(v)}, !.active = Iar(v)]
    ELSE v

Eoir(v, irq) == IF v.active = irq THEN [v EXCEPT !.active = NoIrq] ELSE v

\* A write to the distributor's enable and pending registers.
GicdWrite(v, reg, irqs) ==
  CASE reg = "isenabler" -> [v EXCEPT !.enabled = @ \cup irqs]
    [] reg = "icenabler" -> [v EXCEPT !.enabled = @ \ irqs]
    [] reg = "ispendr"   -> [v EXCEPT !.pending = @ \cup irqs]
    [] reg = "icpendr"   -> [v EXCEPT !.pending = @ \ irqs]

-----------------------------------------------------------------------------
(* The serial port *)

NewVuart == [rxlen |-> 0, txris |-> FALSE]

RxPush(u) == [u EXCEPT !.rxlen = IF @ < MaxRx THEN @ + 1 ELSE @]

RxPop(u) == [u EXCEPT !.rxlen = IF @ > 0 THEN @ - 1 ELSE @]

HasRx(u) == u.rxlen > 0

\* A write of UARTIMSC: enabling the transmit interrupt raises it at once, and
\* input that waits is announced again.
WriteImsc(g, tx) ==
  [g EXCEPT !.vuart.txris = @ \/ tx,
            !.vgic = IF tx \/ HasRx(g.vuart) THEN Inject(@, UartIrq) ELSE @]

\* A write of UARTICR.
WriteIcr(g) == [g EXCEPT !.vuart.txris = FALSE]

-----------------------------------------------------------------------------

\* The part of Guest that outlives an exit: the general registers of its Vcpu,
\* the EL1 registers and the virtual timer saved at a switch, and its devices.
NewGuest ==
  [vcpu |-> 0, el1 |-> 0, cntv |-> FALSE, vgic |-> NewVgic,
   vuart |-> NewVuart, done |-> FALSE]

VgicState == [enabled : SUBSET Nat, pending : SUBSET Nat, active : Nat]

GuestState ==
  [vcpu : Nat, el1 : Nat, cntv : BOOLEAN, vgic : VgicState,
   vuart : [rxlen : Nat, txris : BOOLEAN], done : BOOLEAN]
=============================================================================
