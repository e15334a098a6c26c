----------------------------- MODULE Hypervisor -----------------------------
(* korhv on AArch64: one CPU at EL2 runs two guests, one at a time.          *)
(*                                                                           *)
(* run() is a loop of three parts, taken here as steps because the guest, a  *)
(* device or the keyboard may act between them: Enter switches the EL1       *)
(* context when another guest is current and enters it; an exit brings       *)
(* the CPU back, and Poll reads one byte of the serial port and hands it to  *)
(* the console multiplexer; a Handle step then serves the exit.  Everything  *)
(* at EL2 runs with interrupts masked.                                       *)
(*                                                                           *)
(* A guest is external: it runs any of the operations its script lists, in   *)
(* any order.  What it keeps in its general registers and in its EL1         *)
(* registers is one number each; the virtual timer is on or off, and may     *)
(* expire at any time while it is on.                                        *)
EXTENDS GuestDevices

CONSTANTS
  GuestPrograms, \* what each guest may do and what is typed, one choice a start
  MaxValue,     \* the numbers a guest keeps in its registers are 0 .. MaxValue
  MaxLine,      \* how many bytes wait in the physical serial port
  QueueBlocks   \* where a guest may place its virtio queue

ASSUME HypervisorAssumption ==
  /\ {MaxValue, MaxLine, MaxRx} \subseteq Nat /\ QueueBlocks \subseteq Nat
  /\ \A p \in GuestPrograms : p.irqs \subseteq Nat /\ p.keys \subseteq STRING

VARIABLES
  gs,        \* the two Guest structures
  cur,       \* the guest to run
  prev,      \* prev_cur: whose EL1 context is on the CPU, 2 for nobody
  hw,        \* the CPU: stage-2 root, registers, virtual timer, HCR_EL2.VI
  at,        \* where run() is
  esr,       \* why the guest left
  console,   \* ConsoleMux::active, 2 for the host prompt
  line,      \* bytes in the physical serial port
  queue,     \* the queue page each physical virtio device holds, 0 for none
  busy,      \* the devices that owe an interrupt
  spi,       \* device interrupts whose line is up at the physical GIC
  script,    \* the guests' operations, the interrupts they set up, the keys
  own,       \* what each guest last left in its registers (history)
  armed      \* the guests that wait for their timer (history)

hvVars == <<gs, cur, prev, hw, at, esr, console, line, queue, busy, spi,
            script, own, armed>>
guestVars == <<script, own, armed>>
deviceVars == <<queue, busy, spi>>

HostConsole == 2
Nobody == 2

IrqOps == {"irq", "isenabler", "icenabler", "ispendr", "icpendr", "eoir"}

CpuState ==
  [root : Guest \cup {Nobody}, vcpu : Nat, el1 : Nat, cntv : BOOLEAN, vi : BOOLEAN]

HvTypeOK ==
  /\ gs \in [Guest -> GuestState]
  /\ cur \in Guest /\ prev \in Guest \cup {Nobody}
  /\ hw \in CpuState
  /\ at \in {"loop", "guest", "exit", "handle", "end"}
  /\ esr.op \in IrqOps => esr.irq \in Nat
  /\ esr.op = "imsc" => esr.tx \in BOOLEAN
  /\ esr.op = "queue_pfn" => esr.block \in Int
  /\ console \in Guest \cup {HostConsole} /\ line \in Seq(STRING)
  /\ queue \in [Guest -> Int] /\ busy \subseteq Guest /\ spi \subseteq Nat
  /\ script \in GuestPrograms /\ own \in [Guest -> Nat] /\ armed \subseteq Guest

HvInit ==
  /\ gs = [i \in Guest |-> NewGuest]
  /\ cur = 0 /\ prev = Nobody
  /\ hw = [root |-> Nobody, vcpu |-> 0, el1 |-> 0, cntv |-> FALSE, vi |-> FALSE]
  /\ at = "loop" /\ esr = [op |-> "none"]
  /\ console = HostConsole /\ line = <<>>
  /\ queue = [i \in Guest |-> 0] /\ busy = {} /\ spi = {}
  /\ script \in GuestPrograms
  /\ own = [i \in Guest |-> 0] /\ armed = {}

-----------------------------------------------------------------------------
(* run(): to the guest *)

\* Both guests are done.
Finish ==
  /\ at = "loop" /\ \A i \in Guest : gs[i].done
  /\ at' = "end"
  /\ UNCHANGED <<gs, cur, prev, hw, esr, console, line, deviceVars, guestVars>>

\* Slips: the wrong guest's slot, and the timer forgotten.
SaveContextCur ==
  IF prev = Nobody
    THEN gs
    ELSE [gs EXCEPT ![cur].el1 = hw.el1, ![prev].cntv = hw.cntv]

SaveContextNoTimer ==
  IF prev = Nobody THEN gs ELSE [gs EXCEPT ![prev].el1 = hw.el1]

\* The EL1 registers and the timer of the guest that ran last go back to it.
SaveContext ==
  IF prev = Nobody
    THEN gs
    ELSE [gs EXCEPT ![prev].el1 = hw.el1, ![prev].cntv = hw.cntv]

\* The context switch, when another guest is current.
Switched ==
  IF cur = prev
    THEN [guests |-> gs, cpu |-> hw]
    ELSE [guests |-> SaveContext,
          cpu |-> [hw EXCEPT !.root = cur, !.el1 = gs[cur].el1,
                             !.cntv = gs[cur].cntv]]

\* Slip: the virtual interrupt line is set only when the guests are switched.
EnterStaleLine ==
  /\ at = "loop" /\ ~gs[cur].done
  /\ gs' = Switched.guests
  /\ hw' = [Switched.cpu EXCEPT
              !.vcpu = gs[cur].vcpu,
              !.vi = IF cur = prev THEN @ ELSE HasPending(gs[cur].vgic)]
  /\ prev' = cur /\ at' = "guest"
  /\ UNCHANGED <<cur, esr, console, line, deviceVars, guestVars>>

\* The switch, the virtual interrupt line, and vcpu_enter.  (The branch before it, for a
\* current guest that is done while the other is not, is never taken: see OnTurn.)
Enter ==
  /\ at = "loop" /\ ~gs[cur].done
  /\ gs' = Switched.guests
  /\ hw' = [Switched.cpu EXCEPT !.vcpu = gs[cur].vcpu,
                                !.vi = HasPending(gs[cur].vgic)]
  /\ prev' = cur /\ at' = "guest"
  /\ UNCHANGED <<cur, esr, console, line, deviceVars, guestVars>>

-----------------------------------------------------------------------------
(* The guest at EL1, and what leaves it *)

Runs(op) == at = "guest" /\ op \in script.ops[cur]

\* The guest changes its registers.
Compute(v) ==
  /\ Runs("compute")
  /\ hw' = [hw EXCEPT !.vcpu = v, !.el1 = v]
  /\ own' = [own EXCEPT ![cur] = v]
  /\ UNCHANGED <<gs, cur, prev, at, esr, console, line, deviceVars, script, armed>>

\* The guest starts or stops its virtual timer, which it does without a trap.
SetTimer(on) ==
  /\ Runs("timer")
  /\ hw' = [hw EXCEPT !.cntv = on]
  /\ armed' = IF on THEN armed \cup {cur} ELSE armed \ {cur}
  /\ UNCHANGED <<gs, cur, prev, at, esr, console, line, deviceVars, script, own>>

\* The exit path: the general registers go to the Vcpu that was entered.
GuestExit(reason) ==
  /\ esr' = reason /\ at' = "exit"
  /\ gs' = [gs EXCEPT ![cur].vcpu = hw.vcpu]
  /\ UNCHANGED <<cur, prev, hw, console, line, deviceVars, guestVars>>

\* The interrupts the physical GIC may signal: the timer of the context on the
\* CPU once it has expired, and the devices'.  The slice timer's PPI 30 is not
\* among them, init enables 27 alone of the first word.
Signals == (IF hw.cntv THEN {Timer} ELSE {}) \cup spi

ExitIrq == at = "guest" /\ \E irq \in Signals : GuestExit([op |-> "irq", irq |-> irq])

\* WFI is trapped unless a virtual interrupt is signalled (HCR_EL2.TWI).
ExitIdle == Runs("idle") /\ ~hw.vi /\ GuestExit([op |-> "idle"])

\* A guest that sees the virtual interrupt reads GICC_IAR.
ExitIar == Runs("gic") /\ hw.vi /\ GuestExit([op |-> "iar"])

ExitGic ==
  /\ Runs("gic")
  /\ \E reg \in {"isenabler", "icenabler", "ispendr", "icpendr", "eoir"} :
       \E irq \in script.irqs : GuestExit([op |-> reg, irq |-> irq])

ExitUart ==
  /\ Runs("uart")
  /\ \/ \E tx \in BOOLEAN : GuestExit([op |-> "imsc", tx |-> tx])
     \/ \E op \in {"icr", "dr", "getchar"} : GuestExit([op |-> op])

ExitDisk ==
  /\ Runs("disk")
  /\ \/ \E b \in QueueBlocks : GuestExit([op |-> "queue_pfn", block |-> b])
     \/ \E ready \in BOOLEAN : GuestExit([op |-> "notify", ready |-> ready])
     \/ GuestExit([op |-> "ack"])

\* An access that is only answered or not emulated at all, a PSCI call that is
\* only answered, one that turns the guest off, and a fault nothing serves.
ExitOther ==
  \E op \in {"ignored", "psci", "off", "fault"} : Runs(op) /\ GuestExit([op |-> op])

-----------------------------------------------------------------------------
(* run(): the serial port is polled once an exit *)

\* A byte for a guest: buffered, and announced by interrupt 33.
Receive(g) == [g EXCEPT !.vuart = RxPush(@), !.vgic = Inject(@, UartIrq)]

\* ConsoleMux::input while a guest is attached.
InputGuest ==
  /\ console # HostConsole
  /\ \/ /\ Head(line) = "ctrl_o"
        /\ console' = HostConsole /\ UNCHANGED gs
     \/ /\ Head(line) # "ctrl_o"
        /\ gs' = [gs EXCEPT ![console] = Receive(@)]
        /\ UNCHANGED console

\* ConsoleMux::input at the prompt: "enter 0" is the Return that ends such a
\* command line; every other byte is kept or ignored.
InputHost ==
  /\ console = HostConsole
  /\ console' = IF Head(line) = "enter 0" /\ ~gs[0].done THEN 0
                ELSE IF Head(line) = "enter 1" /\ ~gs[1].done THEN 1
                ELSE HostConsole
  /\ UNCHANGED gs

Poll ==
  /\ at = "exit" /\ at' = "handle"
  /\ \/ line = <<>> /\ UNCHANGED <<gs, console, line>>
     \/ line # <<>> /\ line' = Tail(line) /\ (InputGuest \/ InputHost)
  /\ UNCHANGED <<cur, prev, hw, esr, deviceVars, guestVars>>
-----------------------------------------------------------------------------
(* run(): the exit is served *)

Handles(ops) == at = "handle" /\ esr.op \in ops /\ at' = "loop"

\* The guest is done, the other one is to run.
Stop ==
  /\ gs' = [gs EXCEPT ![cur].done = TRUE]
  /\ cur' = 1 - cur

\* A timer interrupt is injected and the timer stopped; a device's goes to the
\* guest that is current, as 48 if the device and the guest are both guest 1's.  The end
\* of the interrupt does not lower the device's line: the exit repeats until its guest does.
InjectTimer ==
  /\ gs' = [gs EXCEPT ![cur].vgic = Inject(@, Timer), ![cur].cntv = FALSE]
  /\ hw' = [hw EXCEPT !.cntv = FALSE]

InjectDevice(irq) ==
  /\ gs' = [gs EXCEPT ![cur].vgic =
                        Inject(@, IF irq = DiskIrq + 1 /\ cur = 1 THEN DiskIrq ELSE irq)]
  /\ UNCHANGED hw

HandleIrq ==
  /\ Handles({"irq"})
  /\ IF esr.irq = Timer THEN InjectTimer ELSE InjectDevice(esr.irq)
  /\ UNCHANGED <<cur, prev, esr, console, line, deviceVars, guestVars>>

\* GICC_IAR is read only now, and may name no interrupt any more (0x3fe and above): what
\* is then served is a trap of class 0, which stops the guest.
HandleSpurious ==
  /\ Handles({"irq"})
  /\ Stop
  /\ UNCHANGED <<prev, hw, esr, console, line, deviceVars, guestVars>>

\* WFI: the serial port is polled again, for the guest that idles, and the
\* other guest is to run unless it is done.
HandleIdle ==
  /\ Handles({"idle"})
  /\ \/ line = <<>> /\ UNCHANGED <<gs, line>>
     \/ /\ line # <<>> /\ line' = Tail(line)
        /\ gs' = [gs EXCEPT ![cur].vuart = RxPush(@)]
  /\ cur' = IF gs[1 - cur].done THEN cur ELSE 1 - cur
  /\ UNCHANGED <<prev, hw, esr, console, deviceVars, guestVars>>

\* The emulated GIC.  A guest that acknowledges its timer's interrupt, or
\* clears it, has had it.
HandleGic ==
  /\ Handles({"isenabler", "icenabler", "ispendr", "icpendr", "iar", "eoir"})
  /\ LET v == gs[cur].vgic IN
     /\ gs' = [gs EXCEPT ![cur].vgic =
                 CASE esr.op = "iar"  -> Acknowledge(v)
                   [] esr.op = "eoir" -> Eoir(v, esr.irq)
                   [] OTHER           -> GicdWrite(v, esr.op, {esr.irq})]
     /\ armed' = IF \/ esr.op = "iar" /\ Iar(v) = Timer
                    \/ esr.op = "icpendr" /\ esr.irq = Timer /\ Timer \in v.pending
                 THEN armed \ {cur} ELSE armed
  /\ UNCHANGED <<cur, prev, hw, esr, console, line, deviceVars, script, own>>

\* What an access to the emulated serial port leaves.
UartAccess(g) ==
  CASE esr.op = "imsc" -> WriteImsc(g, esr.tx)
    [] esr.op = "icr"  -> WriteIcr(g)
    [] OTHER           -> [g EXCEPT !.vuart = RxPop(@)]

\* getchar, by HVC or at its magic address, reads the physical port first.
HandleUart ==
  /\ Handles({"imsc", "icr", "dr", "getchar"})
  /\ IF esr.op = "getchar" /\ line # <<>>
       THEN line' = Tail(line) /\ UNCHANGED gs
       ELSE gs' = [gs EXCEPT ![cur] = UartAccess(@)] /\ UNCHANGED line
  /\ UNCHANGED <<cur, prev, hw, esr, console, deviceVars, guestVars>>

\* QueuePFN is translated on its way to the device.
HandleQueue ==
  /\ Handles({"queue_pfn"})
  /\ \/ /\ Translate(cur, esr.block) = {}
        /\ Stop /\ UNCHANGED queue
     \/ \E b \in Translate(cur, esr.block) :
          /\ queue' = [queue EXCEPT ![cur] = b]
          /\ UNCHANGED <<gs, cur>>
  /\ UNCHANGED <<prev, hw, esr, console, line, busy, spi, guestVars>>

\* QueueNotify reads the page back from the device and translates it, then the
\* addresses of the descriptors ("ready": all of them name the guest's RAM).
\* The device is notified; if its interrupt shows up while the handler polls,
\* it is injected.  The descriptors' own addresses are restored.
HandleNotify ==
  /\ Handles({"notify"})
  /\ \/ /\ Translate(cur, queue[cur]) = {} \/ ~esr.ready
        /\ Stop /\ UNCHANGED <<busy, spi>>
     \/ /\ Translate(cur, queue[cur]) # {} /\ esr.ready
        /\ \E seen \in BOOLEAN :
             IF seen
               THEN /\ spi' = spi \cup {DiskIrq + cur}
                    /\ gs' = [gs EXCEPT ![cur].vgic = Inject(@, DiskIrq)]
                    /\ UNCHANGED busy
               ELSE busy' = busy \cup {cur} /\ UNCHANGED <<gs, spi>>
        /\ UNCHANGED cur
  /\ UNCHANGED <<prev, hw, esr, console, line, queue, guestVars>>

\* InterruptACK is forwarded to the guest's device, which lowers its line.
HandleAck ==
  /\ Handles({"ack"})
  /\ spi' = spi \ {DiskIrq + cur}
  /\ UNCHANGED <<gs, cur, prev, hw, esr, console, line, queue, busy, guestVars>>

HandleOther ==
  /\ Handles({"ignored", "psci", "off", "fault"})
  /\ IF esr.op \in {"off", "fault"} THEN Stop ELSE UNCHANGED <<gs, cur>>
  /\ UNCHANGED <<prev, hw, esr, console, line, deviceVars, guestVars>>

-----------------------------------------------------------------------------
(* The keyboard and the devices *)

Type(key) ==
  /\ at # "end" /\ Len(line) < MaxLine
  /\ line' = Append(line, key)
  /\ UNCHANGED <<gs, cur, prev, hw, at, esr, console, deviceVars, guestVars>>

DeviceIrq(i) ==
  /\ i \in busy /\ busy' = busy \ {i}
  /\ spi' = spi \cup {DiskIrq + i}
  /\ UNCHANGED <<gs, cur, prev, hw, at, esr, console, line, queue, guestVars>>

Handle ==
  \/ HandleIrq \/ HandleSpurious \/ HandleIdle \/ HandleGic \/ HandleUart
  \/ HandleQueue \/ HandleNotify \/ HandleAck \/ HandleOther

Host == Finish \/ Enter \/ Poll \/ Handle

GuestStep ==
  \/ \E v \in 0..MaxValue : Compute(v)
  \/ \E on \in BOOLEAN : SetTimer(on)
  \/ ExitIrq \/ ExitIdle \/ ExitIar \/ ExitGic \/ ExitUart \/ ExitDisk \/ ExitOther

HvNext ==
  \/ Host \/ GuestStep
  \/ \E key \in script.keys : Type(key)
  \/ \E i \in Guest : DeviceIrq(i)

\* The loop at EL2 does not stop.  A guest that is given the CPU again and
\* again, and is not thrown out by a device's line, idles at some time and takes
\* the interrupt it is shown, and its timer expires.
HvFairness ==
  /\ WF_hvVars(Host)
  /\ \A i \in Guest :
       /\ SF_hvVars(cur = i /\ spi = {} /\ ExitIdle)
       /\ SF_hvVars(cur = i /\ spi = {} /\ ExitIar)
       /\ SF_hvVars(cur = i /\ at = "guest" /\ hw.cntv /\ GuestExit([op |-> "irq", irq |-> Timer]))

HvSpec == HvInit /\ [][HvNext]_hvVars /\ HvFairness

-----------------------------------------------------------------------------
(* Properties *)

RootsDisjoint ==
  \A a \in DOMAIN Stage2(0), b \in DOMAIN Stage2(1) : Stage2(0)[a] # Stage2(1)[b]

\* While a guest runs, the CPU holds its own stage-2 root, general registers
\* and the EL1 registers that run() switches as it left them (ELR_EL1 and SPSR_EL1
\* are not among these), however the two guests were switched, stopped and skipped in
\* between (hyp.rs, the deferred save of prev_cur); and no host block is reached
\* through both roots.
ContextIsOwn ==
  /\ at = "guest" => /\ hw.root = cur
                     /\ hw.vcpu = own[cur] /\ hw.el1 = own[cur]
  /\ RootsDisjoint

\* The timer a guest waits for is never lost: it is still on, on the CPU or in
\* the saved context, or its interrupt is pending (hyp.rs, the timer branch of
\* the interrupt path and the switch of cntv_ctl).
TimerKept ==
  \A i \in armed :
    \/ Timer \in gs[i].vgic.pending
    \/ IF prev = i THEN hw.cntv ELSE gs[i].cntv

\* Where a guest's registers are: on the CPU while it runs, the EL1 ones also
\* until another guest is entered, and in its Guest structure otherwise.
ContextKept ==
  /\ at \in {"guest", "exit", "handle"} => prev = cur
  /\ prev # Nobody => hw.root = prev
  /\ \A i \in Guest :
       /\ IF prev = i THEN hw.el1 = own[i] ELSE gs[i].el1 = own[i]
       /\ IF at = "guest" /\ cur = i THEN hw.vcpu = own[i] ELSE gs[i].vcpu = own[i]

\* Every branch that stops the current guest passes the CPU on, and WFI passes it only
\* to a guest that is not done: so when run() comes round, the current guest can be
\* entered or both are done.
OnTurn ==
  /\ at \in {"guest", "exit", "handle"} => ~gs[cur].done
  /\ at = "loop" /\ gs[cur].done => gs[1 - cur].done

\* The inductive invariant.
HvInv == HvTypeOK /\ ContextKept /\ TimerKept

\* A guest that waits for its timer, and has the interrupt enabled, gets it or
\* is stopped, whatever the other guest does short of never idling (hyp.rs, the
\* WFI branch, which alone passes the CPU on), unless a device raises its line.
TimerTaken ==
  \A i \in Guest :
    i \in armed ~> \/ i \notin armed \/ gs[i].done \/ Timer \notin gs[i].vgic.enabled
                   \/ spi # {}
=============================================================================
