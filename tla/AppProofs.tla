----------------------------- MODULE AppProofs -----------------------------
(***************************************************************************)
(* The two applications.  Of korix (module Process), for any number of     *)
(* processes, any signals, handlers and programs: IInv is inductive,       *)
(* wakeups are not lost, the process table is sound, and a process keeps   *)
(* its own signal mask.  Of korhv (module Hypervisor): a guest always runs *)
(* in its own context and never loses its timer, whatever the two guests   *)
(* do and however they are switched.                                       *)
(***************************************************************************)
EXTENDS Process, Hypervisor, SequenceTheorems, WellFoundedInduction, TLAPS

(***************************************************************************)
(* korix: processes and signals                                            *)
(***************************************************************************)

\* What most calls do: p moves on, changes nothing but its own signals and locals, and
\* ends neither asleep nor with a child found or in the making.
Own(p) ==
  /\ UNCHANGED <<next, processes, parent, zombie, childEvents, signalEvents>>
  /\ pc[p] \notin {"none", "notify", "gone"}
  /\ pc'[p] \in {"user", "leave", "exit", "scan", "futex"}
  /\ \A q \in Pid \ {p} : /\ pc'[q] = pc[q] /\ arg'[q] = arg[q]
                          /\ blocked'[q] = blocked[q] /\ pending'[q] = pending[q]

\* The invariant without the types and the masks.
Core == NoLostWakeup /\ TableIsSound /\ Birth

\* The programs run on numbers that exist.
LEMMA PidFacts ==
  ASSUME TypeOK
  PROVE  /\ MaxPid \in Nat /\ 1 \in Pid
         /\ DOMAIN program \subseteq Pid
         /\ \A p \in Pid : p \in Nat /\ p # 0 /\ p \in 0..MaxPid
<1>1. MaxPid \in Nat /\ MaxPid # 0
  BY ProcessAssumption, Zenon
<1>2. program \in Programs
  BY Zenon DEF TypeOK
<1>3. PICK n \in Pid : program \in [1..n -> SUBSET Calls]
  BY <1>2, ProcessAssumption, Zenon
<1>4. DOMAIN program = 1..n
  BY <1>3, Zenon
<1>. QED
  BY <1>1, <1>3, <1>4 DEF Pid

\* An action that is p's own business disturbs no other process.
LEMMA OwnStep ==
  ASSUME TypeOK, TypeOK', Core, NEW p \in Pid, Own(p)
  PROVE  Core'
<1>1. NoLostWakeup'
  <2>. SUFFICES ASSUME NEW q \in Pid
                PROVE  /\ pc'[q] = "wait" => \A c \in Zombies(q)' : pc'[c] = "notify" \/ childEvents[q] > 0
                       /\ pc'[q] = "suspend" /\ Deliverable(q)' # {} => signalEvents[q] > 0
    BY Zenon DEF NoLostWakeup, Own, At
  <2>1. CASE q = p
    BY <2>1, Zenon DEF Own
  <2>2. CASE q # p
    <3>1. pc'[q] = pc[q] /\ Deliverable(q)' = Deliverable(q) /\ Zombies(q)' = Zombies(q)
      BY <2>2, Zenon DEF Own, Deliverable, Zombies, Matches
    <3>2. \A c \in Pid : pc[c] = "notify" => pc'[c] = "notify"
      BY Zenon DEF Own
    <3>3. \A c \in Zombies(q) : c \in Pid
      BY Zenon DEF Zombies, TypeOK
    <3>. QED
      BY <3>1, <3>2, <3>3, Zenon DEF Core, NoLostWakeup, At
  <2>. QED
    BY <2>1, <2>2, Zenon
<1>2. TableIsSound'
  <2>. SUFFICES ASSUME NEW q \in Pid
                PROVE  /\ pc'[q] = "reap" => arg'[q].child \in Zombies(q)'
                       /\ pc'[q] \notin {"none", "notify", "gone"} => q \in processes /\ ~zombie[q]
    BY Zenon DEF TableIsSound, Own, At
  <2>1. CASE q = p
    BY <2>1, Zenon DEF Own, Core, TableIsSound
  <2>2. CASE q # p
    <3>1. pc'[q] = pc[q] /\ arg'[q] = arg[q] /\ Zombies(q)' = Zombies(q)
      BY <2>2 DEF Own, Zombies, Matches
    <3>. QED
      BY <3>1, Zenon DEF Core, TableIsSound, At
  <2>. QED
    BY <2>1, <2>2, Zenon
<1>3. Birth'
  <2>. SUFFICES ASSUME NEW q \in Pid
                PROVE  /\ q > next => pc'[q] = "none" /\ q \notin processes /\ ~zombie[q]
                       /\ pc'[q] \in {"clone", "spawn"} =>
                            /\ arg'[q].child \in processes /\ parent[arg'[q].child] = q
                            /\ pc'[arg'[q].child] = "none" /\ ~zombie[arg'[q].child]
    BY Zenon DEF Birth, Own, At
  <2>1. CASE q = p
    BY <2>1, Zenon DEF Own, Core, Birth, At
  <2>2. CASE q # p
    <3>1. pc'[q] = pc[q] /\ arg'[q] = arg[q]
      BY <2>2, Zenon DEF Own
    <3>2. ASSUME pc[q] \in {"clone", "spawn"}
          PROVE  pc'[arg[q].child] = "none"
      BY <3>2, ZenonT(30) DEF Own, Core, Birth, At, TypeOK
    <3>. QED
      BY <3>1, <3>2, Zenon DEF Core, Birth, At
  <2>. QED
    BY <2>1, <2>2, Zenon
<1>. QED
  BY <1>1, <1>2, <1>3, Zenon DEF Core

\* What Core says of one process.
CoreOf(q) ==
  /\ pc[q] = "wait" => \A c \in Zombies(q) : pc[c] = "notify" \/ childEvents[q] > 0
  /\ pc[q] = "suspend" /\ Deliverable(q) # {} => signalEvents[q] > 0
  /\ pc[q] = "reap" => arg[q].child \in Zombies(q)
  /\ pc[q] \notin {"none", "notify", "gone"} => q \in processes /\ ~zombie[q]
  /\ q > next => pc[q] = "none" /\ q \notin processes /\ ~zombie[q]
  /\ pc[q] \in {"clone", "spawn"} =>
       /\ arg[q].child \in processes /\ parent[arg[q].child] = q
       /\ pc[arg[q].child] = "none" /\ ~zombie[arg[q].child]

LEMMA CoreSplit == /\ Core <=> \A q \in Pid : CoreOf(q)
                   /\ Core' <=> \A q \in Pid : CoreOf(q)'
BY Zenon DEF Core, CoreOf, NoLostWakeup, TableIsSound, Birth, At

\* The new child is listed, has the number nobody had, and is nobody's zombie.
LEMMA CloneStep ==
  ASSUME TypeOK, Core, NEW p \in Pid, Clone(p)
  PROVE  Core'
<1>. DEFINE n == next + 1
<1>1. n \in Pid /\ n > next /\ next \in Nat
  <2>1. n \in DOMAIN program /\ next \in Pid
    BY Zenon DEF Clone, TypeOK
  <2>. QED
    BY <2>1, PidFacts
<1>2. CoreOf(n) /\ CoreOf(p)
  BY <1>1, CoreSplit, Zenon
<1>3. /\ pc[n] = "none" /\ n \notin processes /\ ~zombie[n] /\ n # p
  BY <1>1, <1>2, Zenon DEF CoreOf, Clone, At
<1>4. /\ pc'[p] = "clone" /\ arg'[p].child = n /\ parent'[n] = p
      /\ processes' = processes \cup {n} /\ next' = n
      /\ \A q \in Pid \ {p} : pc'[q] = pc[q] /\ arg'[q] = arg[q]
      /\ \A q \in Pid \ {n} : parent'[q] = parent[q]
      /\ UNCHANGED <<zombie, childEvents, signalEvents, blocked, pending>>
  BY <1>1, Zenon DEF Clone, TypeOK, Goto, NoArg, eventVars, signalVars
<1>. HIDE DEF n
<1>. SUFFICES ASSUME NEW q \in Pid PROVE CoreOf(q)'
  BY CoreSplit, Zenon
<1>5. CoreOf(q)
  BY CoreSplit, Zenon
<1>6. CASE q = p
  <2>1. pc[p] = "user" /\ p \in processes /\ ~zombie[p] /\ ~(p > next)
    BY <1>2, Zenon DEF CoreOf, Clone, At
  <2>2. ~(p > n)
    BY <2>1, <1>1, PidFacts
  <2>3. pc'[n] = "none" /\ n \in processes'
    BY <1>1, <1>3, <1>4, Zenon
  <2>. QED
    BY <1>3, <1>4, <1>6, <2>1, <2>2, <2>3, Zenon DEF CoreOf
<1>7. CASE q # p
  <2>1. pc'[q] = pc[q] /\ arg'[q] = arg[q] /\ Deliverable(q)' = Deliverable(q)
    BY <1>4, <1>7, Zenon DEF Deliverable
  <2>2. Zombies(q)' = Zombies(q)
    BY <1>3, <1>4, <1>7, ZenonT(30) DEF Zombies, Matches, TypeOK
  <2>3. \A c \in Zombies(q) : pc[c] = "notify" => pc'[c] = "notify"
    BY <1>4, ZenonT(30) DEF Zombies, TypeOK, Clone, At
  <2>4. ASSUME pc[q] \in {"clone", "spawn"}
        PROVE  /\ arg[q].child \in processes' /\ parent'[arg[q].child] = q
               /\ pc'[arg[q].child] = "none" /\ ~zombie[arg[q].child]
    BY <1>3, <1>4, <1>5, <2>4, ZenonT(30) DEF CoreOf, TypeOK, Clone, At
  <2>. QED
    BY <1>1, <1>3, <1>4, <1>5, <2>1, <2>2, <2>3, <2>4, PidFacts DEF CoreOf
<1>. QED
  BY <1>6, <1>7, Zenon

\* The child has not run, so nobody sleeps with the signals that are overwritten.
LEMMA CloneFillStep ==
  ASSUME TypeOK, Core, NEW p \in Pid, CloneFill(p)
  PROVE  Core'
<1>. DEFINE c == arg[p].child
<1>1. /\ pc[p] = "clone" /\ c \in processes /\ c \in Pid /\ parent[c] = p
      /\ pc[c] = "none" /\ ~zombie[c] /\ c # p
  <2>1. pc[p] = "clone" /\ CoreOf(p)
    BY CoreSplit, Zenon DEF CloneFill, At
  <2>. QED
    BY <2>1, Zenon DEF CoreOf, TypeOK
<1>2. /\ pc'[p] = "spawn" /\ \A q \in Pid \ {p} : pc'[q] = pc[q]
      /\ \A q \in Pid \ {c} : blocked'[q] = blocked[q] /\ pending'[q] = pending[q]
      /\ UNCHANGED <<next, processes, parent, zombie, childEvents, signalEvents, arg>>
  BY <1>1, Zenon DEF CloneFill, TypeOK, Goto, procVars, eventVars
<1>. HIDE DEF c
<1>. SUFFICES ASSUME NEW q \in Pid PROVE CoreOf(q)'
  BY CoreSplit
<1>3. CoreOf(q)
  BY CoreSplit
<1>4. Zombies(q)' = Zombies(q) /\ \A z \in Zombies(q) : z \in Pid /\ (pc[z] = "notify" => pc'[z] = "notify")
  BY <1>1, <1>2, ZenonT(30) DEF Zombies, Matches, TypeOK
<1>5. CASE q = p
  BY <1>1, <1>2, <1>3, <1>5, Zenon DEF CoreOf, c
<1>6. CASE q = c
  BY <1>1, <1>2, <1>3, <1>6, Zenon DEF CoreOf
<1>7. CASE q # p /\ q # c
  <2>1. pc'[q] = pc[q] /\ Deliverable(q)' = Deliverable(q)
    BY <1>2, <1>7, Zenon DEF Deliverable
  <2>2. ASSUME pc[q] \in {"clone", "spawn"}
        PROVE  pc'[arg[q].child] = "none"
    BY <1>1, <1>2, <1>3, <2>2, ZenonT(30) DEF CoreOf, TypeOK
  <2>. QED
    BY <1>2, <1>3, <1>4, <2>1, <2>2, Zenon DEF CoreOf
<1>. QED
  BY <1>5, <1>6, <1>7, Zenon

\* The child starts where its parent's Birth said it would: listed and no zombie.
LEMMA SpawnStep ==
  ASSUME TypeOK, Core, NEW p \in Pid, Spawn(p)
  PROVE  Core'
<1>. DEFINE c == arg[p].child
<1>1. /\ pc[p] = "spawn" /\ c \in processes /\ c \in Pid /\ parent[c] = p
      /\ pc[c] = "none" /\ ~zombie[c] /\ c # p
  <2>1. pc[p] = "spawn" /\ CoreOf(p)
    BY CoreSplit, Zenon DEF Spawn, At
  <2>. QED
    BY <2>1, Zenon DEF CoreOf, TypeOK
<1>2. /\ pc'[p] = "leave" /\ pc'[c] = "born" /\ \A q \in Pid \ {p, c} : pc'[q] = pc[q]
      /\ \A q \in Pid \ {p} : arg'[q] = arg[q]
      /\ UNCHANGED <<next, processes, parent, zombie, childEvents, signalEvents, blocked, pending>>
  BY <1>1, Zenon DEF Spawn, TypeOK, procVars, eventVars, signalVars
<1>. HIDE DEF c
<1>. SUFFICES ASSUME NEW q \in Pid PROVE CoreOf(q)'
  BY CoreSplit
<1>3. CoreOf(q)
  BY CoreSplit
<1>4. CASE q = p
  BY <1>1, <1>2, <1>3, <1>4, Zenon DEF CoreOf
<1>5. CASE q = c
  <2>1. ~(c > next)
    BY <1>1, <1>3, <1>5, Zenon DEF CoreOf
  <2>. QED
    BY <1>1, <1>2, <1>5, <2>1, Zenon DEF CoreOf
<1>6. CASE q # p /\ q # c
  <2>1. pc'[q] = pc[q] /\ arg'[q] = arg[q] /\ Deliverable(q)' = Deliverable(q)
    BY <1>2, <1>6, Zenon DEF Deliverable
  <2>2. Zombies(q)' = Zombies(q) /\ \A z \in Zombies(q) : pc[z] = "notify" => pc'[z] = "notify"
    BY <1>1, <1>2, <1>6, ZenonT(30) DEF Zombies, Matches, TypeOK
  <2>3. ASSUME pc[q] \in {"clone", "spawn"}
        PROVE  pc'[arg[q].child] = "none"
    BY <1>1, <1>2, <1>3, <1>6, <2>3, ZenonT(30) DEF CoreOf, TypeOK
  <2>. QED
    BY <1>2, <1>3, <2>1, <2>2, <2>3, Zenon DEF CoreOf
<1>. QED
  BY <1>4, <1>5, <1>6

\* The new zombie is still to notify its parent.
LEMMA ExitCurrentStep ==
  ASSUME TypeOK, Core, NEW p \in Pid, ExitCurrent(p)
  PROVE  Core'
<1>1. /\ pc[p] = "exit" /\ pc'[p] = "notify" /\ zombie'[p]
      /\ \A q \in Pid \ {p} : pc'[q] = pc[q] /\ zombie'[q] = zombie[q]
      /\ UNCHANGED <<next, processes, parent, childEvents, signalEvents, blocked, pending, arg>>
  BY Zenon DEF ExitCurrent, At, TypeOK, Goto, eventVars, signalVars
<1>. SUFFICES ASSUME NEW q \in Pid PROVE CoreOf(q)'
  BY CoreSplit
<1>2. CoreOf(q) /\ CoreOf(p)
  BY CoreSplit, Zenon
<1>3. CASE q = p
  BY <1>1, <1>2, <1>3, Zenon DEF CoreOf
<1>4. CASE q # p
  <2>1. pc'[q] = pc[q] /\ Deliverable(q)' = Deliverable(q)
    BY <1>1, <1>4, Zenon DEF Deliverable
  <2>2. \A z \in Zombies(q)' : z = p \/ z \in Zombies(q)
    BY <1>1, ZenonT(30) DEF Zombies, Matches, TypeOK
  <2>3. \A z \in Zombies(q) : z \in Zombies(q)' /\ z \in Pid /\ z # p
    <3>1. ~zombie[p]
      BY <1>1, <1>2, Zenon DEF CoreOf
    <3>. QED
      BY <3>1, <1>1, ZenonT(30) DEF Zombies, Matches, TypeOK
  <2>4. ASSUME pc[q] \in {"clone", "spawn"}
        PROVE  pc'[arg[q].child] = "none" /\ ~zombie'[arg[q].child]
    BY <1>1, <1>2, <2>4, ZenonT(30) DEF CoreOf, TypeOK
  <2>. QED
    BY <1>1, <1>2, <1>4, <2>1, <2>2, <2>3, <2>4 DEF CoreOf
<1>. QED
  BY <1>3, <1>4

\* The parent has a token when the zombie is gone: it is listed while it waits.
LEMMA ExitNotifyStep ==
  ASSUME TypeOK, Core, NEW p \in Pid, ExitNotify(p)
  PROVE  Core'
<1>1. /\ pc[p] = "notify" /\ pc'[p] = "gone" /\ \A q \in Pid \ {p} : pc'[q] = pc[q]
      /\ UNCHANGED <<next, processes, parent, zombie, blocked, arg>>
  BY Zenon DEF ExitNotify, At, FutexWaiters, procVars
<1>2. \A q \in Pid :
        \/ /\ childEvents'[q] = childEvents[q] /\ signalEvents'[q] = signalEvents[q]
           /\ pending'[q] = pending[q] /\ ~(q = parent[p] /\ q \in processes)
        \/ childEvents'[q] > 0 /\ signalEvents'[q] > 0
  <2>. SUFFICES ASSUME NEW q \in Pid
                PROVE  \/ /\ childEvents'[q] = childEvents[q] /\ signalEvents'[q] = signalEvents[q]
                          /\ pending'[q] = pending[q] /\ ~(q = parent[p] /\ q \in processes)
                       \/ childEvents'[q] > 0 /\ signalEvents'[q] > 0
    BY Zenon
  <2>1. CASE parent[p] # 0 /\ parent[p] \in processes
    <3>1. /\ childEvents' = [childEvents EXCEPT ![parent[p]] = @ + 1]
          /\ signalEvents' = [signalEvents EXCEPT ![parent[p]] = @ + 1]
          /\ pending' = [pending EXCEPT ![parent[p]] = @ \cup ({SIGCHLD} \cap Signal)]
      BY <2>1, Zenon DEF ExitNotify, Enqueue
    <3>2. childEvents \in [Pid -> Nat] /\ signalEvents \in [Pid -> Nat]
      BY Zenon DEF TypeOK
    <3>3. CASE q = parent[p]
      BY <3>1, <3>2, <3>3
    <3>4. CASE q # parent[p]
      BY <3>1, <3>4, Zenon DEF TypeOK
    <3>. QED
      BY <3>3, <3>4, Zenon
  <2>2. CASE ~(parent[p] # 0 /\ parent[p] \in processes)
    <3>1. UNCHANGED <<childEvents, signalEvents, pending>>
      BY <2>2, Zenon DEF ExitNotify, eventVars
    <3>. QED
      BY <3>1, <2>2, PidFacts, Zenon
  <2>. QED
    BY <2>1, <2>2, Zenon
<1>. SUFFICES ASSUME NEW q \in Pid PROVE CoreOf(q)'
  BY CoreSplit
<1>3. CoreOf(q)
  BY CoreSplit
<1>4. CASE q = p
  BY <1>1, <1>3, <1>4, Zenon DEF CoreOf
<1>5. CASE q # p
  <2>1. pc'[q] = pc[q] /\ Zombies(q)' = Zombies(q)
    BY <1>1, <1>5, Zenon DEF Zombies, Matches
  <2>2. ASSUME pc[q] \in {"clone", "spawn"}
        PROVE  pc'[arg[q].child] = "none"
    BY <1>1, <1>3, <2>2, ZenonT(30) DEF CoreOf, TypeOK
  <2>3. ASSUME pc[q] = "wait", NEW z \in Zombies(q)
        PROVE  pc'[z] = "notify" \/ childEvents'[q] > 0
    <3>1. z \in Pid /\ parent[z] = q /\ q \in processes
      BY <1>3, <2>3, Zenon DEF CoreOf, Zombies, Matches, TypeOK
    <3>2. CASE z = p
      BY <1>2, <3>1, <3>2, Zenon
    <3>3. CASE z # p
      BY <1>1, <1>2, <1>3, <2>3, <3>1, <3>3, Zenon DEF CoreOf
    <3>. QED
      BY <3>2, <3>3, Zenon
  <2>4. ASSUME pc[q] = "suspend", Deliverable(q)' # {}
        PROVE  signalEvents'[q] > 0
    BY <1>1, <1>2, <1>3, <2>4, Zenon DEF CoreOf, Deliverable
  <2>. QED
    BY <1>1, <1>3, <2>1, <2>2, <2>3, <2>4, Zenon DEF CoreOf
<1>. QED
  BY <1>4, <1>5

\* A step of p that changes only its own pc and arg, and what else it says of p.
Moves(p) ==
  /\ UNCHANGED <<next, parent, zombie>>
  /\ pc[p] \notin {"none", "notify", "gone"} /\ pc'[p] \notin {"none", "notify", "gone"}
  /\ \A q \in Pid \ {p} : pc'[q] = pc[q] /\ arg'[q] = arg[q]

\* Then a process other than p is as before if its events, signals and zombies are.
LEMMA OthersKept ==
  ASSUME TypeOK, Core, NEW p \in Pid, Moves(p), NEW q \in Pid \ {p},
         /\ processes' = processes
            \/ \E z \in Zombies(p) : processes' = processes \ {z},
         childEvents'[q] = childEvents[q],
         \/ signalEvents'[q] > 0
         \/ signalEvents'[q] = signalEvents[q] /\ Deliverable(q)' = Deliverable(q)
  PROVE  CoreOf(q)'
<1>1. CoreOf(q) /\ CoreOf(p) /\ pc'[q] = pc[q] /\ arg'[q] = arg[q]
  BY CoreSplit, Zenon DEF Moves
<1>2. \A z \in processes \ processes' : zombie[z] /\ parent[z] = p
  BY Zenon DEF Zombies, Matches
<1>3. processes' \subseteq processes
  BY Zenon
<1>4. Zombies(q)' = Zombies(q)
  BY <1>1, <1>2, <1>3, Zenon DEF Moves, Zombies, Matches
<1>5. \A z \in Zombies(q) : z \in Pid /\ (pc[z] = "notify" => pc'[z] = "notify")
  BY ZenonT(30) DEF Moves, Zombies, TypeOK
<1>6. ASSUME pc[q] \in {"clone", "spawn"}
      PROVE  /\ arg[q].child \in processes' /\ parent[arg[q].child] = q
             /\ pc'[arg[q].child] = "none" /\ ~zombie[arg[q].child]
  BY <1>1, <1>2, <1>6, ZenonT(30) DEF CoreOf, Moves, TypeOK
<1>7. pc[q] \notin {"none", "notify", "gone"} => q \in processes'
  BY <1>1, <1>2, Zenon DEF CoreOf
<1>. QED
  BY <1>1, <1>3, <1>4, <1>5, <1>6, <1>7, SMTT(30) DEF CoreOf, Moves

LEMMA MatchingZombieStep ==
  ASSUME TypeOK, Core, NEW p \in Pid, MatchingZombie(p)
  PROVE  Core'
<1>1. /\ UNCHANGED <<processes, childEvents, signalEvents, blocked, pending>>
      /\ UNCHANGED <<next, parent, zombie>> /\ pc[p] = "scan"
      /\ pc'[p] \in {"reap", "leave", "wait"}
      /\ \A q \in Pid \ {p} : pc'[q] = pc[q] /\ arg'[q] = arg[q]
  <2>1. /\ UNCHANGED <<procVars, eventVars, signalVars>> /\ pc[p] = "scan"
        /\ \E point \in {"reap", "leave", "wait"} : pc' = [pc EXCEPT ![p] = point]
    BY Zenon DEF MatchingZombie, At, Goto
  <2>2. \A q \in Pid \ {p} : arg'[q] = arg[q]
    BY ZenonT(30) DEF MatchingZombie, TypeOK
  <2>. QED
    BY <2>1, <2>2 DEF TypeOK, procVars, eventVars, signalVars
<1>2. Moves(p)
  BY <1>1, Zenon DEF Moves
<1>. SUFFICES ASSUME NEW q \in Pid PROVE CoreOf(q)'
  BY CoreSplit
<1>3. CASE q # p
  <2>1. Deliverable(q)' = Deliverable(q)
    BY <1>1, Zenon DEF Deliverable
  <2>. QED
    BY <1>1, <1>2, <1>3, <2>1, OthersKept, Zenon
<1>4. CASE q = p
  <2>1. CoreOf(p)
    BY CoreSplit, Zenon
  <2>2. CASE pc'[p] = "reap"
    <3>1. PICK c \in Lowest(Zombies(p)) : arg' = [arg EXCEPT ![p].child = c]
      BY <2>2, ZenonT(30) DEF MatchingZombie, Goto, TypeOK
    <3>2. c \in Zombies(p) /\ arg'[p].child = c /\ arg'[p].requested = arg[p].requested
      BY <3>1 DEF Lowest, TypeOK
    <3>3. c \in Zombies(p)'
      BY <1>1, <3>2, Zenon DEF Zombies, Matches
    <3>. QED
      BY <1>1, <1>4, <2>1, <2>2, <3>2, <3>3, Zenon DEF CoreOf
  <2>3. CASE pc'[p] = "leave"
    BY <1>1, <1>4, <2>1, <2>3, Zenon DEF CoreOf
  <2>4. CASE pc'[p] = "wait"
    <3>1. Zombies(p) = {} /\ arg' = arg
      BY <2>4, ZenonT(30) DEF MatchingZombie, Goto, TypeOK
    <3>2. Zombies(p)' = {}
      BY <1>1, <3>1, Zenon DEF Zombies, Matches
    <3>. QED
      BY <1>1, <1>4, <2>1, <2>4, <3>2, Zenon DEF CoreOf
  <2>. QED
    BY <1>1, <2>2, <2>3, <2>4, Zenon
<1>. QED
  BY <1>3, <1>4, Zenon

\* What is removed is a zombie of p itself, and neither running nor in the making.
LEMMA ReapStep ==
  ASSUME TypeOK, Core, NEW p \in Pid, Reap(p)
  PROVE  Core'
<1>1. /\ UNCHANGED <<next, parent, zombie, childEvents, signalEvents, blocked, pending>>
      /\ pc[p] = "reap" /\ pc'[p] = "leave"
      /\ processes' = processes \/ processes' = processes \ {arg[p].child}
      /\ \A q \in Pid \ {p} : pc'[q] = pc[q] /\ arg'[q] = arg[q]
  BY Zenon DEF Reap, At, Goto, TypeOK, eventVars, signalVars
<1>2. CoreOf(p)
  BY CoreSplit, Zenon
<1>3. arg[p].child \in Zombies(p)
  BY <1>1, <1>2, Zenon DEF CoreOf
<1>. SUFFICES ASSUME NEW q \in Pid PROVE CoreOf(q)'
  BY CoreSplit
<1>4. CASE q # p
  <2>1. Deliverable(q)' = Deliverable(q) /\ Moves(p)
    BY <1>1, Zenon DEF Deliverable, Moves
  <2>. QED
    BY <1>1, <1>3, <1>4, <2>1, OthersKept, Zenon
<1>5. CASE q = p
  <2>1. ~zombie[p] /\ zombie[arg[p].child] /\ p \in processes
    BY <1>1, <1>2, <1>3, Zenon DEF CoreOf, Zombies
  <2>2. p \in processes'
    BY <1>1, <2>1, Zenon
  <2>. QED
    BY <1>1, <1>2, <1>5, <2>1, <2>2, Zenon DEF CoreOf
<1>. QED
  BY <1>4, <1>5

\* A token is taken by the one who waits for it, who looks again.
LEMMA WaitChildStep ==
  ASSUME TypeOK, Core, NEW p \in Pid, WaitChild(p)
  PROVE  Core'
<1>1. /\ UNCHANGED <<next, processes, parent, zombie, signalEvents, blocked, pending, arg>>
      /\ pc[p] = "wait" /\ pc'[p] = "scan"
      /\ \A q \in Pid \ {p} : pc'[q] = pc[q] /\ childEvents'[q] = childEvents[q]
  BY Zenon DEF WaitChild, At, Goto, TypeOK, procVars, signalVars
<1>. SUFFICES ASSUME NEW q \in Pid PROVE CoreOf(q)'
  BY CoreSplit
<1>2. CASE q # p
  <2>1. Deliverable(q)' = Deliverable(q) /\ Moves(p)
    BY <1>1, Zenon DEF Deliverable, Moves
  <2>. QED
    BY <1>1, <1>2, <2>1, OthersKept, Zenon
<1>3. CASE q = p
  <2>1. CoreOf(p)
    BY CoreSplit
  <2>. QED
    BY <1>1, <1>3, <2>1, Zenon DEF CoreOf
<1>. QED
  BY <1>2, <1>3

\* The signal comes with a token.
LEMMA KillStep ==
  ASSUME TypeOK, Core, NEW p \in Pid, NEW t \in Pid, NEW s \in Signal, Kill(p, t, s)
  PROVE  Core'
<1>1. /\ UNCHANGED <<next, processes, parent, zombie, childEvents, blocked, arg>>
      /\ pc[p] = "user" /\ pc'[p] = "leave"
      /\ \A q \in Pid \ {p} : pc'[q] = pc[q]
      /\ \A q \in Pid \ {t} : signalEvents'[q] = signalEvents[q] /\ pending'[q] = pending[q]
      /\ signalEvents'[t] > 0
  <2>1. /\ UNCHANGED <<procVars, childEvents, blocked, arg>>
        /\ pc[p] = "user" /\ pc' = [pc EXCEPT ![p] = "leave"]
        /\ pending' = [pending EXCEPT ![t] = @ \cup ({s} \cap Signal)]
        /\ signalEvents' = [signalEvents EXCEPT ![t] = @ + 1]
    BY Zenon DEF Kill, Enqueue, At, Goto
  <2>2. signalEvents[t] \in Nat /\ signalEvents'[t] = signalEvents[t] + 1
    BY <2>1, Zenon DEF TypeOK
  <2>. QED
    BY <2>1, <2>2 DEF TypeOK, procVars
<1>. SUFFICES ASSUME NEW q \in Pid PROVE CoreOf(q)'
  BY CoreSplit, Zenon
<1>2. CASE q # p
  <2>1. Moves(p)
    BY <1>1, Zenon DEF Moves
  <2>2. \/ signalEvents'[q] > 0
        \/ signalEvents'[q] = signalEvents[q] /\ Deliverable(q)' = Deliverable(q)
    BY <1>1, Zenon DEF Deliverable
  <2>. QED
    BY <1>1, <1>2, <2>1, <2>2, OthersKept, Zenon
<1>3. CASE q = p
  <2>1. CoreOf(p)
    BY CoreSplit, Zenon
  <2>. QED
    BY <1>1, <1>3, <2>1, Zenon DEF CoreOf
<1>. QED
  BY <1>2, <1>3, Zenon

\* Who goes to sleep has nothing deliverable under the new mask.
LEMMA SigSuspendStep ==
  ASSUME TypeOK, Core, NEW p \in Pid, NEW mask \in Masks, SigSuspend(p, mask)
  PROVE  Core'
<1>1. /\ UNCHANGED <<next, processes, parent, zombie, childEvents, signalEvents, pending>>
      /\ pc[p] = "user"
      /\ \/ pc'[p] = "leave"
         \/ pc'[p] = "suspend" /\ Deliverable(p)' = {}
      /\ \A q \in Pid \ {p} : pc'[q] = pc[q] /\ arg'[q] = arg[q] /\ blocked'[q] = blocked[q]
  <2>1. CASE pending[p] \ (mask \ UNBLOCKABLE_MASK) # {}
    BY <2>1, Zenon DEF SigSuspend, At, Goto, TypeOK, procVars, eventVars
  <2>2. CASE pending[p] \ (mask \ UNBLOCKABLE_MASK) = {}
    BY <2>2, ZenonT(30) DEF SigSuspend, Deliverable, At, Goto, TypeOK, procVars, eventVars
  <2>. QED
    BY <2>1, <2>2, Zenon
<1>. SUFFICES ASSUME NEW q \in Pid PROVE CoreOf(q)'
  BY CoreSplit, Zenon
<1>2. CASE q # p
  <2>1. Deliverable(q)' = Deliverable(q) /\ Moves(p)
    BY <1>1, <1>2, Zenon DEF Deliverable, Moves
  <2>. QED
    BY <1>1, <1>2, <2>1, OthersKept, Zenon
<1>3. CASE q = p
  <2>1. CoreOf(p)
    BY CoreSplit, Zenon
  <2>. QED
    BY <1>1, <1>3, <2>1, Zenon DEF CoreOf
<1>. QED
  BY <1>2, <1>3, Zenon

LEMMA SigSuspendEndStep ==
  ASSUME TypeOK, Core, NEW p \in Pid, SigSuspendEnd(p)
  PROVE  Core'
<1>1. /\ UNCHANGED <<next, processes, parent, zombie, childEvents, pending>>
      /\ pc[p] = "suspend" /\ pc'[p] = "leave"
      /\ \A q \in Pid \ {p} : /\ pc'[q] = pc[q] /\ arg'[q] = arg[q] /\ blocked'[q] = blocked[q]
                              /\ signalEvents'[q] = signalEvents[q]
  BY Zenon DEF SigSuspendEnd, At, Goto, TypeOK, procVars
<1>. SUFFICES ASSUME NEW q \in Pid PROVE CoreOf(q)'
  BY CoreSplit
<1>2. CASE q # p
  <2>1. Deliverable(q)' = Deliverable(q) /\ Moves(p)
    BY <1>1, <1>2, Zenon DEF Deliverable, Moves
  <2>. QED
    BY <1>1, <1>2, <2>1, OthersKept, Zenon
<1>3. CASE q = p
  <2>1. CoreOf(p)
    BY CoreSplit
  <2>. QED
    BY <1>1, <1>3, <2>1, Zenon DEF CoreOf
<1>. QED
  BY <1>2, <1>3

\* The records a call may install, the dispositions the code itself uses, and the locals
\* of a call are of their types.
LEMMA ActionTypes ==
  /\ SIG_DFL \in SignalAction /\ SIG_IGN \in SignalAction
  /\ Handlers \subseteq SignalAction
  /\ \A a \in SignalAction, m \in SUBSET Signal : [a EXCEPT !.mask = m] \in SignalAction
BY ProcessAssumption, ZenonT(30) DEF SIG_DFL, SIG_IGN, SignalAction

Locals == [child : 0..MaxPid, requested : 0..MaxPid, nohang : BOOLEAN, old : SUBSET Signal]

LEMMA LocalTypes ==
  ASSUME TypeOK
  PROVE  /\ NoArg \in Locals
         /\ \A c \in 0..MaxPid : [NoArg EXCEPT !.child = c] \in Locals
         /\ \A c \in 0..MaxPid, b \in BOOLEAN : [NoArg EXCEPT !.requested = c, !.nohang = b] \in Locals
         /\ \A m \in SUBSET Signal : [NoArg EXCEPT !.old = m] \in Locals
         /\ \A l \in Locals, c \in 0..MaxPid : [l EXCEPT !.child = c] \in Locals
<1>1. 0 \in 0..MaxPid
  BY PidFacts
<1>2. NoArg \in Locals /\ \A c \in 0..MaxPid : [NoArg EXCEPT !.child = c] \in Locals
  BY <1>1, ZenonT(30) DEF NoArg, Locals
<1>3. ASSUME NEW c \in 0..MaxPid, NEW b \in BOOLEAN
      PROVE  [NoArg EXCEPT !.requested = c, !.nohang = b] \in Locals
  <2>1. [NoArg EXCEPT !.requested = c, !.nohang = TRUE] \in Locals
    BY <1>1, ZenonT(30) DEF NoArg, Locals
  <2>2. [NoArg EXCEPT !.requested = c, !.nohang = FALSE] \in Locals
    BY <1>1, ZenonT(30) DEF NoArg, Locals
  <2>3. b = TRUE \/ b = FALSE
    BY Zenon
  <2>. QED
    BY <2>1, <2>2, <2>3, Zenon
<1>4. \A m \in SUBSET Signal : [NoArg EXCEPT !.old = m] \in Locals
  BY <1>1, ZenonT(30) DEF NoArg, Locals
<1>5. \A l \in Locals, c \in 0..MaxPid : [l EXCEPT !.child = c] \in Locals
  BY Zenon DEF Locals
<1>. QED
  BY <1>2, <1>3, <1>4, <1>5, ZenonT(30)

\* The types of the calls that make, end and wait for processes.
LEMMA ProcTypes ==
  ASSUME TypeOK, NEW p \in Pid, program' = program,
         \/ Clone(p) \/ Spawn(p) \/ ForkChildEntry(p) \/ Exit(p) \/ OtherCall(p)
         \/ ExitCurrent(p) \/ FutexWait(p) \/ FutexWake(p)
         \/ \E c \in 0..MaxPid, b \in BOOLEAN : Wait4(p, c, b)
         \/ MatchingZombie(p) \/ Reap(p) \/ WaitChild(p)
  PROVE  TypeOK'
<1>. USE DEF procVars, eventVars, signalVars, At, Goto
<1>1. CASE Clone(p)
  <2>1. next + 1 \in Pid /\ p \in 0..MaxPid
    BY <1>1, PidFacts, Zenon DEF Clone
  <2>2. [NoArg EXCEPT !.child = next + 1] \in Locals
    BY <2>1, PidFacts, LocalTypes, ZenonT(30)
  <2>. QED
    <3>1. arg' \in [Pid -> Locals]
      BY <1>1, <2>2, ZenonT(30) DEF Clone, TypeOK, Locals
    <3>2. parent' \in [Pid -> 0..MaxPid] /\ pc' \in [Pid -> Points]
      BY <1>1, <2>1, Zenon DEF Clone, TypeOK, Points
    <3>3. next' \in Pid /\ processes' \in SUBSET Pid
      BY <1>1, <2>1, Zenon DEF Clone, TypeOK
    <3>. QED
      BY <1>1, <3>1, <3>2, <3>3, ZenonT(30) DEF Clone, TypeOK, Locals
<1>2. CASE Spawn(p)
  BY <1>2, LocalTypes, ZenonT(30) DEF Spawn, TypeOK, Points, Locals
<1>3. CASE ForkChildEntry(p)
  BY <1>3, ZenonT(30) DEF ForkChildEntry, TypeOK, Points
<1>4. CASE Exit(p)
  BY <1>4, ZenonT(30) DEF Exit, TypeOK, Points
<1>5. CASE OtherCall(p)
  BY <1>5, ZenonT(30) DEF OtherCall, TypeOK, Points
<1>6. CASE ExitCurrent(p)
  BY <1>6, ZenonT(30) DEF ExitCurrent, TypeOK, Points
<1>7. CASE FutexWait(p)
  BY <1>7, ZenonT(30) DEF FutexWait, TypeOK, Points
<1>8. CASE FutexWake(p)
  BY <1>8, Zenon DEF FutexWake, TypeOK, Points
<1>9. ASSUME NEW c \in 0..MaxPid, NEW b \in BOOLEAN, Wait4(p, c, b)
      PROVE  TypeOK'
  <2>1. [NoArg EXCEPT !.requested = c, !.nohang = b] \in Locals
    BY LocalTypes, ZenonT(30)
  <2>. QED
    BY <1>9, <2>1, ZenonT(30) DEF Wait4, TypeOK, Points, Locals
<1>10. CASE MatchingZombie(p)
  <2>1. pc' \in [Pid -> Points]
    BY <1>10, ZenonT(30) DEF MatchingZombie, TypeOK, Points
  <2>2. arg' \in [Pid -> Locals]
    <3>1. ASSUME NEW c \in Lowest(Zombies(p)), arg' = [arg EXCEPT ![p].child = c]
          PROVE  arg' \in [Pid -> Locals]
      <4>1. c \in 0..MaxPid
        BY PidFacts, ZenonT(30) DEF Lowest, Zombies, TypeOK
      <4>2. arg \in [Pid -> Locals] /\ [arg[p] EXCEPT !.child = c] \in Locals
        BY <4>1, LocalTypes, ZenonT(30) DEF TypeOK, Locals
      <4>3. arg' = [arg EXCEPT ![p] = [arg[p] EXCEPT !.child = c]]
        BY <3>1, <4>2, Zenon
      <4>. QED
        BY <4>2, <4>3, Zenon
    <3>2. CASE arg' = [arg EXCEPT ![p] = NoArg]
      BY <3>2, LocalTypes, ZenonT(30) DEF TypeOK, Locals
    <3>3. CASE arg' = arg
      BY <3>3, Zenon DEF TypeOK, Locals
    <3>. QED
      BY <1>10, <3>1, <3>2, <3>3, Zenon DEF MatchingZombie
  <2>3. UNCHANGED <<procVars, eventVars, signalVars>>
    BY <1>10, Zenon DEF MatchingZombie
  <2>. QED
    BY <2>1, <2>2, <2>3, ZenonT(30) DEF TypeOK, Locals
<1>11. CASE Reap(p)
  BY <1>11, LocalTypes, ZenonT(30) DEF Reap, TypeOK, Points, Locals
<1>12. CASE WaitChild(p)
  <2>1. childEvents' \in [Pid -> Nat]
    <3>1. /\ childEvents \in [Pid -> Nat] /\ childEvents[p] > 0
          /\ childEvents' = [childEvents EXCEPT ![p] = childEvents[p] - 1]
      BY <1>12, Zenon DEF WaitChild, TypeOK
    <3>2. childEvents[p] \in Nat
      BY <3>1, Zenon
    <3>3. childEvents[p] - 1 \in Nat
      BY <3>1, <3>2
    <3>. QED
      BY <3>1, <3>3, Zenon
  <2>. QED
    BY <1>12, <2>1, ZenonT(30) DEF WaitChild, TypeOK, Points
<1>. QED
  BY <1>1, <1>2, <1>3, <1>4, <1>5, <1>6, <1>7, <1>8, <1>9, <1>10, <1>11, <1>12

\* Pushing a frame: the last one stays the last.
LEMMA Push ==
  ASSUME NEW S, NEW f \in Seq(S), NEW x \in S
  PROVE  /\ <<x>> \o f \in Seq(S) /\ <<x>> \o f # <<>>
         /\ (<<x>> \o f)[Len(<<x>> \o f)] = IF f = <<>> THEN x ELSE f[Len(f)]
         /\ \A i \in DOMAIN (<<x>> \o f) : (<<x>> \o f)[i] = x \/ \E j \in DOMAIN f : (<<x>> \o f)[i] = f[j]
<1>. DEFINE g == <<x>> \o f
<1>1. /\ g \in Seq(S) /\ Len(g) = Len(f) + 1 /\ Len(f) \in Nat
      /\ DOMAIN g = 1..(Len(f) + 1) /\ DOMAIN f = 1..Len(f)
      /\ \A i \in 1..(Len(f) + 1) : g[i] = IF i = 1 THEN x ELSE f[i - 1]
  OBVIOUS
<1>2. f = <<>> <=> Len(f) = 0
  OBVIOUS
<1>. HIDE DEF g
<1>3. g # <<>> /\ g[Len(g)] = IF f = <<>> THEN x ELSE f[Len(f)]
  BY <1>1, <1>2
<1>4. ASSUME NEW i \in DOMAIN g
      PROVE  g[i] = x \/ \E j \in DOMAIN f : g[i] = f[j]
  <2>1. CASE i = 1
    BY <1>1, <2>1, Zenon
  <2>2. CASE i # 1
    <3>1. i - 1 \in DOMAIN f /\ g[i] = f[i - 1]
      BY <1>1, <2>2
    <3>. QED
      BY <3>1, Zenon
  <2>. QED
    BY <2>1, <2>2, Zenon
<1>. QED
  BY <1>1, <1>3, <1>4, Zenon DEF g

\* Popping one.
LEMMA Pop ==
  ASSUME NEW S, NEW f \in Seq(S), f # <<>>
  PROVE  /\ Head(f) \in S /\ Tail(f) \in Seq(S) /\ 1 \in DOMAIN f /\ Head(f) = f[1]
         /\ Tail(f) = <<>> => Head(f) = f[Len(f)]
         /\ Tail(f) # <<>> => Tail(f)[Len(Tail(f))] = f[Len(f)]
         /\ \A i \in DOMAIN Tail(f) : \E j \in DOMAIN f : Tail(f)[i] = f[j]
<1>1. /\ Len(f) \in Nat /\ Len(f) > 0 /\ DOMAIN f = 1..Len(f) /\ Head(f) = f[1]
      /\ Tail(f) \in Seq(S) /\ Len(Tail(f)) = Len(f) - 1 /\ DOMAIN Tail(f) = 1..(Len(f) - 1)
      /\ \A i \in 1..(Len(f) - 1) : Tail(f)[i] = f[i + 1]
  OBVIOUS
<1>2. Tail(f) = <<>> <=> Len(f) = 1
  <2>1. Tail(f) = <<>> <=> Len(Tail(f)) = 0
    BY <1>1, EmptySeq, ZenonT(30)
  <2>. QED
    BY <1>1, <2>1
<1>3. Head(f) \in S /\ 1 \in DOMAIN f
  BY <1>1
<1>4. ASSUME NEW i \in DOMAIN Tail(f) PROVE \E j \in DOMAIN f : Tail(f)[i] = f[j]
  <2>1. i + 1 \in DOMAIN f /\ Tail(f)[i] = f[i + 1]
    BY <1>1
  <2>. QED
    BY <2>1, Zenon
<1>5. Tail(f) # <<>> => Tail(f)[Len(Tail(f))] = f[Len(f)]
  BY <1>1, <1>2, SMTT(30)
<1>. QED
  BY <1>1, <1>2, <1>3, <1>4, <1>5, Zenon

\* Signals and masks of their types, and no mask that blocks SIGKILL or SIGSTOP: the
\* calls that leave the signals alone.
LEMMA QuietMasks ==
  ASSUME TypeOK, NeverBlocked, NEW p \in Pid,
         \/ Clone(p) \/ Spawn(p) \/ ForkChildEntry(p) \/ Exit(p) \/ OtherCall(p)
         \/ ExitCurrent(p) \/ FutexWait(p) \/ FutexWake(p)
         \/ \E c \in 0..MaxPid, b \in BOOLEAN : Wait4(p, c, b)
         \/ MatchingZombie(p) \/ Reap(p) \/ WaitChild(p)
  PROVE  NeverBlocked'
<1>1. UNCHANGED <<blocked, frames>>
  BY ZenonT(30) DEF Clone, Spawn, ForkChildEntry, Exit, OtherCall, ExitCurrent, FutexWait, FutexWake,
         Wait4, MatchingZombie, Reap, WaitChild, signalVars
<1>2. \A q \in Pid : arg'[q].old \in {arg[q].old, {}}
  <2>. SUFFICES ASSUME NEW q \in Pid PROVE arg'[q].old \in {arg[q].old, {}}
    BY Zenon
  <2>1. CASE arg' = arg
    BY <2>1, Zenon
  <2>2. ASSUME NEW l, l.old = {}, arg' = [arg EXCEPT ![p] = l]
        PROVE  arg'[q].old \in {arg[q].old, {}}
    BY <2>2, Zenon DEF TypeOK
  <2>3. NoArg.old = {} /\ \A c : [NoArg EXCEPT !.child = c].old = {}
    BY Zenon DEF NoArg
  <2>4. ASSUME NEW c, NEW b PROVE [NoArg EXCEPT !.requested = c, !.nohang = b].old = {}
    BY Zenon DEF NoArg
  <2>5. ASSUME NEW c, arg' = [arg EXCEPT ![p].child = c]
        PROVE  arg'[q].old \in {arg[q].old, {}}
    BY <2>5, SMTT(30) DEF TypeOK
  <2>6. CASE Clone(p) \/ Spawn(p) \/ Reap(p)
    BY <2>2, <2>3, <2>6, ZenonT(30) DEF Clone, Spawn, Reap
  <2>7. CASE \E c \in 0..MaxPid, b \in BOOLEAN : Wait4(p, c, b)
    BY <2>2, <2>4, <2>7, ZenonT(30) DEF Wait4
  <2>8. CASE MatchingZombie(p)
    BY <2>1, <2>2, <2>3, <2>5, <2>8, Zenon DEF MatchingZombie
  <2>9. CASE ForkChildEntry(p) \/ Exit(p) \/ OtherCall(p) \/ ExitCurrent(p)
             \/ FutexWait(p) \/ FutexWake(p) \/ WaitChild(p)
    BY <2>1, <2>9, ZenonT(30) DEF ForkChildEntry, Exit, OtherCall, ExitCurrent, FutexWait, FutexWake, WaitChild
  <2>. QED
    BY <2>6, <2>7, <2>8, <2>9, ZenonT(30)
<1>. QED
  BY <1>1, <1>2, Zenon DEF NeverBlocked

\* The calls on signals, which end with the mask without SIGKILL and SIGSTOP.
LEMMA CloneFillTypes ==
  ASSUME TypeOK, NeverBlocked, Core, NEW p \in Pid, program' = program, CloneFill(p)
  PROVE  TypeOK' /\ NeverBlocked'
<1>1. arg[p].child \in Pid
  <2>1. CoreOf(p) /\ pc[p] = "clone"
    BY CoreSplit, Zenon DEF CloneFill, At
  <2>. QED
    BY <2>1, Zenon DEF CoreOf, TypeOK
<1>2. TypeOK'
  BY <1>1, ZenonT(30) DEF CloneFill, TypeOK, Goto, Points, procVars, eventVars
<1>3. \A q \in Pid : \E r \in Pid : blocked'[q] = blocked[r]
  BY <1>1, Zenon DEF CloneFill, TypeOK
<1>4. \A q \in Pid : \E r \in Pid : frames'[q] = frames[r]
  BY <1>1, Zenon DEF CloneFill, TypeOK
<1>5. arg' = arg
  BY Zenon DEF CloneFill
<1>6. NeverBlocked'
  BY <1>3, <1>4, <1>5, SMTT(30) DEF NeverBlocked
<1>. QED
  BY <1>2, <1>6, Zenon

LEMMA ExecveTypes ==
  ASSUME TypeOK, NeverBlocked, NEW p \in Pid, program' = program, Execve(p)
  PROVE  TypeOK' /\ NeverBlocked'
<1>1. actions' \in [Pid -> [Signal -> SignalAction]]
  BY ActionTypes, ZenonT(30) DEF Execve, TypeOK
<1>2. frames' = [frames EXCEPT ![p] = <<>>] /\ <<>> \in Seq(SUBSET Signal)
  BY DEF Execve
<1>3. frames' \in [Pid -> Seq(SUBSET Signal)] /\ pending' \in [Pid -> SUBSET Signal]
  BY <1>2, ZenonT(30) DEF Execve, TypeOK
<1>4. pc' \in [Pid -> Points] /\ UNCHANGED <<next, processes, parent, zombie, childEvents, signalEvents, blocked, arg>>
  BY Zenon DEF Execve, TypeOK, Goto, Points, procVars, eventVars
<1>5. TypeOK'
  BY <1>1, <1>3, <1>4, ZenonT(30) DEF TypeOK
<1>6. \A q \in Pid : \A i \in DOMAIN frames'[q] : i \in DOMAIN frames[q] /\ frames'[q][i] = frames[q][i]
  BY <1>2, SMTT(30) DEF TypeOK
<1>7. NeverBlocked'
  BY <1>4, <1>6, Zenon DEF NeverBlocked
<1>. QED
  BY <1>5, <1>7, Zenon

LEMMA EnqueueTypes ==
  ASSUME TypeOK, NEW t \in Pid, NEW s, Enqueue(t, s)
  PROVE  pending' \in [Pid -> SUBSET Signal] /\ signalEvents' \in [Pid -> Nat]
BY SMTT(30) DEF Enqueue, TypeOK

LEMMA ExitNotifyTypes ==
  ASSUME TypeOK, NeverBlocked, NEW p \in Pid, program' = program, ExitNotify(p)
  PROVE  TypeOK' /\ NeverBlocked'
<1>1. /\ pending' \in [Pid -> SUBSET Signal] /\ signalEvents' \in [Pid -> Nat]
      /\ childEvents' \in [Pid -> Nat]
  <2>1. CASE parent[p] # 0 /\ parent[p] \in processes
    <3>1. parent[p] \in Pid /\ Enqueue(parent[p], SIGCHLD)
      BY <2>1, Zenon DEF ExitNotify, TypeOK
    <3>2. /\ childEvents' = [childEvents EXCEPT ![parent[p]] = childEvents[parent[p]] + 1]
          /\ childEvents \in [Pid -> Nat]
      BY <2>1, ZenonT(30) DEF ExitNotify, TypeOK
    <3>3. childEvents' \in [Pid -> Nat]
      BY <3>1, <3>2
    <3>. QED
      BY <3>1, <3>3, EnqueueTypes, Zenon
  <2>2. CASE ~(parent[p] # 0 /\ parent[p] \in processes)
    BY <2>2, Zenon DEF ExitNotify, TypeOK, eventVars
  <2>. QED
    BY <2>1, <2>2, Zenon
<1>2. pc' \in [Pid -> Points]
  BY Zenon DEF ExitNotify, TypeOK, Points
<1>3. UNCHANGED <<next, processes, parent, zombie, actions, blocked, frames, arg>>
  BY Zenon DEF ExitNotify, procVars
<1>. QED
  BY <1>1, <1>2, <1>3, ZenonT(30) DEF TypeOK, NeverBlocked

LEMMA KillTypes ==
  ASSUME TypeOK, NeverBlocked, NEW p \in Pid, NEW t \in Pid, NEW s \in Signal,
         program' = program, Kill(p, t, s)
  PROVE  TypeOK' /\ NeverBlocked'
<1>1. pending' \in [Pid -> SUBSET Signal] /\ signalEvents' \in [Pid -> Nat]
  BY EnqueueTypes, Zenon DEF Kill
<1>. QED
  BY <1>1, ZenonT(30) DEF Kill, Goto, TypeOK, NeverBlocked, Points, procVars

LEMMA SigActionTypes ==
  ASSUME TypeOK, NeverBlocked, NEW p \in Pid, NEW s \in Signal,
         NEW a \in Handlers \cup {SIG_DFL, SIG_IGN}, program' = program, SigAction(p, s, a)
  PROVE  TypeOK' /\ NeverBlocked'
<1>1. a \in SignalAction
  BY ActionTypes, Zenon
<1>2. [a EXCEPT !.mask = @ \ UNBLOCKABLE_MASK] \in SignalAction
  <2>1. a.mask \ UNBLOCKABLE_MASK \in SUBSET Signal
    BY <1>1, Zenon DEF SignalAction
  <2>. QED
    BY <1>1, <2>1, ActionTypes, Zenon
<1>3. actions' \in [Pid -> [Signal -> SignalAction]]
  BY <1>2, Zenon DEF SigAction, TypeOK
<1>. QED
  BY <1>3, ZenonT(30) DEF SigAction, Goto, TypeOK, NeverBlocked, Points, procVars, eventVars

LEMMA SigProcMaskTypes ==
  ASSUME TypeOK, NeverBlocked, NEW p \in Pid, NEW how \in Hows, NEW set \in Masks,
         program' = program, SigProcMask(p, how, set)
  PROVE  TypeOK' /\ NeverBlocked'
<1>. DEFINE r == set \ UNBLOCKABLE_MASK
<1>1. set \in SUBSET Signal
  BY ProcessAssumption, Zenon
<1>2. PICK m \in {blocked[p] \cup r, blocked[p] \ r, r} : blocked' = [blocked EXCEPT ![p] = m]
  BY ZenonT(30) DEF SigProcMask, Hows, TypeOK
<1>3. m \in SUBSET Signal /\ m \cap UNBLOCKABLE_MASK = {}
  BY <1>1, <1>2, SMTT(30) DEF TypeOK, NeverBlocked
<1>4. blocked' \in [Pid -> SUBSET Signal] /\ \A q \in Pid : blocked'[q] \cap UNBLOCKABLE_MASK = {}
  BY <1>2, <1>3 DEF TypeOK, NeverBlocked
<1>5. TypeOK'
  BY <1>4, ZenonT(30) DEF SigProcMask, Goto, TypeOK, Points, procVars, eventVars
<1>6. NeverBlocked'
  BY <1>4, ZenonT(30) DEF SigProcMask, NeverBlocked
<1>. QED
  BY <1>5, <1>6, Zenon

LEMMA SigSuspendTypes ==
  ASSUME TypeOK, NeverBlocked, NEW p \in Pid, NEW mask \in Masks, program' = program,
         SigSuspend(p, mask)
  PROVE  TypeOK' /\ NeverBlocked'
<1>1. UNCHANGED <<next, processes, parent, zombie, childEvents, signalEvents, actions, pending, frames>>
  BY Zenon DEF SigSuspend, procVars, eventVars
<1>2. pc' \in [Pid -> Points]
  BY ZenonT(30) DEF SigSuspend, Goto, TypeOK, Points
<1>3. CASE UNCHANGED <<blocked, arg>>
  BY <1>1, <1>2, <1>3, ZenonT(30) DEF TypeOK, NeverBlocked
<1>4. CASE /\ blocked' = [blocked EXCEPT ![p] = mask \ UNBLOCKABLE_MASK]
           /\ arg' = [arg EXCEPT ![p] = [NoArg EXCEPT !.old = blocked[p]]]
  <2>1. mask \ UNBLOCKABLE_MASK \in SUBSET Signal
    BY ProcessAssumption, ZenonT(30)
  <2>2. /\ [NoArg EXCEPT !.old = blocked[p]] \in Locals
        /\ [NoArg EXCEPT !.old = blocked[p]].old = blocked[p]
    BY LocalTypes, ZenonT(30) DEF TypeOK, NoArg
  <2>3. blocked' \in [Pid -> SUBSET Signal] /\ arg' \in [Pid -> Locals]
    BY <1>4, <2>1, <2>2, Zenon DEF TypeOK, Locals
  <2>4. TypeOK'
    BY <1>1, <1>2, <2>3, ZenonT(30) DEF TypeOK, Locals
  <2>5. \A q \in Pid : blocked'[q] \in {blocked[q], mask \ UNBLOCKABLE_MASK}
    BY <1>4, Zenon DEF TypeOK
  <2>6. \A q \in Pid : arg'[q].old \in {arg[q].old, blocked[q]}
    BY <1>4, <2>2, Zenon DEF TypeOK
  <2>7. NeverBlocked'
    BY <1>1, <2>5, <2>6, Zenon DEF NeverBlocked
  <2>. QED
    BY <2>4, <2>7, Zenon
<1>. QED
  BY <1>3, <1>4, Zenon DEF SigSuspend

LEMMA SigSuspendEndTypes ==
  ASSUME TypeOK, NeverBlocked, NEW p \in Pid, program' = program, SigSuspendEnd(p)
  PROVE  TypeOK' /\ NeverBlocked'
<1>1. UNCHANGED <<next, processes, parent, zombie, childEvents, actions, pending, frames>>
  BY Zenon DEF SigSuspendEnd, procVars
<1>2. pc' \in [Pid -> Points] /\ arg' = [arg EXCEPT ![p] = NoArg]
      /\ blocked' = [blocked EXCEPT ![p] = arg[p].old]
  BY Zenon DEF SigSuspendEnd, Goto, TypeOK, Points
<1>3. signalEvents' \in [Pid -> Nat]
  <2>1. /\ signalEvents \in [Pid -> Nat] /\ signalEvents[p] > 0
        /\ signalEvents' = [signalEvents EXCEPT ![p] = signalEvents[p] - 1]
    BY Zenon DEF SigSuspendEnd, TypeOK
  <2>2. signalEvents[p] \in Nat
    BY <2>1, Zenon
  <2>3. signalEvents[p] - 1 \in Nat
    BY <2>1, <2>2, SMTT(30)
  <2>. QED
    BY <2>1, <2>3, Zenon
<1>4. blocked' \in [Pid -> SUBSET Signal] /\ arg' \in [Pid -> Locals] /\ NoArg.old = {}
  BY <1>2, LocalTypes, ZenonT(30) DEF TypeOK, Locals, NoArg
<1>5. TypeOK'
  BY <1>1, <1>2, <1>3, <1>4, ZenonT(30) DEF TypeOK, Locals
<1>6. \A q \in Pid : blocked'[q] \in {blocked[q], arg[q].old} /\ arg'[q].old \in {arg[q].old, {}}
  BY <1>2, <1>4, Zenon DEF TypeOK
<1>7. NeverBlocked'
  BY <1>1, <1>6, ZenonT(30) DEF NeverBlocked
<1>. QED
  BY <1>5, <1>7

LEMMA SigReturnTypes ==
  ASSUME TypeOK, NeverBlocked, NEW p \in Pid, program' = program, SigReturn(p)
  PROVE  TypeOK' /\ NeverBlocked'
<1>1. UNCHANGED <<next, processes, parent, zombie, childEvents, signalEvents, actions, pending, arg>>
  BY Zenon DEF SigReturn, procVars, eventVars
<1>2. pc' \in [Pid -> Points]
  BY ZenonT(30) DEF SigReturn, Goto, TypeOK, Points
<1>3. CASE UNCHANGED <<blocked, frames>>
  BY <1>1, <1>2, <1>3, ZenonT(30) DEF TypeOK, NeverBlocked
<1>4. CASE /\ frames[p] # <<>>
           /\ blocked' = [blocked EXCEPT ![p] = Head(frames[p]) \ UNBLOCKABLE_MASK]
           /\ frames' = [frames EXCEPT ![p] = Tail(frames[p])]
  <2>1. frames[p] \in Seq(SUBSET Signal)
    BY Zenon DEF TypeOK
  <2>2. /\ Head(frames[p]) \in SUBSET Signal /\ Tail(frames[p]) \in Seq(SUBSET Signal)
        /\ \A i \in DOMAIN Tail(frames[p]) : \E j \in DOMAIN frames[p] : Tail(frames[p])[i] = frames[p][j]
    BY <1>4, <2>1, Pop, ZenonT(30)
  <2>3. blocked' \in [Pid -> SUBSET Signal] /\ frames' \in [Pid -> Seq(SUBSET Signal)]
    BY <1>4, <2>2, ZenonT(30) DEF TypeOK
  <2>4. TypeOK'
    BY <1>1, <1>2, <2>3, ZenonT(30) DEF TypeOK
  <2>5. \A q \in Pid : blocked'[q] \cap UNBLOCKABLE_MASK = {}
    BY <1>4, Zenon DEF TypeOK, NeverBlocked
  <2>6. \A q \in Pid : \A i \in DOMAIN frames'[q] : \E j \in DOMAIN frames[q] : frames'[q][i] = frames[q][j]
    BY <1>4, <2>2, ZenonT(30) DEF TypeOK
  <2>7. NeverBlocked'
    BY <1>1, <2>5, <2>6, SMTT(30) DEF NeverBlocked
  <2>. QED
    BY <2>4, <2>7
<1>. QED
  BY <1>3, <1>4, Zenon DEF SigReturn

LEMMA DeliverTypes ==
  ASSUME TypeOK, NeverBlocked, NEW p \in Pid, program' = program, pc[p] = "leave", Deliver(p)
  PROVE  TypeOK' /\ NeverBlocked'
<1>1. PICK s \in Lowest(Deliverable(p)) :
        /\ pending' = [pending EXCEPT ![p] = @ \ {s}]
        /\ UNCHANGED <<procVars, eventVars, arg>>
        /\ \/ UNCHANGED <<actions, blocked, frames>> /\ (UNCHANGED pc \/ Goto(p, "exit"))
           \/ PushFrame(p, s, actions[p][s]) /\ Goto(p, "user")
  BY ZenonT(30) DEF Deliver
<1>2. s \in Signal /\ actions[p][s] \in SignalAction
  BY DEF Lowest, Deliverable, TypeOK
<1>3. /\ pc' \in [Pid -> Points] /\ pending' \in [Pid -> SUBSET Signal]
      /\ UNCHANGED <<next, processes, parent, zombie, childEvents, signalEvents, arg>>
  BY <1>1, ZenonT(30) DEF Goto, TypeOK, Points, procVars, eventVars
<1>4. CASE UNCHANGED <<actions, blocked, frames>>
  BY <1>3, <1>4, ZenonT(30) DEF TypeOK, NeverBlocked
<1>5. CASE PushFrame(p, s, actions[p][s])
  <2>. DEFINE m == (blocked[p] \cup actions[p][s].mask \cup (IF actions[p][s].nodefer THEN {} ELSE {s}))
                     \ UNBLOCKABLE_MASK
              d == IF actions[p][s].resethand THEN SIG_DFL ELSE actions[p][s]
  <2>1. /\ frames' = [frames EXCEPT ![p] = <<blocked[p]>> \o frames[p]]
        /\ actions' = [actions EXCEPT ![p][s] = d]
        /\ blocked' = [blocked EXCEPT ![p] = m]
    BY <1>5, <1>2, ZenonT(30) DEF PushFrame, TypeOK
  <2>2. d \in SignalAction
    BY <1>2, ActionTypes, Zenon
  <2>3. m \in SUBSET Signal /\ m \cap UNBLOCKABLE_MASK = {}
    <3>1. blocked[p] \in SUBSET Signal /\ actions[p][s].mask \in SUBSET Signal
      BY <1>2, Zenon DEF TypeOK, SignalAction
    <3>. QED
      BY <1>2, <3>1, Zenon
  <2>. HIDE DEF m, d
  <2>4. frames[p] \in Seq(SUBSET Signal) /\ blocked[p] \in SUBSET Signal
    BY Zenon DEF TypeOK
  <2>. DEFINE g == <<blocked[p]>> \o frames[p]
  <2>5. /\ g \in Seq(SUBSET Signal)
        /\ \A i \in DOMAIN g : g[i] = blocked[p] \/ \E j \in DOMAIN frames[p] : g[i] = frames[p][j]
    BY <2>4, Push
  <2>6. frames' = [frames EXCEPT ![p] = g]
    BY <2>1, Zenon
  <2>. HIDE DEF g
  <2>7. actions' \in [Pid -> [Signal -> SignalAction]]
    BY <1>2, <2>1, <2>2, Zenon DEF TypeOK
  <2>8. blocked' \in [Pid -> SUBSET Signal] /\ frames' \in [Pid -> Seq(SUBSET Signal)]
    BY <2>1, <2>3, <2>5, <2>6, ZenonT(30) DEF TypeOK
  <2>9. TypeOK'
    BY <1>3, <2>7, <2>8, ZenonT(30) DEF TypeOK
  <2>10. \A q \in Pid : blocked'[q] \cap UNBLOCKABLE_MASK = {}
    BY <2>1, <2>3, Zenon DEF TypeOK, NeverBlocked
  <2>11. \A q \in Pid : \A i \in DOMAIN frames'[q] :
           frames'[q][i] = blocked[q] \/ \E j \in DOMAIN frames[q] : frames'[q][i] = frames[q][j]
    <3>1. \A q \in Pid : frames'[q] = IF q = p THEN g ELSE frames[q]
      BY <2>6, Zenon DEF TypeOK
    <3>. QED
      BY <3>1, <2>5
  <2>12. NeverBlocked'
    <3>1. \A q \in Pid : arg'[q].old \cap UNBLOCKABLE_MASK = {}
      BY <1>3, ZenonT(30) DEF NeverBlocked
    <3>2. ASSUME NEW q \in Pid, NEW i \in DOMAIN frames'[q]
          PROVE  frames'[q][i] \cap UNBLOCKABLE_MASK = {}
      <4>1. /\ blocked[q] \cap UNBLOCKABLE_MASK = {}
            /\ \A j \in DOMAIN frames[q] : frames[q][j] \cap UNBLOCKABLE_MASK = {}
        BY ZenonT(30) DEF NeverBlocked
      <4>2. frames'[q][i] = blocked[q] \/ \E j \in DOMAIN frames[q] : frames'[q][i] = frames[q][j]
        BY <2>11, <3>2, Zenon
      <4>. QED
        BY <4>1, <4>2, ZenonT(30)
    <3>. QED
      BY <2>10, <3>1, <3>2, ZenonT(30) DEF NeverBlocked
  <2>. QED
    BY <2>9, <2>12, Zenon
<1>. QED
  BY <1>1, <1>4, <1>5, Zenon

\* The calls that are p's own business.
LEMMA OwnCalls ==
  ASSUME TypeOK, NEW p \in Pid,
         \/ ForkChildEntry(p) \/ Exit(p) \/ OtherCall(p) \/ FutexWait(p) \/ FutexWake(p)
         \/ \E c \in 0..MaxPid, b \in BOOLEAN : Wait4(p, c, b)
         \/ Execve(p) \/ \E s \in Signal, a \in Handlers \cup {SIG_DFL, SIG_IGN} : SigAction(p, s, a)
         \/ \E how \in Hows, set \in Masks : SigProcMask(p, how, set)
         \/ SigReturn(p) \/ Leave(p)
  PROVE  Own(p)
<1>. USE DEF At, Goto, procVars, eventVars, signalVars
<1>1. CASE ForkChildEntry(p)
  BY <1>1, Zenon DEF ForkChildEntry, Own, TypeOK
<1>2. CASE Exit(p)
  BY <1>2, Zenon DEF Exit, Own, TypeOK
<1>3. CASE OtherCall(p)
  BY <1>3, Zenon DEF OtherCall, Own, TypeOK
<1>4. CASE FutexWait(p)
  BY <1>4, SMTT(30) DEF FutexWait, Own, TypeOK
<1>5. CASE FutexWake(p)
  BY <1>5, Zenon DEF FutexWake, FutexWaiters, Own, TypeOK
<1>6. ASSUME NEW c \in 0..MaxPid, NEW b \in BOOLEAN, Wait4(p, c, b) PROVE Own(p)
  <2>1. PICK l : arg' = [arg EXCEPT ![p] = l]
    BY <1>6, ZenonT(30) DEF Wait4
  <2>. QED
    BY <1>6, <2>1, ZenonT(30) DEF Wait4, Own, TypeOK
<1>7. CASE Execve(p)
  BY <1>7, Zenon DEF Execve, Own, TypeOK
<1>8. CASE \E s \in Signal, a \in Handlers \cup {SIG_DFL, SIG_IGN} : SigAction(p, s, a)
  BY <1>8 DEF SigAction, Own, TypeOK
<1>9. ASSUME NEW how \in Hows, NEW set \in Masks, SigProcMask(p, how, set) PROVE Own(p)
  <2>1. PICK m : blocked' = [blocked EXCEPT ![p] = m]
    BY <1>9, ZenonT(30) DEF SigProcMask, Hows
  <2>. QED
    BY <1>9, <2>1, Zenon DEF SigProcMask, Own, TypeOK
<1>10. CASE SigReturn(p)
  <2>1. CASE frames[p] = <<>>
    BY <1>10, <2>1, ZenonT(30) DEF SigReturn, Own, TypeOK
  <2>2. CASE frames[p] # <<>>
    <3>1. PICK m : blocked' = [blocked EXCEPT ![p] = m]
      BY <1>10, <2>2, Zenon DEF SigReturn
    <3>. QED
      BY <1>10, <2>2, <3>1, ZenonT(30) DEF SigReturn, Own, TypeOK
  <2>. QED
    BY <2>1, <2>2, ZenonT(30)
<1>11. CASE Leave(p)
  <2>1. CASE UNCHANGED <<procVars, eventVars, signalVars, arg>> /\ Goto(p, "user")
    BY <1>11, <2>1, Zenon DEF Leave, LeaveSyscall, LeaveTrap, Own, TypeOK
  <2>2. CASE Deliver(p)
    <3>1. PICK s : /\ pending' = [pending EXCEPT ![p] = @ \ {s}]
                   /\ UNCHANGED <<procVars, eventVars, arg>>
                   /\ \/ UNCHANGED blocked /\ (UNCHANGED pc \/ Goto(p, "exit"))
                      \/ PushFrame(p, s, actions[p][s]) /\ Goto(p, "user")
      BY <2>2, ZenonT(30) DEF Deliver
    <3>2. pc[p] = "leave"
      BY <1>11, Zenon DEF Leave, LeaveSyscall, LeaveTrap
    <3>3. \A q \in Pid \ {p} : blocked'[q] = blocked[q]
      <4>1. CASE UNCHANGED blocked
        BY <4>1, Zenon
      <4>2. CASE PushFrame(p, s, actions[p][s])
        BY <4>2, ZenonT(30) DEF PushFrame, TypeOK
      <4>. QED
        BY <3>1, <4>1, <4>2, ZenonT(30)
    <3>. QED
      BY <3>1, <3>2, <3>3, ZenonT(30) DEF Own, TypeOK
  <2>. QED
    BY <1>11, <2>1, <2>2, Zenon DEF Leave, LeaveSyscall, LeaveTrap
<1>. QED
  BY <1>1, <1>2, <1>3, <1>4, <1>5, <1>6, <1>7, <1>8, <1>9, <1>10, <1>11, Zenon

\* A trap's end, types and masks.
LEMMA LeaveTypes ==
  ASSUME TypeOK, NeverBlocked, NEW p \in Pid, program' = program, Leave(p)
  PROVE  TypeOK' /\ NeverBlocked'
<1>1. CASE UNCHANGED <<procVars, eventVars, signalVars, arg>> /\ Goto(p, "user")
  BY <1>1, ZenonT(30) DEF Goto, TypeOK, NeverBlocked, Points, procVars, eventVars, signalVars
<1>2. CASE Deliver(p)
  <2>1. pc[p] = "leave"
    BY Zenon DEF Leave, LeaveSyscall, LeaveTrap, At
  <2>. QED
    BY <1>2, <2>1, DeliverTypes, Zenon
<1>. QED
  BY <1>1, <1>2, Zenon DEF Leave, LeaveSyscall, LeaveTrap

\* The calls and the kernel's steps of one process, sorted by the lemma that covers them.
LEMMA Sorted ==
  ASSUME NEW p, Syscall(p) \/ Kernel(p)
  PROVE  \/ Clone(p) \/ Spawn(p) \/ ExitCurrent(p) \/ MatchingZombie(p) \/ Reap(p) \/ WaitChild(p)
         \/ ForkChildEntry(p) \/ Exit(p) \/ OtherCall(p) \/ FutexWait(p) \/ FutexWake(p)
         \/ \E c \in 0..MaxPid, b \in BOOLEAN : Wait4(p, c, b)
         \/ CloneFill(p) \/ ExitNotify(p) \/ Execve(p) \/ SigReturn(p) \/ Leave(p) \/ SigSuspendEnd(p)
         \/ \E q \in Pid, s \in Signal : Kill(p, q, s)
         \/ \E s \in Signal, a \in Handlers \cup {SIG_DFL, SIG_IGN} : SigAction(p, s, a)
         \/ \E how \in Hows, set \in Masks : SigProcMask(p, how, set)
         \/ \E mask \in Masks : SigSuspend(p, mask)
BY ZenonT(30) DEF Syscall, Kernel

LEMMA StepKeeps ==
  ASSUME IInv, NEW p \in Pid, program' = program, Syscall(p) \/ Kernel(p)
  PROVE  IInv'
<1>. USE DEF IInv
<1>. Core
  BY Zenon DEF Core
<1>. SUFFICES TypeOK' /\ NeverBlocked' /\ Core'
  BY Zenon DEF Core
<1>1. CASE Clone(p)
  BY <1>1, ProcTypes, QuietMasks, CloneStep, Zenon
<1>2. CASE Spawn(p)
  BY <1>2, ProcTypes, QuietMasks, SpawnStep, Zenon
<1>3. CASE ExitCurrent(p)
  BY <1>3, ProcTypes, QuietMasks, ExitCurrentStep, Zenon
<1>4. CASE MatchingZombie(p)
  BY <1>4, ProcTypes, QuietMasks, MatchingZombieStep, Zenon
<1>5. CASE Reap(p)
  BY <1>5, ProcTypes, QuietMasks, ReapStep, Zenon
<1>6. CASE WaitChild(p)
  BY <1>6, ProcTypes, QuietMasks, WaitChildStep, Zenon
<1>7. CASE \/ ForkChildEntry(p) \/ Exit(p) \/ OtherCall(p) \/ FutexWait(p) \/ FutexWake(p)
           \/ \E c \in 0..MaxPid, b \in BOOLEAN : Wait4(p, c, b)
  <2>1. TypeOK' /\ NeverBlocked'
    BY <1>7, ProcTypes, QuietMasks, Zenon
  <2>2. Own(p)
    BY <1>7, OwnCalls, Zenon
  <2>. QED
    BY <2>1, <2>2, OwnStep, Zenon
<1>8. CASE CloneFill(p)
  BY <1>8, CloneFillTypes, CloneFillStep, Zenon
<1>9. CASE ExitNotify(p)
  BY <1>9, ExitNotifyTypes, ExitNotifyStep, Zenon
<1>10. CASE \/ Execve(p) \/ SigReturn(p) \/ Leave(p)
            \/ \E s \in Signal, a \in Handlers \cup {SIG_DFL, SIG_IGN} : SigAction(p, s, a)
            \/ \E how \in Hows, set \in Masks : SigProcMask(p, how, set)
  <2>1. TypeOK' /\ NeverBlocked'
    BY <1>10, ExecveTypes, SigReturnTypes, LeaveTypes, SigActionTypes, SigProcMaskTypes, Zenon
  <2>2. Own(p)
    BY <1>10, OwnCalls, Zenon
  <2>. QED
    BY <2>1, <2>2, OwnStep
<1>11. CASE SigSuspendEnd(p)
  BY <1>11, SigSuspendEndTypes, SigSuspendEndStep
<1>12. CASE \E q \in Pid, s \in Signal : Kill(p, q, s)
  BY <1>12, KillTypes, KillStep, Zenon
<1>13. CASE \E mask \in Masks : SigSuspend(p, mask)
  BY <1>13, SigSuspendTypes, SigSuspendStep, Zenon
<1>. QED
  BY Sorted, <1>1, <1>2, <1>3, <1>4, <1>5, <1>6, <1>7, <1>8, <1>9, <1>10, <1>11, <1>12, <1>13, Zenon

LEMMA NextKeeps == IInv /\ [Next]_vars => IInv'
<1>. SUFFICES ASSUME IInv, [Next]_vars PROVE IInv'
  BY Zenon
<1>1. CASE Next
  <2>1. DOMAIN program \subseteq Pid
    BY PidFacts, Zenon DEF IInv
  <2>2. PICK p \in DOMAIN program : Syscall(p) \/ Kernel(p)
    BY <1>1, Zenon DEF Next
  <2>3. program' = program
    BY <1>1, Zenon DEF Next
  <2>. QED
    BY <2>1, <2>2, <2>3, StepKeeps, Zenon
<1>2. CASE UNCHANGED vars
  <2>1. UNCHANGED <<next, processes, parent, zombie, childEvents, signalEvents, actions, blocked,
                    pending, frames, program, pc, arg>>
    BY <1>2, Zenon DEF vars, procVars, eventVars, signalVars
  <2>2. \A q \in Pid : Zombies(q)' = Zombies(q) /\ Deliverable(q)' = Deliverable(q)
    BY <2>1, Zenon DEF Zombies, Matches, Deliverable
  <2>3. TypeOK'
    BY <2>1, Zenon DEF IInv, TypeOK
  <2>4. NoLostWakeup'
    BY <2>1, <2>2, ZenonT(30) DEF IInv, NoLostWakeup, At
  <2>5. TableIsSound'
    BY <2>1, <2>2, ZenonT(30) DEF IInv, TableIsSound, At
  <2>6. Birth' /\ NeverBlocked'
    BY <2>1, SMTT(30) DEF IInv, Birth, NeverBlocked, At
  <2>. QED
    BY <2>3, <2>4, <2>5, <2>6, Zenon DEF IInv
<1>. QED
  BY <1>1, <1>2, Zenon

LEMMA InitHolds == Init => IInv
<1>. SUFFICES ASSUME Init PROVE IInv
  BY Zenon
<1>1. MaxPid \in Nat /\ MaxPid # 0
  BY ProcessAssumption
<1>2. TypeOK
  <2>1. NoArg \in Locals /\ 1 \in Pid /\ <<>> \in Seq(SUBSET Signal)
    BY <1>1 DEF NoArg, Locals, Pid
  <2>2. NewActions \in [Signal -> SignalAction]
    BY ActionTypes, Zenon DEF NewActions
  <2>3. /\ next \in Pid /\ processes \in SUBSET Pid /\ parent \in [Pid -> 0..MaxPid]
        /\ childEvents \in [Pid -> Nat] /\ signalEvents \in [Pid -> Nat]
    BY <1>1, <2>1 DEF Init
  <2>4. zombie \in [Pid -> BOOLEAN] /\ program \in Programs /\ pc \in [Pid -> Points]
    BY Zenon DEF Init, Points
  <2>5. /\ actions \in [Pid -> [Signal -> SignalAction]] /\ blocked \in [Pid -> SUBSET Signal]
        /\ pending \in [Pid -> SUBSET Signal] /\ frames \in [Pid -> Seq(SUBSET Signal)]
        /\ arg \in [Pid -> Locals]
    BY <2>1, <2>2, Zenon DEF Init
  <2>. QED
    BY <2>3, <2>4, <2>5, Zenon DEF TypeOK, Locals
<1>3. /\ \A p \in Pid : pc[p] = (IF p = 1 THEN "user" ELSE "none") /\ ~zombie[p]
      /\ next = 1 /\ processes = {1}
  BY Zenon DEF Init
<1>4. NoLostWakeup /\ TableIsSound
  BY <1>3, Zenon DEF NoLostWakeup, TableIsSound, At
<1>5. Birth
  BY <1>1, <1>3, SMTT(30) DEF Birth, At, Pid
<1>6. NeverBlocked
  BY DEF Init, NeverBlocked, NoArg
<1>. QED
  BY <1>2, <1>4, <1>5, <1>6, Zenon DEF IInv

\* IInv holds in every state of every system of processes (sched/mod.rs, syscall/mod.rs).
THEOREM Inductive == Spec => []IInv
BY InitHolds, NextKeeps, PTL DEF Spec

\* No wakeup is lost between a parent's look for zombies and its sleep, nor between a
\* signal and sigsuspend (sys_wait4, exit_current, sys_rt_sigsuspend, sys_kill).
THEOREM WakeupsKept == Spec => []NoLostWakeup
<1>1. IInv => NoLostWakeup
  BY Zenon DEF IInv
<1>. QED
  BY <1>1, Inductive, PTL

\* The two expects on the process table never fail (sys_wait4, exit_current).
THEOREM TableSound == Spec => []TableIsSound
<1>1. IInv => TableIsSound
  BY Zenon DEF IInv
<1>. QED
  BY <1>1, Inductive, PTL

(***************************************************************************)
(* The mask a program set is kept                                          *)
(***************************************************************************)

\* q's mask, frames and, if it sleeps in sigsuspend, the saved mask are as before.
Same(q) ==
  /\ blocked'[q] = blocked[q] /\ frames'[q] = frames[q]
  /\ \/ pc[q] # "suspend" /\ pc'[q] # "suspend"
     \/ pc'[q] = pc[q] /\ arg'[q] = arg[q]

LEMMA SameMask ==
  ASSUME NEW q, Same(q)
  PROVE  OwnMask(q)' = OwnMask(q)
BY Zenon DEF Same, OwnMask, At

\* The calls that leave the masks alone, of whichever process.
LEMMA QuietSame ==
  ASSUME IInv, NEW p \in Pid, NEW q \in Pid,
         \/ Clone(p) \/ Spawn(p) \/ ExitCurrent(p) \/ MatchingZombie(p) \/ Reap(p) \/ WaitChild(p)
         \/ ForkChildEntry(p) \/ Exit(p) \/ OtherCall(p) \/ FutexWait(p) \/ FutexWake(p)
         \/ \E c \in 0..MaxPid, b \in BOOLEAN : Wait4(p, c, b)
         \/ ExitNotify(p) \/ \E t \in Pid, s \in Signal : Kill(p, t, s)
         \/ \E s \in Signal, a \in Handlers \cup {SIG_DFL, SIG_IGN} : SigAction(p, s, a)
  PROVE  pc[q] = "none" \/ Same(q)
<1>. USE DEF At, Goto
<1>. TypeOK
  BY Zenon DEF IInv
<1>1. UNCHANGED <<blocked, frames>>
  BY ZenonT(30) DEF Clone, Spawn, ForkChildEntry, Exit, OtherCall, ExitCurrent, FutexWait, FutexWake,
         Wait4, MatchingZombie, Reap, WaitChild, ExitNotify, Kill, SigAction, signalVars
<1>2. CASE Spawn(p)
  <2>1. pc[p] = "spawn" /\ arg[p].child \in Pid /\ pc[arg[p].child] = "none"
    BY <1>2, ZenonT(30) DEF Spawn, IInv, Birth, TypeOK
  <2>2. arg'[q] = arg[q] \/ q = p
    BY <1>2, Zenon DEF Spawn, TypeOK
  <2>. QED
    BY <1>1, <1>2, <2>1, <2>2, ZenonT(30) DEF Spawn, Same, TypeOK
<1>3. CASE FutexWake(p) \/ ExitNotify(p)
  BY <1>1, <1>3, ZenonT(30) DEF FutexWake, ExitNotify, FutexWaiters, Same, TypeOK
<1>4. CASE \/ ExitCurrent(p) \/ WaitChild(p) \/ ForkChildEntry(p) \/ Exit(p) \/ OtherCall(p) \/ FutexWait(p)
           \/ \E t \in Pid, s \in Signal : Kill(p, t, s)
           \/ \E s \in Signal, a \in Handlers \cup {SIG_DFL, SIG_IGN} : SigAction(p, s, a)
  <2>1. /\ arg' = arg /\ pc[p] # "suspend"
        /\ \E point \in {"notify", "scan", "user", "exit", "leave", "futex"} : pc' = [pc EXCEPT ![p] = point]
    BY <1>4, Zenon DEF ExitCurrent, WaitChild, ForkChildEntry, Exit, OtherCall, FutexWait, Kill, SigAction
  <2>. QED
    BY <1>1, <2>1, Zenon DEF Same, TypeOK
<1>5. CASE \/ Clone(p) \/ Reap(p) \/ MatchingZombie(p)
           \/ \E c \in 0..MaxPid, b \in BOOLEAN : Wait4(p, c, b)
  <2>1. /\ pc[p] # "suspend"
        /\ \E point \in {"clone", "leave", "reap", "wait", "scan"} : pc' = [pc EXCEPT ![p] = point]
    BY <1>5, ZenonT(30) DEF Clone, Reap, MatchingZombie, Wait4
  <2>2. q = p \/ arg'[q] = arg[q]
    <3>1. CASE \E l : arg' = [arg EXCEPT ![p] = l]
      BY <3>1, Zenon DEF TypeOK
    <3>2. CASE \E c : arg' = [arg EXCEPT ![p].child = c]
      BY <3>2, Zenon DEF TypeOK
    <3>3. CASE arg' = arg
      BY <3>3, Zenon
    <3>. QED
      BY <1>5, <3>1, <3>2, <3>3, ZenonT(30) DEF Clone, Reap, MatchingZombie, Wait4
  <2>. QED
    BY <1>1, <2>1, <2>2, ZenonT(30) DEF Same, TypeOK
<1>. QED
  BY <1>2, <1>3, <1>4, <1>5, Zenon

\* Only p's own masks are touched by its calls on signals, the child's by a clone.
LEMMA OthersSame ==
  ASSUME IInv, NEW p \in Pid, NEW q \in Pid \ {p},
         \/ CloneFill(p) \/ Execve(p) \/ SigReturn(p) \/ Leave(p) \/ SigSuspendEnd(p)
         \/ \E how \in Hows, set \in Masks : SigProcMask(p, how, set)
         \/ \E mask \in Masks : SigSuspend(p, mask)
  PROVE  pc[q] = "none" \/ Same(q)
<1>. USE DEF At, Goto
<1>. TypeOK
  BY Zenon DEF IInv
<1>1. CASE CloneFill(p)
  <2>1. pc[p] = "clone" /\ arg[p].child \in Pid /\ pc[arg[p].child] = "none"
    BY <1>1, ZenonT(30) DEF CloneFill, IInv, Birth, TypeOK
  <2>. QED
    BY <1>1, <2>1, Zenon DEF CloneFill, Same, TypeOK
<1>2. CASE Execve(p)
  BY <1>2, SMTT(30) DEF Execve, Same, TypeOK
<1>3. CASE SigReturn(p)
  BY <1>3, ZenonT(30) DEF SigReturn, Same, TypeOK
<1>4. CASE Leave(p)
  <2>1. CASE UNCHANGED <<signalVars, arg>> /\ Goto(p, "user")
    BY <2>1, Zenon DEF Same, TypeOK, signalVars
  <2>2. CASE Deliver(p)
    <3>1. PICK s : /\ arg' = arg
                   /\ \/ UNCHANGED <<blocked, frames>> /\ (UNCHANGED pc \/ Goto(p, "exit"))
                      \/ PushFrame(p, s, actions[p][s]) /\ Goto(p, "user")
      BY <2>2, ZenonT(30) DEF Deliver
    <3>2. CASE UNCHANGED <<blocked, frames>> /\ (UNCHANGED pc \/ Goto(p, "exit"))
      BY <3>1, <3>2, Zenon DEF Same, TypeOK
    <3>3. CASE PushFrame(p, s, actions[p][s]) /\ Goto(p, "user")
      BY <3>1, <3>3, ZenonT(30) DEF PushFrame, Same, TypeOK
    <3>. QED
      BY <3>1, <3>2, <3>3, Zenon
  <2>. QED
    BY <1>4, <2>1, <2>2, Zenon DEF Leave, LeaveSyscall, LeaveTrap
<1>5. CASE SigSuspendEnd(p)
  BY <1>5, Zenon DEF SigSuspendEnd, Same, TypeOK
<1>6. ASSUME NEW how \in Hows, NEW set \in Masks, SigProcMask(p, how, set)
      PROVE  Same(q)
  <2>1. PICK m : blocked' = [blocked EXCEPT ![p] = m]
    BY <1>6, ZenonT(30) DEF SigProcMask, Hows
  <2>. QED
    BY <1>6, <2>1, Zenon DEF SigProcMask, Same, TypeOK
<1>7. CASE \E mask \in Masks : SigSuspend(p, mask)
  BY <1>7, ZenonT(30) DEF SigSuspend, Same, TypeOK
<1>. QED
  BY <1>1, <1>2, <1>3, <1>4, <1>5, <1>6, <1>7, Zenon

\* sigsuspend keeps the old mask and gives it back.
LEMMA SuspendMask ==
  ASSUME IInv, NEW p \in Pid, SigSuspendEnd(p) \/ \E mask \in Masks : SigSuspend(p, mask)
  PROVE  OwnMask(p)' = OwnMask(p)
<1>. USE DEF At, Goto
<1>. TypeOK
  BY Zenon DEF IInv
<1>1. CASE SigSuspendEnd(p)
  <2>1. /\ pc[p] = "suspend" /\ pc'[p] = "leave" /\ blocked'[p] = arg[p].old /\ frames' = frames
    BY <1>1, Zenon DEF SigSuspendEnd, TypeOK
  <2>. QED
    BY <2>1, ZenonT(30) DEF OwnMask
<1>2. ASSUME NEW mask \in Masks, SigSuspend(p, mask)
      PROVE  OwnMask(p)' = OwnMask(p)
  <2>1. CASE UNCHANGED <<blocked, arg>> /\ Goto(p, "leave")
    <3>1. frames' = frames /\ pc[p] = "user" /\ pc'[p] = "leave"
      BY <1>2, <2>1, Zenon DEF SigSuspend, TypeOK
    <3>. QED
      BY <2>1, <3>1, ZenonT(30) DEF OwnMask
  <2>2. CASE arg' = [arg EXCEPT ![p] = [NoArg EXCEPT !.old = blocked[p]]] /\ Goto(p, "suspend")
    <3>1. frames' = frames /\ pc[p] = "user" /\ pc'[p] = "suspend"
      BY <1>2, <2>2, Zenon DEF SigSuspend, TypeOK
    <3>2. arg'[p].old = blocked[p]
      BY <2>2, Zenon DEF TypeOK, NoArg
    <3>. QED
      BY <3>1, <3>2, Zenon DEF OwnMask
  <2>. QED
    BY <1>2, <2>1, <2>2, Zenon DEF SigSuspend
<1>. QED
  BY <1>1, <1>2, Zenon

\* A handler's frame keeps the mask at the bottom, and sigreturn gives it back.
LEMMA FrameMask ==
  ASSUME IInv, NEW p \in Pid, SigReturn(p) \/ Leave(p)
  PROVE  OwnMask(p)' = OwnMask(p)
<1>. USE DEF At, Goto
<1>1. TypeOK /\ frames[p] \in Seq(SUBSET Signal) /\ blocked[p] \in SUBSET Signal
  BY Zenon DEF IInv, TypeOK
<1>2. CASE SigReturn(p)
  <2>1. CASE frames[p] = <<>>
    <3>1. frames' = frames /\ blocked' = blocked /\ pc[p] = "user" /\ pc'[p] = "exit"
      BY <1>1, <1>2, <2>1, SMTT(30) DEF SigReturn, TypeOK
    <3>2. OwnMask(p) = blocked[p]
      BY <2>1, <3>1, Zenon DEF OwnMask
    <3>3. OwnMask(p)' = blocked'[p]
      BY <2>1, <3>1, Zenon DEF OwnMask
    <3>. QED
      BY <3>1, <3>2, <3>3, Zenon
  <2>2. CASE frames[p] # <<>>
    <3>1. /\ frames'[p] = Tail(frames[p]) /\ blocked'[p] = Head(frames[p]) \ UNBLOCKABLE_MASK
          /\ pc'[p] = "leave"
      BY <1>1, <1>2, <2>2, SMTT(30) DEF SigReturn, TypeOK
    <3>2. /\ 1 \in DOMAIN frames[p] /\ Head(frames[p]) = frames[p][1]
          /\ Tail(frames[p]) = <<>> => Head(frames[p]) = frames[p][Len(frames[p])]
          /\ Tail(frames[p]) # <<>> => Tail(frames[p])[Len(Tail(frames[p]))] = frames[p][Len(frames[p])]
      BY <1>1, <2>2, Pop, ZenonT(30)
    <3>3. frames[p][1] \cap UNBLOCKABLE_MASK = {}
      BY <3>2, Zenon DEF IInv, NeverBlocked
    <3>4. blocked'[p] = Head(frames[p])
      BY <3>1, <3>2, <3>3, Zenon
    <3>. QED
      BY <2>2, <3>1, <3>2, <3>4, ZenonT(30) DEF OwnMask
  <2>. QED
    BY <2>1, <2>2, ZenonT(30)
<1>3. CASE Leave(p)
  <2>1. pc[p] = "leave"
    BY <1>3, Zenon DEF Leave, LeaveSyscall, LeaveTrap
  <2>2. CASE UNCHANGED <<blocked, frames>> /\ (UNCHANGED pc \/ Goto(p, "exit") \/ Goto(p, "user"))
    <3>1. pc'[p] # "suspend"
      BY <1>1, <2>1, <2>2, Zenon DEF TypeOK
    <3>. QED
      BY <2>1, <2>2, <3>1, Zenon DEF OwnMask
  <2>3. ASSUME NEW s, NEW a, PushFrame(p, s, a), Goto(p, "user")
        PROVE  OwnMask(p)' = OwnMask(p)
    <3>1. frames'[p] = <<blocked[p]>> \o frames[p]
      BY <1>1, <2>3, ZenonT(30) DEF PushFrame, TypeOK
    <3>2. /\ frames'[p] # <<>>
          /\ frames'[p][Len(frames'[p])] = IF frames[p] = <<>> THEN blocked[p] ELSE frames[p][Len(frames[p])]
      <4>1. frames[p] \in Seq(SUBSET Signal) /\ blocked[p] \in SUBSET Signal
        BY <1>1, Zenon DEF TypeOK
      <4>. DEFINE g == <<blocked[p]>> \o frames[p]
      <4>2. g # <<>> /\ g[Len(g)] = IF frames[p] = <<>> THEN blocked[p] ELSE frames[p][Len(frames[p])]
        BY ONLY <4>1, Push, SMTT(30)
      <4>3. frames'[p] = g
        BY <3>1, Zenon
      <4>. HIDE DEF g
      <4>. QED
        BY <4>2, <4>3, ZenonT(30)
    <3>. QED
      BY <2>1, <3>2, Zenon DEF OwnMask
  <2>. QED
    BY <1>3, <2>2, <2>3, ZenonT(30) DEF Leave, LeaveSyscall, LeaveTrap, Deliver, signalVars
<1>. QED
  BY <1>2, <1>3, Zenon

\* What a step may do to the mask of a process.
MaskStep(q) ==
  OwnMask(q)' # OwnMask(q) =>
    \/ At(q, "none")
    \/ Execve(q)
    \/ frames[q] = <<>> /\ \E how \in Hows, set \in Masks : SigProcMask(q, how, set)

LEMMA EveryMaskStep ==
  ASSUME IInv, NEW p \in Pid, Syscall(p) \/ Kernel(p), NEW q \in Pid
  PROVE  MaskStep(q)
<1>1. CASE pc[q] = "none" \/ Same(q)
  BY <1>1, SameMask, ZenonT(30) DEF MaskStep, At
<1>2. CASE \/ Clone(p) \/ Spawn(p) \/ ExitCurrent(p) \/ MatchingZombie(p) \/ Reap(p) \/ WaitChild(p)
           \/ ForkChildEntry(p) \/ Exit(p) \/ OtherCall(p) \/ FutexWait(p) \/ FutexWake(p)
           \/ \E c \in 0..MaxPid, b \in BOOLEAN : Wait4(p, c, b)
           \/ ExitNotify(p) \/ \E t \in Pid, s \in Signal : Kill(p, t, s)
           \/ \E s \in Signal, a \in Handlers \cup {SIG_DFL, SIG_IGN} : SigAction(p, s, a)
  BY <1>1, <1>2, QuietSame, Zenon
<1>3. CASE \/ CloneFill(p) \/ Execve(p) \/ SigReturn(p) \/ Leave(p) \/ SigSuspendEnd(p)
           \/ \E how \in Hows, set \in Masks : SigProcMask(p, how, set)
           \/ \E mask \in Masks : SigSuspend(p, mask)
  <2>1. CASE q # p
    BY <1>1, <1>3, <2>1, OthersSame, Zenon
  <2>2. CASE q = p
    <3>1. CASE CloneFill(p)
      <4>1. pc[p] = "clone" /\ arg[p].child \in Pid /\ pc[arg[p].child] = "none" /\ TypeOK
        BY <3>1, ZenonT(30) DEF CloneFill, IInv, Birth, TypeOK, At
      <4>2. Same(p)
        BY <3>1, <4>1, Zenon DEF CloneFill, Same, TypeOK, Goto
      <4>. QED
        BY <1>1, <2>2, <4>2, Zenon
    <3>2. CASE Execve(p)
      BY <2>2, <3>2, ZenonT(30) DEF MaskStep
    <3>3. CASE SigReturn(p) \/ Leave(p)
      BY <2>2, <3>3, FrameMask, Zenon DEF MaskStep
    <3>4. CASE SigSuspendEnd(p) \/ \E mask \in Masks : SigSuspend(p, mask)
      BY <2>2, <3>4, SuspendMask, Zenon DEF MaskStep
    <3>5. ASSUME NEW how \in Hows, NEW set \in Masks, SigProcMask(p, how, set)
          PROVE  MaskStep(p)
      <4>1. frames' = frames
        BY <3>5, Zenon DEF SigProcMask
      <4>. QED
        BY <3>5, <4>1, Zenon DEF MaskStep, OwnMask
    <3>. QED
      BY <1>3, <2>2, <3>1, <3>2, <3>3, <3>4, <3>5, Zenon
  <2>. QED
    BY <2>1, <2>2, Zenon
<1>. QED
  BY Sorted, <1>2, <1>3, Zenon

\* Every nest of handlers and sigsuspends gives back the mask the program set
\* (korix_deliver_pending_signal, sys_rt_sigreturn, sys_rt_sigsuspend).
THEOREM MaskKept == Spec => MaskIsKept
<1>1. IInv /\ [Next]_vars =>
        [\A p \in Pid :
           OwnMask(p)' # OwnMask(p) =>
             \/ At(p, "none")
             \/ Execve(p)
             \/ frames[p] = <<>> /\ \E how \in Hows, set \in Masks : SigProcMask(p, how, set)]_vars
  <2>. SUFFICES ASSUME IInv, Next PROVE \A q \in Pid : MaskStep(q)
    BY Zenon DEF MaskStep
  <2>1. DOMAIN program \subseteq Pid
    BY PidFacts, Zenon DEF IInv
  <2>. QED
    BY <2>1, EveryMaskStep, Zenon DEF Next
<1>. QED
  BY <1>1, Inductive, PTL DEF Spec, MaskIsKept

(***************************************************************************)
(* korhv: the run loop                                                     *)
(***************************************************************************)

USE DEF Guest, Nobody, HostConsole

\* The interrupt GICC_IAR returns is one of those that are pending and enabled.
LEMMA IarPending ==
  ASSUME NEW v \in VgicState, HasPending(v)
  PROVE  Iar(v) \in v.pending /\ Iar(v) \in Nat
<1> DEFINE S == v.pending \cap v.enabled
<1>1. S \in SUBSET Nat /\ S # {}
  BY Zenon DEF HasPending, VgicState
<1> DEFINE Less == {ss \in Nat \X Nat : ss[1] < ss[2]}
<1>2. IsWellFoundedOn(Less, Nat)
  BY NatLessThanWellFounded, Zenon DEF OpToRel
<1>3. PICK n \in S : \A m \in S : ~(<<m, n>> \in Less)
  <2> HIDE DEF S, Less
  <2> QED BY <1>1, <1>2, WFMin, ZenonT(30)
<1>4. ASSUME NEW m \in S PROVE n =< m
  <2>1. m \in Nat /\ n \in Nat
    BY <1>1, Zenon
  <2>2. m < n => <<m, n>> \in Less
    BY <2>1, Zenon
  <2>3. ~(<<m, n>> \in Less)
    BY <1>3, Zenon
  <2> HIDE DEF S, Less
  <2> QED BY <2>1, <2>2, <2>3
<1>5. Min(S) \in S
  BY <1>4, Zenon DEF Min
<1> QED BY <1>1, <1>5, Zenon DEF Iar

\* What the operations of the emulated GIC leave pending.
LEMMA InjectOp ==
  ASSUME NEW v \in VgicState, NEW irq \in Nat
  PROVE  /\ Inject(v, irq) \in VgicState
         /\ Inject(v, irq).pending = v.pending \cup {irq}
  BY Zenon DEF Inject, VgicState

LEMMA AcknowledgeOp ==
  ASSUME NEW v \in VgicState
  PROVE  /\ Acknowledge(v) \in VgicState
         /\ v.pending \subseteq Acknowledge(v).pending \cup {Iar(v)}
  BY IarPending, ZenonT(30) DEF Acknowledge, VgicState

LEMMA EoirOp ==
  ASSUME NEW v \in VgicState, NEW irq \in Nat
  PROVE  Eoir(v, irq) \in VgicState /\ Eoir(v, irq).pending = v.pending
  BY DEF Eoir, VgicState, NoIrq

LEMMA GicdWriteOp ==
  ASSUME NEW v \in VgicState, NEW irq \in Nat,
         NEW reg \in {"isenabler", "icenabler", "ispendr", "icpendr"}
  PROVE  /\ GicdWrite(v, reg, {irq}) \in VgicState
         /\ reg # "icpendr" => v.pending \subseteq GicdWrite(v, reg, {irq}).pending
         /\ v.pending \subseteq GicdWrite(v, reg, {irq}).pending \cup {irq}
  BY Zenon DEF GicdWrite, VgicState

\* What a handler may do to the guest it serves: anything but its saved
\* registers and timer, as long as its pending timer interrupt stays.
Serves(i, g) ==
  /\ g \in GuestState
  /\ g.vcpu = gs[i].vcpu /\ g.el1 = gs[i].el1 /\ g.cntv = gs[i].cntv
  /\ Timer \in gs[i].vgic.pending => Timer \in g.vgic.pending

LEMMA ServeKeeps ==
  ASSUME HvTypeOK, NEW i \in Guest, NEW g, Serves(i, g)
  PROVE  [gs EXCEPT ![i] = g] \in [Guest -> GuestState]
  BY Zenon DEF HvTypeOK, Serves

\* Stopping a guest and passing the CPU on.
LEMMA StopServes ==
  ASSUME HvTypeOK, Stop
  PROVE  /\ cur' \in Guest
         /\ \E g : Serves(cur, g) /\ gs' = [gs EXCEPT ![cur] = g]
<1> DEFINE g == [gs[cur] EXCEPT !.done = TRUE]
<1>1. cur' \in Guest
  BY DEF HvTypeOK, Stop
<1>2. Serves(cur, g)
  BY ZenonT(30) DEF HvTypeOK, Serves, GuestState
<1>3. gs' = [gs EXCEPT ![cur] = g]
  BY Zenon DEF HvTypeOK, Stop
<1> QED BY <1>1, <1>2, <1>3, ZenonT(30)

\* A handler that only serves a guest, moves on to the loop and leaves the
\* CPU's context alone keeps the invariant.
LEMMA ServeStep ==
  ASSUME HvInv, at = "handle", at' = "loop" \/ at' = "handle",
         at' = "handle" => cur' = cur,
         NEW i \in Guest, NEW g, Serves(i, g), gs' = [gs EXCEPT ![i] = g],
         cur' \in Guest, UNCHANGED <<prev, hw, own, armed>>
  PROVE  ContextKept' /\ TimerKept'
<1>1. gs \in [Guest -> GuestState]
  BY Zenon DEF HvInv, HvTypeOK
<1>2. \A j \in Guest : /\ gs'[j].vcpu = gs[j].vcpu /\ gs'[j].el1 = gs[j].el1
                       /\ gs'[j].cntv = gs[j].cntv
                       /\ Timer \in gs[j].vgic.pending => Timer \in gs'[j].vgic.pending
  BY <1>1, Zenon DEF Serves
<1>3. ContextKept'
  BY <1>2 DEF HvInv, ContextKept
<1>4. TimerKept'
  BY <1>2 DEF HvInv, HvTypeOK, TimerKept
<1> QED BY <1>3, <1>4, Zenon

-----------------------------------------------------------------------------

\* What a guest, or the hypervisor for it, does to the timer.
LEMMA CpuTimer ==
  ASSUME NEW h \in CpuState, NEW c \in BOOLEAN,
         NEW w, w = [h EXCEPT !.cntv = c]
  PROVE  /\ w \in CpuState
         /\ w.cntv = c /\ w.vcpu = h.vcpu /\ w.el1 = h.el1 /\ w.root = h.root
  BY Zenon DEF CpuState

LEMMA InitHvInv == HvInit => HvInv
<1> SUFFICES ASSUME HvInit PROVE HvInv
  BY Zenon
<1> USE DEF HvInit
<1>1. NewGuest \in GuestState
  BY DEF NewGuest, GuestState, NewVgic, VgicState, NewVuart, NoIrq
<1>2. HvTypeOK
  BY <1>1 DEF HvTypeOK, IrqOps, CpuState
<1>3. ContextKept
  BY Zenon DEF ContextKept, NewGuest
<1>4. TimerKept
  BY Zenon DEF TimerKept
<1> QED BY <1>2, <1>3, <1>4, Zenon DEF HvInv

\* The loop's end.
LEMMA LoopKeeps == HvInv /\ Finish => HvInv'
<1> SUFFICES ASSUME HvInv, Finish PROVE HvInv'
  BY Zenon
<1> USE DEF HvInv, Finish, deviceVars, guestVars
<1>1. cur' \in Guest /\ at' \in {"loop", "end"}
  BY Zenon DEF HvTypeOK
<1>2. HvTypeOK'
  BY <1>1, ZenonT(30) DEF HvTypeOK
<1>3. ContextKept'
  BY Zenon DEF ContextKept, HvTypeOK
<1>4. TimerKept'
  BY Zenon DEF TimerKept
<1> QED BY <1>2, <1>3, <1>4, Zenon

\* The switch: the context on the CPU goes to the guest it belongs to.
LEMMA EnterKeeps == HvInv /\ Enter => HvInv'
<1> SUFFICES ASSUME HvInv, Enter PROVE HvInv'
  OBVIOUS
<1> USE DEF HvInv, Enter, deviceVars, guestVars
<1>1. gs \in [Guest -> GuestState] /\ cur \in Guest /\ prev \in Guest \cup {Nobody}
  BY Zenon DEF HvTypeOK
<1>2. /\ hw \in CpuState
      /\ own \in [Guest -> Nat]
  BY Zenon DEF HvTypeOK
<1>3. HasPending(gs[cur].vgic) \in BOOLEAN
  BY Zenon DEF HasPending
<1>4. /\ gs[cur].vcpu \in Nat /\ gs[cur].el1 \in Nat /\ gs[cur].cntv \in BOOLEAN
  BY <1>1, Zenon DEF GuestState
<1>5. CASE cur = prev
  <2>1. gs' = gs /\ hw' = [hw EXCEPT !.vcpu = gs[cur].vcpu,
                                     !.vi = HasPending(gs[cur].vgic)]
    BY <1>5, Zenon DEF Switched
  <2>2. /\ hw' \in CpuState
        /\ hw'.root = hw.root /\ hw'.el1 = hw.el1 /\ hw'.cntv = hw.cntv
        /\ hw'.vcpu = gs[cur].vcpu
    <3> DEFINE b == HasPending(gs[cur].vgic)
    <3> HIDE DEF b
    <3> QED BY <2>1, <1>2, <1>3, <1>4, ZenonT(30) DEF b, CpuState
  <2>3. HvTypeOK'
    BY <2>1, <2>2, Zenon DEF HvTypeOK
  <2>4. ContextKept'
    BY <2>1, <2>2, <1>1, <1>5 DEF ContextKept
  <2>5. TimerKept'
    BY <2>1, <2>2, <1>5, Zenon DEF TimerKept
  <2> QED BY <2>3, <2>4, <2>5, Zenon
<1>6. CASE cur # prev
  <2>1. gs' = SaveContext
    BY <1>6, Zenon DEF Switched
  <2>2. /\ gs' \in [Guest -> GuestState]
        /\ \A i \in Guest :
             /\ gs'[i].vgic = gs[i].vgic /\ gs'[i].vcpu = gs[i].vcpu
             /\ gs'[i].el1 = IF i = prev THEN hw.el1 ELSE gs[i].el1
             /\ gs'[i].cntv = IF i = prev THEN hw.cntv ELSE gs[i].cntv
    BY <2>1, <1>1, <1>2 DEF SaveContext, GuestState, CpuState
  <2> DEFINE h == [hw EXCEPT !.root = cur, !.el1 = gs[cur].el1, !.cntv = gs[cur].cntv]
  <2>3. hw' = [h EXCEPT !.vcpu = gs[cur].vcpu, !.vi = HasPending(gs[cur].vgic)]
    BY <1>6, Zenon DEF Switched
  <2>4. /\ h \in CpuState
        /\ h.root = cur /\ h.el1 = gs[cur].el1 /\ h.cntv = gs[cur].cntv
    BY <1>1, <1>2, <1>4, ZenonT(30) DEF CpuState
  <2>5. /\ hw' \in CpuState
        /\ hw'.root = cur /\ hw'.el1 = gs[cur].el1 /\ hw'.cntv = gs[cur].cntv
        /\ hw'.vcpu = gs[cur].vcpu
    <3> DEFINE b == HasPending(gs[cur].vgic)
    <3> HIDE DEF h, b
    <3> QED BY <2>3, <2>4, <1>3, <1>4, ZenonT(30) DEF CpuState, b
  <2>6. HvTypeOK'
    BY <2>2, <2>5, Zenon DEF HvTypeOK
  <2>7. ContextKept'
    BY <2>2, <2>5, <1>1, <1>6 DEF ContextKept
  <2>8. TimerKept'
    BY <2>2, <2>5, <1>1, <1>6 DEF TimerKept, HvTypeOK
  <2> QED BY <2>6, <2>7, <2>8
<1> QED BY <1>5, <1>6, Zenon

\* What a guest does to its own context.
LEMMA GuestKeeps ==
  ASSUME HvInv, (\E v \in 0..MaxValue : Compute(v)) \/ (\E on \in BOOLEAN : SetTimer(on))
  PROVE  HvInv'
<1> USE DEF HvInv, Runs, deviceVars
<1>1. /\ hw \in CpuState
      /\ own \in [Guest -> Nat] /\ cur \in Guest /\ armed \subseteq Guest
  BY Zenon DEF HvTypeOK
<1>2. MaxValue \in Nat
  BY HypervisorAssumption, Zenon
<1>3. ASSUME NEW v \in 0..MaxValue, Compute(v) PROVE HvInv'
  <2>1. v \in Nat
    BY <1>2, SMTT(30)
  <2>2. hw' = [hw EXCEPT !.vcpu = v, !.el1 = v]
    BY <1>3, ZenonT(30) DEF Compute
  <2>3. /\ hw' \in CpuState
        /\ hw'.root = hw.root /\ hw'.el1 = v /\ hw'.cntv = hw.cntv /\ hw'.vcpu = v
    BY <1>1, <2>1, <2>2, ZenonT(30) DEF CpuState
  <2>4. own' \in [Guest -> Nat] /\ own' = [own EXCEPT ![cur] = v]
    BY <1>1, <1>3, <2>1, ZenonT(30) DEF Compute
  <2>5. HvTypeOK'
    BY <1>3, <2>3, <2>4, ZenonT(30) DEF HvTypeOK, Compute
  <2>6. ContextKept'
    BY <1>1, <1>3, <2>3, <2>4, ZenonT(30) DEF ContextKept, Compute
  <2>7. TimerKept'
    BY <1>3, <2>3, ZenonT(30) DEF TimerKept, Compute
  <2> QED BY <2>5, <2>6, <2>7, Zenon
<1>4. ASSUME NEW on \in BOOLEAN, SetTimer(on) PROVE HvInv'
  <2>1. /\ hw' \in CpuState
        /\ hw'.root = hw.root /\ hw'.el1 = hw.el1 /\ hw'.vcpu = hw.vcpu
        /\ hw'.cntv = on
    BY <1>1, <1>4, CpuTimer DEF SetTimer
  <2>2. /\ armed' \subseteq Guest
        /\ armed' = IF on THEN armed \cup {cur} ELSE armed \ {cur}
    BY <1>1, <1>4, Zenon DEF SetTimer
  <2>3. HvTypeOK'
    BY <1>4, <2>1, <2>2, Zenon DEF HvTypeOK, SetTimer
  <2>4. ContextKept'
    BY <1>1, <1>4, <2>1, Zenon DEF ContextKept, SetTimer
  <2>5. TimerKept'
    BY <1>1, <1>4, <2>1, <2>2, Zenon DEF TimerKept, ContextKept, SetTimer
  <2> QED BY <2>3, <2>4, <2>5, Zenon
<1> QED BY <1>3, <1>4, Zenon

\* An exit: the general registers go back to the guest.
LEMMA LeaveKeeps ==
  ASSUME HvInv, at = "guest", NEW e, GuestExit(e),
         e.op \in IrqOps => e.irq \in Nat, e.op = "imsc" => e.tx \in BOOLEAN,
         e.op = "queue_pfn" => e.block \in Int
  PROVE  HvInv'
<1> USE DEF HvInv, GuestExit, deviceVars, guestVars
<1>1. gs \in [Guest -> GuestState] /\ cur \in Guest /\ hw.vcpu \in Nat
  BY Zenon DEF HvTypeOK, CpuState
<1>2. /\ gs' \in [Guest -> GuestState]
      /\ \A i \in Guest : /\ gs'[i].vgic = gs[i].vgic /\ gs'[i].el1 = gs[i].el1
                          /\ gs'[i].cntv = gs[i].cntv
                          /\ gs'[i].vcpu = IF i = cur THEN hw.vcpu ELSE gs[i].vcpu
  BY <1>1 DEF GuestState
<1>3. HvTypeOK'
  BY <1>2, Zenon DEF HvTypeOK
<1>4. ContextKept'
  BY <1>1, <1>2, Zenon DEF ContextKept
<1>5. TimerKept'
  BY <1>2 DEF TimerKept, HvTypeOK
<1> QED BY <1>3, <1>4, <1>5, Zenon

LEMMA ExitKeeps ==
  ASSUME HvInv, ExitIrq \/ ExitIdle \/ ExitIar \/ ExitGic \/ ExitUart \/ ExitDisk \/ ExitOther
  PROVE  HvInv'
<1>1. CASE ExitIrq
  <2>1. Signals \subseteq Nat
    BY DEF HvInv, HvTypeOK, Signals, Timer
  <2> QED BY <1>1, <2>1, LeaveKeeps, Zenon DEF ExitIrq
<1>2. CASE ExitIdle
  BY <1>2, LeaveKeeps, Zenon DEF ExitIdle, Runs, IrqOps
<1>3. CASE ExitIar
  BY <1>3, LeaveKeeps, Zenon DEF ExitIar, Runs, IrqOps
<1>4. CASE ExitGic
  <2>1. script.irqs \subseteq Nat
    BY HypervisorAssumption, Zenon DEF HvInv, HvTypeOK
  <2> QED BY <1>4, <2>1, LeaveKeeps, Zenon DEF ExitGic, Runs
<1>5. CASE ExitUart
  BY <1>5, LeaveKeeps, ZenonT(30) DEF ExitUart, Runs, IrqOps
<1>6. CASE ExitDisk
  <2>1. QueueBlocks \subseteq Int
    BY HypervisorAssumption
  <2> QED BY <1>6, <2>1, LeaveKeeps, ZenonT(30) DEF ExitDisk, Runs, IrqOps
<1>7. CASE ExitOther
  BY <1>7, LeaveKeeps, Zenon DEF ExitOther, Runs, IrqOps
<1> QED BY <1>1, <1>2, <1>3, <1>4, <1>5, <1>6, <1>7, Zenon

\* Buffering a byte for a guest, announced or not.
LEMMA ByteServes ==
  ASSUME HvTypeOK, NEW i \in Guest
  PROVE  /\ Serves(i, Receive(gs[i]))
         /\ Serves(i, [gs[i] EXCEPT !.vuart = RxPush(@)])
         /\ Serves(i, [gs[i] EXCEPT !.vuart = RxPop(@)])
<1>1. gs[i] \in GuestState /\ gs[i].vgic \in VgicState
  BY Zenon DEF HvTypeOK, GuestState
<1>2. /\ RxPush(gs[i].vuart) \in [rxlen : Nat, txris : BOOLEAN]
      /\ RxPop(gs[i].vuart) \in [rxlen : Nat, txris : BOOLEAN]
  BY <1>1 DEF GuestState, RxPush, RxPop
<1>3. /\ Inject(gs[i].vgic, UartIrq) \in VgicState
      /\ gs[i].vgic.pending \subseteq Inject(gs[i].vgic, UartIrq).pending
  <2>1. UartIrq \in Nat
    BY Zenon DEF UartIrq
  <2> QED BY <1>1, <2>1, InjectOp, Zenon
<1> QED BY <1>1, <1>2, <1>3, ZenonT(30) DEF Serves, Receive, GuestState

\* Reading the physical serial port.
LEMMA TailSeq ==
  ASSUME NEW S, NEW s \in Seq(S), s # <<>>
  PROVE  Tail(s) \in Seq(S)
  OBVIOUS

LEMMA LineKept ==
  ASSUME HvTypeOK, line' = line \/ (line # <<>> /\ line' = Tail(line))
  PROVE  line' \in Seq(STRING)
<1>1. line \in Seq(STRING)
  BY Zenon DEF HvTypeOK
<1> QED BY <1>1, TailSeq, Zenon

LEMMA PollKeeps == HvInv /\ Poll => HvInv'
<1> SUFFICES ASSUME HvInv, Poll PROVE HvInv'
  OBVIOUS
<1> USE DEF HvInv, Poll, deviceVars, guestVars
<1>1. CASE UNCHANGED gs
  <2>1. line' \in Seq(STRING)
    BY LineKept, Zenon
  <2>2. console' \in Guest \cup {HostConsole}
    <3>1. console \in Guest \cup {HostConsole}
      BY Zenon DEF HvTypeOK
    <3>2. CASE InputGuest
      BY <3>1, <3>2, Zenon DEF InputGuest
    <3>3. CASE InputHost
      <4>1. console' = 0 \/ console' = 1 \/ console' = HostConsole
        BY <3>3, Zenon DEF InputHost
      <4> QED BY <4>1
    <3> QED BY <3>1, <3>2, <3>3, Zenon
  <2>3. HvTypeOK'
    BY <1>1, <2>1, <2>2, Zenon DEF HvTypeOK
  <2>4. ContextKept' /\ TimerKept'
    BY <1>1, Zenon DEF ContextKept, TimerKept
  <2> QED BY <2>3, <2>4, Zenon
<1>2. CASE gs' = [gs EXCEPT ![console] = Receive(@)] /\ console \in Guest /\ UNCHANGED console
  <2>1. Serves(console, Receive(gs[console]))
    BY <1>2, ByteServes, Zenon
  <2>2. gs' = [gs EXCEPT ![console] = Receive(gs[console])]
    BY <1>2, Zenon
  <2>3. gs' \in [Guest -> GuestState]
    BY <1>2, <2>1, <2>2, ServeKeeps
  <2>4. line' \in Seq(STRING)
    BY LineKept
  <2>5. HvTypeOK'
    BY <1>2, <2>3, <2>4, Zenon DEF HvTypeOK
  <2>6. \A j \in Guest : /\ gs'[j].vcpu = gs[j].vcpu /\ gs'[j].el1 = gs[j].el1
                         /\ gs'[j].cntv = gs[j].cntv
                         /\ Timer \in gs[j].vgic.pending => Timer \in gs'[j].vgic.pending
    BY <1>2, <2>1, <2>2, Zenon DEF HvTypeOK, Serves
  <2>7. ContextKept' /\ TimerKept'
    BY <2>6 DEF ContextKept, TimerKept, HvTypeOK
  <2> QED BY <2>5, <2>7
<1> QED BY <1>1, <1>2, ZenonT(30) DEF InputGuest, InputHost, HvTypeOK

\* The physical interrupts.
LEMMA IrqKeeps == HvInv /\ HandleIrq => HvInv'
<1> SUFFICES ASSUME HvInv, HandleIrq PROVE HvInv'
  OBVIOUS
<1> USE DEF HvInv, HandleIrq, Handles, deviceVars, guestVars
<1>1. /\ gs \in [Guest -> GuestState] /\ cur \in Guest /\ hw \in CpuState
      /\ gs[cur].vgic \in VgicState /\ esr.irq \in Nat
  BY Zenon DEF HvTypeOK, IrqOps, GuestState
<1>2. prev = cur
  BY Zenon DEF ContextKept
<1>3. CASE esr.irq = Timer
  <2> DEFINE v == Inject(gs[cur].vgic, Timer)
  <2>1. v \in VgicState /\ Timer \in v.pending
    BY <1>1, <1>3, InjectOp
  <2>2. /\ gs' = [gs EXCEPT ![cur].vgic = v, ![cur].cntv = FALSE]
        /\ hw' = [hw EXCEPT !.cntv = FALSE]
    BY <1>1, <1>3, Zenon DEF InjectTimer
  <2> HIDE DEF v
  <2>3. /\ gs' \in [Guest -> GuestState]
        /\ \A i \in Guest : /\ gs'[i].vcpu = gs[i].vcpu /\ gs'[i].el1 = gs[i].el1
                            /\ i # cur => gs'[i] = gs[i]
        /\ gs'[cur].vgic = v
    BY <1>1, <2>1, <2>2, ZenonT(30) DEF GuestState
  <2>4. /\ hw' \in CpuState
        /\ hw'.vcpu = hw.vcpu /\ hw'.el1 = hw.el1 /\ hw'.root = hw.root
    BY <1>1, <2>2, CpuTimer, ZenonT(30)
  <2>5. HvTypeOK'
    BY <2>2, <2>3, <2>4, Zenon DEF HvTypeOK
  <2>6. ContextKept'
    BY <2>3, <2>4, Zenon DEF ContextKept
  <2>7. TimerKept'
    BY <1>1, <1>2, <2>1, <2>3, Zenon DEF TimerKept, HvTypeOK
  <2> QED BY <2>5, <2>6, <2>7, Zenon
<1>4. CASE esr.irq # Timer
  <2> DEFINE irq == IF esr.irq = DiskIrq + 1 /\ cur = 1 THEN DiskIrq ELSE esr.irq
             g == [gs[cur] EXCEPT !.vgic = Inject(gs[cur].vgic, irq)]
  <2>1. irq \in Nat
    BY <1>1, Zenon DEF DiskIrq
  <2>2. gs' = [gs EXCEPT ![cur] = g] /\ UNCHANGED hw
    BY <1>1, <1>4, Zenon DEF InjectDevice, HvTypeOK
  <2>3. Serves(cur, g)
    <3> HIDE DEF irq
    <3>1. /\ Inject(gs[cur].vgic, irq) \in VgicState
          /\ gs[cur].vgic.pending \subseteq Inject(gs[cur].vgic, irq).pending
      BY <1>1, <2>1, InjectOp
    <3> QED BY <1>1, <3>1, Zenon DEF Serves, GuestState
  <2> HIDE DEF g
  <2>4. gs' \in [Guest -> GuestState]
    BY <1>1, <2>2, <2>3, ServeKeeps, Zenon
  <2>5. HvTypeOK'
    BY <2>2, <2>4, Zenon DEF HvTypeOK
  <2>6. ContextKept' /\ TimerKept'
    BY <1>1, <2>2, <2>3, ServeStep, ZenonT(30)
  <2> QED BY <2>5, <2>6, Zenon
<1> QED BY <1>3, <1>4, Zenon

LEMMA IdleKeeps == HvInv /\ HandleIdle => HvInv'
<1> SUFFICES ASSUME HvInv, HandleIdle PROVE HvInv'
  OBVIOUS
<1> USE DEF HvInv, HandleIdle, Handles, guestVars, deviceVars
<1>1. cur \in Guest /\ cur' \in Guest /\ line' \in Seq(STRING)
  <2>1. cur \in Guest /\ cur' \in Guest
    BY DEF HvTypeOK
  <2>2. line' \in Seq(STRING)
    BY LineKept, Zenon
  <2> QED BY <2>1, <2>2, Zenon
<1>2. CASE UNCHANGED gs
  BY <1>1, <1>2, Zenon DEF HvTypeOK, ContextKept, TimerKept
<1>3. CASE gs' = [gs EXCEPT ![cur].vuart = RxPush(@)]
  <2> DEFINE g == [gs[cur] EXCEPT !.vuart = RxPush(@)]
  <2>1. Serves(cur, g)
    BY <1>1, ByteServes, Zenon
  <2>2. gs' = [gs EXCEPT ![cur] = g]
    BY <1>1, <1>3, Zenon DEF HvTypeOK
  <2> HIDE DEF g
  <2>3. gs' \in [Guest -> GuestState]
    BY <1>1, <2>1, <2>2, ServeKeeps, Zenon
  <2>4. HvTypeOK'
    BY <1>1, <2>3, Zenon DEF HvTypeOK
  <2>5. ContextKept' /\ TimerKept'
    BY <1>1, <2>1, <2>2, ServeStep, ZenonT(30)
  <2> QED BY <2>4, <2>5, Zenon
<1> QED BY <1>2, <1>3, Zenon

\* The emulated GIC: a timer interrupt that is no longer pending was taken.
LEMMA GicKeeps == HvInv /\ HandleGic => HvInv'
<1> SUFFICES ASSUME HvInv, HandleGic PROVE HvInv'
  OBVIOUS
<1> USE DEF HvInv, HandleGic, Handles, deviceVars
<1> DEFINE v == gs[cur].vgic
           w == CASE esr.op = "iar"  -> Acknowledge(v)
                  [] esr.op = "eoir" -> Eoir(v, esr.irq)
                  [] OTHER           -> GicdWrite(v, esr.op, {esr.irq})
<1>1. /\ gs \in [Guest -> GuestState] /\ cur \in Guest
      /\ v \in VgicState /\ armed \subseteq Guest
  BY Zenon DEF HvTypeOK, GuestState
<1>2. esr.op # "iar" => esr.irq \in Nat
  BY Zenon DEF HvTypeOK, IrqOps
<1>3. /\ gs' = [gs EXCEPT ![cur].vgic = w]
      /\ armed' = IF \/ esr.op = "iar" /\ Iar(v) = Timer
                     \/ esr.op = "icpendr" /\ esr.irq = Timer /\ Timer \in v.pending
                  THEN armed \ {cur} ELSE armed
  BY Zenon
<1>4. /\ w \in VgicState
      /\ Timer \in v.pending => Timer \in w.pending \/ cur \notin armed'
  <2> HIDE DEF v
  <2>1. CASE esr.op = "iar"
    <3>1. w = Acknowledge(v)
      BY <2>1, Zenon
    <3> QED BY <1>1, <1>3, <2>1, <3>1, AcknowledgeOp, Zenon
  <2>2. CASE esr.op = "eoir"
    <3>1. w = Eoir(v, esr.irq)
      BY <2>2, Zenon
    <3> QED BY <1>1, <1>2, <2>2, <3>1, EoirOp, Zenon
  <2>3. CASE esr.op \in {"isenabler", "icenabler", "ispendr", "icpendr"}
    <3>1. w = GicdWrite(v, esr.op, {esr.irq})
      BY <2>3, Zenon
    <3>2. /\ w \in VgicState
          /\ esr.op # "icpendr" => v.pending \subseteq w.pending
          /\ v.pending \subseteq w.pending \cup {esr.irq}
      BY <1>1, <1>2, <2>3, <3>1, GicdWriteOp, ZenonT(30)
    <3> HIDE DEF w
    <3> QED BY <1>3, <2>3, <3>2, Zenon
  <2> QED BY <2>1, <2>2, <2>3, Zenon
<1> HIDE DEF v, w
<1>5. /\ gs' \in [Guest -> GuestState]
      /\ \A i \in Guest : /\ gs'[i].vcpu = gs[i].vcpu /\ gs'[i].el1 = gs[i].el1
                          /\ gs'[i].cntv = gs[i].cntv
                          /\ i # cur => gs'[i] = gs[i]
      /\ gs'[cur].vgic = w
  BY <1>1, <1>3, <1>4 DEF GuestState
<1>6. armed' \subseteq armed
  BY <1>3, Zenon
<1>7. HvTypeOK'
  BY <1>1, <1>5, <1>6, Zenon DEF HvTypeOK
<1>8. ContextKept'
  BY <1>5 DEF ContextKept
<1>9. TimerKept'
  BY <1>1, <1>4, <1>5, <1>6 DEF TimerKept, v
<1> QED BY <1>7, <1>8, <1>9, Zenon

\* The emulated serial port.
LEMMA UartKeeps == HvInv /\ HandleUart => HvInv'
<1> SUFFICES ASSUME HvInv, HandleUart PROVE HvInv'
  OBVIOUS
<1> USE DEF HvInv, HandleUart, Handles, deviceVars, guestVars
<1>1. /\ gs \in [Guest -> GuestState] /\ cur \in Guest /\ gs[cur] \in GuestState
      /\ gs[cur].vgic \in VgicState /\ UartIrq \in Nat
  BY Zenon DEF HvTypeOK, GuestState, UartIrq
<1>2. line' \in Seq(STRING)
  BY LineKept, Zenon
<1>3. CASE UNCHANGED gs
  BY <1>2, <1>3, Zenon DEF HvTypeOK, ContextKept, TimerKept
<1>4. CASE ~UNCHANGED gs
  <2> DEFINE g == UartAccess(gs[cur])
  <2>1. gs' = [gs EXCEPT ![cur] = g]
    BY <1>1, <1>4, Zenon
  <2>2. Serves(cur, g)
    <3>1. CASE esr.op = "imsc"
      <4>1. esr.tx \in BOOLEAN
        BY <3>1, Zenon DEF HvTypeOK
      <4>2. /\ Inject(gs[cur].vgic, UartIrq) \in VgicState
            /\ gs[cur].vgic.pending \subseteq Inject(gs[cur].vgic, UartIrq).pending
        BY <1>1, InjectOp, Zenon
      <4>3. Serves(cur, WriteImsc(gs[cur], esr.tx))
        BY <1>1, <4>1, <4>2, ZenonT(30) DEF WriteImsc, Serves, GuestState
      <4> QED BY <3>1, <4>3, Zenon DEF UartAccess
    <3>2. CASE esr.op = "icr"
      <4>1. Serves(cur, WriteIcr(gs[cur]))
        BY <1>1, ZenonT(30) DEF WriteIcr, Serves, GuestState
      <4> QED BY <3>2, <4>1, Zenon DEF UartAccess
    <3>3. CASE esr.op # "imsc" /\ esr.op # "icr"
      <4>1. Serves(cur, [gs[cur] EXCEPT !.vuart = RxPop(@)])
        BY <1>1, ByteServes, Zenon
      <4> QED BY <3>3, <4>1, Zenon DEF UartAccess
    <3> QED BY <3>1, <3>2, <3>3, Zenon
  <2> HIDE DEF g
  <2>3. gs' \in [Guest -> GuestState]
    BY <1>1, <2>1, <2>2, ServeKeeps, Zenon
  <2>4. HvTypeOK'
    BY <1>2, <2>3, Zenon DEF HvTypeOK
  <2>5. ContextKept' /\ TimerKept'
    BY <1>1, <2>1, <2>2, ServeStep, ZenonT(30)
  <2> QED BY <2>4, <2>5, Zenon
<1> QED BY <1>3, <1>4, Zenon

\* The forwarded virtio registers, and the exits that stop a guest or nothing.
LEMMA DeviceKeeps ==
  ASSUME HvInv, HandleQueue \/ HandleNotify \/ HandleAck \/ HandleOther \/ HandleSpurious
  PROVE  HvInv'
<1>1. HvTypeOK /\ at = "handle" /\ at' = "loop" /\ cur \in Guest
  BY Zenon DEF HvInv, HvTypeOK, HandleQueue, HandleNotify, HandleAck, HandleOther,
     HandleSpurious, Handles
<1>2. UNCHANGED <<prev, hw, esr, console, line, script, own, armed>>
  BY Zenon DEF HandleQueue, HandleNotify, HandleAck, HandleOther, HandleSpurious, guestVars
<1>3. queue' \in [Guest -> Int]
  <2>1. queue \in [Guest -> Int]
    BY <1>1, Zenon DEF HvTypeOK
  <2>2. CASE HandleQueue
    <3>1. esr.block \in Int
      BY <1>1, <2>2, Zenon DEF HvTypeOK, HandleQueue, Handles
    <3>2. Translate(cur, esr.block) \subseteq Int
      BY <1>1, <3>1 DEF Translate, Manifest
    <3> QED BY <2>1, <2>2, <3>2, <1>1, Zenon DEF HandleQueue
  <2>3. CASE HandleNotify \/ HandleAck \/ HandleOther \/ HandleSpurious
    BY <2>1, <2>3, Zenon DEF HandleNotify, HandleAck, HandleOther, HandleSpurious, deviceVars
  <2> QED BY <2>2, <2>3, Zenon
<1>4. busy' \subseteq Guest /\ spi' \subseteq Nat
  <2>1. busy \subseteq Guest /\ spi \subseteq Nat /\ DiskIrq + cur \in Nat
    BY <1>1 DEF HvTypeOK, DiskIrq
  <2>2. CASE HandleNotify
    BY <1>1, <2>1, <2>2, Zenon DEF HandleNotify
  <2>3. CASE HandleQueue \/ HandleAck \/ HandleOther \/ HandleSpurious
    BY <2>1, <2>3, ZenonT(30) DEF HandleQueue, HandleAck, HandleOther, HandleSpurious, deviceVars
  <2> QED BY <2>2, <2>3, Zenon
<1>5. CASE Stop
  <2>1. PICK g : Serves(cur, g) /\ gs' = [gs EXCEPT ![cur] = g]
    BY <1>1, <1>5, StopServes, Zenon
  <2>2. cur' \in Guest
    BY <1>1, <1>5, StopServes, Zenon
  <2>3. gs' \in [Guest -> GuestState]
    BY <1>1, <2>1, ServeKeeps, Zenon
  <2>4. HvTypeOK'
    BY <1>1, <1>2, <1>3, <1>4, <2>2, <2>3, Zenon DEF HvTypeOK
  <2>5. ContextKept' /\ TimerKept'
    BY <1>1, <1>2, <2>1, <2>2, ServeStep, ZenonT(30)
  <2> QED BY <2>4, <2>5, Zenon DEF HvInv
<1>6. CASE UNCHANGED <<gs, cur>>
  <2>1. HvTypeOK'
    BY <1>1, <1>2, <1>3, <1>4, <1>6, ZenonT(30) DEF HvTypeOK
  <2>2. ContextKept' /\ TimerKept'
    BY <1>1, <1>2, <1>6, ZenonT(30) DEF HvInv, ContextKept, TimerKept
  <2> QED BY <2>1, <2>2, Zenon DEF HvInv
<1>7. CASE HandleNotify /\ gs' = [gs EXCEPT ![cur].vgic = Inject(@, DiskIrq)] /\ UNCHANGED cur
  <2> DEFINE g == [gs[cur] EXCEPT !.vgic = Inject(gs[cur].vgic, DiskIrq)]
  <2>1. gs[cur] \in GuestState /\ gs[cur].vgic \in VgicState /\ DiskIrq \in Nat
    BY <1>1, Zenon DEF HvTypeOK, GuestState, DiskIrq
  <2>2. /\ Inject(gs[cur].vgic, DiskIrq) \in VgicState
        /\ gs[cur].vgic.pending \subseteq Inject(gs[cur].vgic, DiskIrq).pending
    BY <2>1, InjectOp, Zenon
  <2>3. Serves(cur, g)
    BY <2>1, <2>2, Zenon DEF Serves, GuestState
  <2>4. gs' = [gs EXCEPT ![cur] = g]
    BY <1>1, <1>7, Zenon DEF HvTypeOK
  <2> HIDE DEF g
  <2>5. gs' \in [Guest -> GuestState]
    BY <1>1, <2>3, <2>4, ServeKeeps, Zenon
  <2>6. HvTypeOK'
    BY <1>1, <1>2, <1>3, <1>4, <1>7, <2>5, Zenon DEF HvTypeOK
  <2>7. ContextKept' /\ TimerKept'
    BY <1>1, <1>2, <1>7, <2>3, <2>4, ServeStep, ZenonT(30)
  <2> QED BY <2>6, <2>7 DEF HvInv
<1> QED BY <1>5, <1>6, <1>7, Zenon DEF HandleQueue, HandleNotify, HandleAck, HandleOther,
       HandleSpurious

\* The keyboard and the devices.
LEMMA OutsideKeeps ==
  ASSUME HvInv, (\E key \in script.keys : Type(key)) \/ (\E i \in Guest : DeviceIrq(i))
  PROVE  HvInv'
<1>1. ASSUME NEW key \in script.keys, Type(key) PROVE HvInv'
  <2>1. line \in Seq(STRING) /\ key \in STRING
    BY HypervisorAssumption, Zenon DEF HvInv, HvTypeOK
  <2>2. line' \in Seq(STRING)
    BY <1>1, <2>1 DEF Type
  <2> QED BY <1>1, <2>2, ZenonT(30)
          DEF Type, HvInv, HvTypeOK, ContextKept, TimerKept, deviceVars, guestVars
<1>2. ASSUME NEW i \in Guest, DeviceIrq(i) PROVE HvInv'
  <2>1. busy' \subseteq Guest /\ spi' \subseteq Nat
    BY <1>2 DEF DeviceIrq, DiskIrq, HvInv, HvTypeOK
  <2>2. HvTypeOK'
    BY <1>2, <2>1, ZenonT(30) DEF DeviceIrq, HvInv, HvTypeOK, guestVars
  <2>3. ContextKept' /\ TimerKept'
    BY <1>2, ZenonT(30) DEF DeviceIrq, HvInv, ContextKept, TimerKept, guestVars
  <2> QED BY <2>2, <2>3, Zenon DEF HvInv
<1> QED BY <1>1, <1>2, Zenon

LEMMA NextHvInv == HvInv /\ [HvNext]_hvVars => HvInv'
<1> SUFFICES ASSUME HvInv, [HvNext]_hvVars PROVE HvInv'
  BY Zenon
<1>1. CASE Host
  BY <1>1, LoopKeeps, EnterKeeps, PollKeeps, IrqKeeps, IdleKeeps, GicKeeps, UartKeeps,
     DeviceKeeps, Zenon DEF Host, Handle
<1>2. CASE GuestStep
  BY <1>2, GuestKeeps, ExitKeeps, Zenon DEF GuestStep
<1>3. CASE (\E key \in script.keys : Type(key)) \/ (\E i \in Guest : DeviceIrq(i))
  BY <1>3, OutsideKeeps, Zenon
<1>4. CASE UNCHANGED hvVars
  BY <1>4 DEF hvVars, HvInv, HvTypeOK, ContextKept, TimerKept
<1> QED BY <1>1, <1>2, <1>3, <1>4, Zenon DEF HvNext

-----------------------------------------------------------------------------

\* The invariant holds for every pair of guest programs.
THEOREM HvInductive == HvSpec => []HvInv
<1>1. HvInit => HvInv
  BY InitHvInv, Zenon
<1>2. HvInv /\ [HvNext]_hvVars => HvInv'
  BY NextHvInv, Zenon
<1> QED BY <1>1, <1>2, PTL DEF HvSpec

\* A step that leaves the done flags and the turn alone.
LEMMA TurnStays ==
  ASSUME OnTurn, cur \in Guest, \A j \in Guest : gs'[j].done = gs[j].done, UNCHANGED cur,
         at \in {"guest", "exit", "handle"}
  PROVE  OnTurn'
  BY Zenon DEF OnTurn

LEMMA NextOnTurn == HvInv /\ OnTurn /\ [HvNext]_hvVars => OnTurn'
<1> SUFFICES ASSUME HvInv, OnTurn, [HvNext]_hvVars PROVE OnTurn'
  BY Zenon
<1>1. gs \in [Guest -> GuestState] /\ cur \in Guest /\ prev \in Guest \cup {Nobody}
  BY Zenon DEF HvInv, HvTypeOK
<1>2. CASE at' = "loop" /\ Stop
  <2>1. gs'[cur].done = TRUE
    BY <1>1, <1>2, Zenon DEF Stop, GuestState
  <2>2. 1 - cur' = cur
    BY <1>1, <1>2 DEF Stop
  <2> QED BY <1>2, <2>1, <2>2, Zenon DEF OnTurn
<1>3. ASSUME HandleIdle PROVE OnTurn'
  BY <1>1, <1>3 DEF OnTurn, HandleIdle, Handles, GuestState
<1>4. ASSUME Finish PROVE OnTurn'
  BY <1>4, Zenon DEF OnTurn, Finish
<1>5. ASSUME Enter PROVE OnTurn'
  BY <1>1, <1>5, Zenon DEF OnTurn, Enter, Switched, SaveContext, GuestState
<1>6. ASSUME GuestStep PROVE OnTurn'
  <2>1. at = "guest" /\ UNCHANGED cur /\ (UNCHANGED gs \/ gs' = [gs EXCEPT ![cur].vcpu = hw.vcpu])
    BY <1>6, ZenonT(30) DEF GuestStep, Compute, SetTimer, GuestExit, Runs, ExitIrq,
       ExitIdle, ExitIar, ExitGic, ExitUart, ExitDisk, ExitOther
  <2>2. \A j \in Guest : gs'[j].done = gs[j].done
    BY <1>1, <2>1 DEF GuestState
  <2> QED BY <1>1, <2>1, <2>2, TurnStays, Zenon
<1>7. ASSUME Poll PROVE OnTurn'
  <2>1. UNCHANGED gs \/ gs' = [gs EXCEPT ![console] = Receive(@)]
    BY <1>7, ZenonT(30) DEF Poll, InputGuest, InputHost
  <2>2. \A j \in Guest : gs'[j].done = gs[j].done
    <3>1. ASSUME NEW j \in Guest PROVE Receive(gs[j]).done = gs[j].done
      BY <1>1, Zenon DEF GuestState, Receive
    <3>2. ASSUME NEW j \in Guest PROVE gs'[j] = gs[j] \/ gs'[j] = Receive(gs[j])
      BY <1>1, <2>1, Zenon
    <3> QED BY <3>1, <3>2, Zenon
  <2> QED BY <1>1, <1>7, <2>2, TurnStays, Zenon DEF Poll
<1>8. ASSUME HandleIrq \/ HandleGic PROVE OnTurn'
  BY <1>1, <1>8 DEF OnTurn, HandleIrq, HandleGic, Handles, InjectTimer, InjectDevice, GuestState
<1>9. ASSUME HandleUart PROVE OnTurn'
  <2>1. UNCHANGED gs \/ gs' = [gs EXCEPT ![cur] = UartAccess(@)]
    BY <1>9, Zenon DEF HandleUart
  <2>2. UartAccess(gs[cur]).done = gs[cur].done
    BY <1>1, Zenon DEF UartAccess, WriteImsc, WriteIcr, GuestState
  <2>3. \A j \in Guest : gs'[j].done = gs[j].done
    BY <1>1, <2>1, <2>2, Zenon
  <2> QED BY <1>1, <1>9, <2>3, TurnStays, Zenon DEF HandleUart, Handles
<1>10. ASSUME HandleQueue \/ HandleNotify \/ HandleAck \/ HandleOther \/ HandleSpurious PROVE OnTurn'
  <2>1. \/ Stop
        \/ UNCHANGED cur /\ (UNCHANGED gs \/ gs' = [gs EXCEPT ![cur].vgic = Inject(@, DiskIrq)])
    BY <1>10, ZenonT(30) DEF HandleQueue, HandleNotify, HandleAck, HandleOther, HandleSpurious
  <2>2. at = "handle" /\ at' = "loop"
    BY <1>10, Zenon DEF HandleQueue, HandleNotify, HandleAck, HandleOther, HandleSpurious, Handles
  <2>3. CASE ~Stop
    <3>1. UNCHANGED cur /\ \A j \in Guest : gs'[j].done = gs[j].done
      BY <1>1, <2>1, <2>3 DEF GuestState
    <3> QED BY <1>1, <2>2, <3>1, TurnStays, Zenon
  <2> QED BY <1>2, <2>2, <2>3, Zenon
<1>11. ASSUME (\E key \in script.keys : Type(key)) \/ (\E i \in Guest : DeviceIrq(i))
       PROVE OnTurn'
  BY <1>11, Zenon DEF OnTurn, Type, DeviceIrq
<1>12. ASSUME UNCHANGED hvVars PROVE OnTurn'
  BY <1>12, Zenon DEF OnTurn, hvVars
<1> QED BY <1>3, <1>4, <1>5, <1>6, <1>7, <1>8, <1>9, <1>10, <1>11, <1>12, Zenon
        DEF HvNext, Host, Handle

\* The loop always finds a guest it can enter, or both done: the CPU is passed on by
\* every branch that stops a guest.
THEOREM TurnKept == HvSpec => []OnTurn
<1>1. HvInit => OnTurn
  BY DEF HvInit, OnTurn, NewGuest
<1>2. HvInv /\ OnTurn /\ [HvNext]_hvVars => OnTurn'
  BY NextOnTurn, Zenon
<1> QED BY <1>1, <1>2, HvInductive, PTL DEF HvSpec

\* The host blocks of the two guests are disjoint.
LEMMA RootsApart == RootsDisjoint
  BY DEF RootsDisjoint, Stage2, Manifest

\* A guest always runs with its own stage-2 root, general registers and switched EL1
\* registers (the deferred save and restore of run()).
THEOREM OwnContext == HvSpec => []ContextIsOwn
<1>1. HvInv => ContextIsOwn
  BY RootsApart DEF HvInv, HvTypeOK, ContextKept, ContextIsOwn
<1> QED BY <1>1, HvInductive, PTL

\* The timer a guest waits for is never lost at a switch or an interrupt.
THEOREM TimerSafe == HvSpec => []TimerKept
<1>1. HvInv => TimerKept
  BY Zenon DEF HvInv
<1> QED BY <1>1, HvInductive, PTL
=============================================================================
