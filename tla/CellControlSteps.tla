------------------------- MODULE CellControlSteps --------------------------
(***************************************************************************)
(* The invariant of CellControl, and the steps with which one CPU acts on  *)
(* another: suspending, kicking, resuming, parking, handing over and       *)
(* resetting CPUs, the reactions of these, and the commits with which a    *)
(* command changes the structures of all of its cell's CPUs at once.       *)
(***************************************************************************)
EXTENDS CellControl, TLAPS

\* The values of the manager's record while it works on a command.
Tasks == {"create", "undo", "start", "load", "destroy"}
DriverSteps == {"offline", "online", "await"}
HypSteps == SuspendSteps \cup {"request", "reconfig", "resume", "park", "assign", "reset"}

Manager ==
  [step : DriverSteps \cup HypSteps \cup {"idle"}, task : Tasks \cup {NONE}, cell : Cell \cup {NONE},
   todo : SUBSET Cpu, inform : SUBSET Cell, online : BOOLEAN]

\* Where a CPU is: in check_events; on its way to the parking loop or in it;
\* not executing cell code for either reason; about to be woken by an SGI that
\* no suspension asked for, or busy with one; and in code that a park or flush
\* request must not overtake.
InLoop(r) == r.pc \in {"spin", "relock"}
Parked(r) == r.pc = "off" \/ (InLoop(r) /\ r.park) \/ (r.pc = "guest" /\ r.mm = PARKING)
Halted(r) == Parked(r) \/ (InLoop(r) /\ r.suspend_cpu)
Woken(r) == ~r.suspend_cpu /\ (r.sgi \/ (InLoop(r) /\ ~r.cpu_suspended))
Running(r) == (r.pc = "guest" /\ r.mm # PARKING) \/ r.pc \in {"boot", "hyp", "kick", "wait", "cpu_on"}

\* What holds of the per_cpu structure of any CPU at any time.  A CPU has
\* acknowledged a suspension only in check_events, and does not wait there
\* unacknowledged.  Requests to park and to flush are only pending while the
\* CPU stands still.  It has the translations of its own cell, unless it will
\* drop them on its way to the parking loop, and boots at an entry its own
\* cell has set.
Sound(r) ==
  /\ r.cpu_suspended => InLoop(r)
  /\ InLoop(r) /\ r.suspend_cpu => r.cpu_suspended
  /\ r.park => ~Running(r)
  /\ r.flush_vcpu_caches => ~Running(r)
  /\ r.mm \notin {PARKING, r.cell} => Parked(r)
  /\ r.pc = "boot" => r.cpu_on_entry = r.cell
  /\ InLoop(r) /\ ~r.suspend_cpu /\ ~r.park /\ r.reset /\ r.cpu_on_entry # INVALID =>
       r.cpu_on_entry = r.cell

\* A CPU that a destroyed cell left behind ends in the parking loop whatever
\* wakes it up.  It comes up again when the root cell asks for it: the request
\* is still pending, or it is executed.
Dropped(r) == ~r.suspend_cpu /\ Parked(r) /\ (r.park => InLoop(r))
Asked(r) == r.reset /\ r.cpu_on_entry = ROOT
ComingUp(r) ==
  \/ r.sgi /\ Dropped(r) /\ Asked(r)
  \/ ~r.sgi /\ InLoop(r) /\ Asked(r) /\ ~r.park /\ ~r.suspend_cpu
  \/ ~r.sgi /\ r.pc = "boot"
  \/ ~r.sgi /\ r.pc = "guest" /\ r.mm = ROOT

\* The CPU the manager works on.
Target(c) == first_cpu(mgr[c].todo)

\* The mutex of the driver: at most one CPU runs a command.
OneManager ==
  /\ mgr \in [Cpu -> Manager]
  /\ \A c, d \in jailhouse_lock : c = d
  /\ \A c \in Cpu : mgr[c].step = "idle" <=> c \notin jailhouse_lock

\* A CPU without a command is not in a step of one, except that it may be
\* about to kick a CPU of the root cell it switches on; then no command runs.
IdleOK == \A c \in Cpu : mgr[c].step = "idle" =>
  \/ mgr[c] = Idle /\ cpu[c].pc \notin {"hyp", "kick", "wait", "cpu_on"}
  \/ /\ cpu[c].pc = "cpu_on" /\ jailhouse_lock = {} /\ cpu[c].mm = ROOT /\ cpu[c].cell = ROOT
     /\ \E d \in Cpu \ {c} : cpu[d].cell = ROOT /\ mgr[c].todo = {d}

\* Which SGIs can be pending, and where a CPU with suspend_cpu set is: in
\* check_events, unless the manager is just about to kick it or waits for it.
\* A CPU is woken for another reason only by the root cell, and while no
\* command runs or by the command itself.
EventsOK == \A d \in Cpu :
  /\ cpu[d].sgi /\ cpu[d].suspend_cpu =>
       ~InLoop(cpu[d]) /\ \E c \in jailhouse_lock : cpu[c].pc = "wait" /\ Target(c) = d
  /\ Woken(cpu[d]) =>
       /\ cpu[d].cell = ROOT
       /\ \A c \in jailhouse_lock : mgr[c].step = "await" /\ Target(c) = d
  /\ cpu[d].suspend_cpu =>
       InLoop(cpu[d]) \/ \E c \in jailhouse_lock : cpu[c].pc \in {"kick", "wait"} /\ Target(c) = d

\* CPUs of the root cell are suspended only while a hypercall is executed, and
\* those resumed stay resumed.
RootAwakeOK == \A d \in Cpu : cpu[d].cell = ROOT /\ cpu[d].suspend_cpu =>
  \E c \in jailhouse_lock : mgr[c].step \in HypSteps /\ (mgr[c].step = "resume" => d \in mgr[c].todo)

\* cell_create and cell_destroy hand over the CPUs of a cell one by one.
Parking(c) == mgr[c].step \in {"park", "assign"}
Building(x) == \E c \in jailhouse_lock :
  mgr[c].cell = x /\ mgr[c].task \in {"create", "undo"} /\ Parking(c)
Razing(x) == \E c \in jailhouse_lock :
  mgr[c].cell = x /\ mgr[c].task = "destroy" /\ Parking(c)

\* per_cpu()->cell agrees with the cells' configurations, except for the CPUs
\* being handed over.
OwnersOK ==
  /\ \A x \in Cell : \A d \in Cpu : cpu[d].cell = x =>
       d \in CpuSet[x] /\ (x \in cells \/ Building(x))
  /\ \A x \in cells : \A d \in CpuSet[x] : cpu[d].cell = x \/ Razing(x)

\* A CPU of the root cell has no entry left over from another cell.
EntriesOK == \A d \in Cpu : cpu[d].cell = ROOT =>
  \/ cpu[d].cpu_on_entry \in {ROOT, INVALID}
  \/ \E x \in Cell : Razing(x) /\ d \in CpuSet[x]

\* The CPUs of a loadable cell stand still.
LoadableOK == \A x \in loadable : \A d \in CpuSet[x] : Halted(cpu[d])

\* The CPUs of the root cell, except the manager's, stand still.
RootHalted(c) == \A d \in Cpu \ {c} : cpu[d].cell = ROOT => Halted(cpu[d])

\* All CPUs in S are suspended, dropped, in the root cell.
AllSuspended(S) == \A d \in S : cpu[d].suspend_cpu
AllDropped(S) == \A d \in S : Dropped(cpu[d])
InRoot(S) == \A d \in S : cpu[d].cell = ROOT

\* The CPU that runs the command: it belongs to the root cell, nobody suspends
\* or kicks it, and its place fits the step of its command.
ManagerCpu(c) ==
  LET m == mgr[c] IN
  /\ cpu[c].cell = ROOT /\ cpu[c].mm = ROOT /\ ~cpu[c].suspend_cpu /\ ~cpu[c].sgi
  /\ m.cell \in Cell /\ m.task \in Tasks /\ c \notin CpuSet[m.cell] /\ c \notin m.todo
  /\ \/ cpu[c].pc = "guest" /\ m.step \in DriverSteps
     \/ cpu[c].pc = "cpu_on" /\ m.step = "online" /\ m.todo # {}
     \/ cpu[c].pc = "hyp" /\ m.step \in HypSteps
     \/ cpu[c].pc \in {"kick", "wait"} /\ m.step \in SuspendSteps /\ m.todo # {} /\ cpu[Target(c)].suspend_cpu
  /\ cpu[c].pc = "kick" => ~InLoop(cpu[Target(c)])

\* From the command to the end of cell_suspend(root): the cell is there, or is
\* not, and the root cell's CPUs are suspended one after the other.
BeginOK(c) ==
  LET m == mgr[c] IN
  /\ m.step = "offline" => m.task = "create" /\ m.todo \subseteq CpuSet[m.cell]
  /\ m.step = "suspend_root" =>
       /\ m.task # "undo" /\ InRoot(m.todo)
       /\ \A d \in Cpu \ ({c} \cup m.todo) : cpu[d].cell = ROOT => cpu[d].suspend_cpu
  /\ m.step \in {"offline", "suspend_root"} =>
       IF m.task = "create" THEN m.cell \notin cells /\ InRoot(CpuSet[m.cell]) ELSE m.cell \in cells

\* Stopping the cell and, in cell_start, resetting its CPUs: those not reset
\* yet are suspended, and the entries are set for the cell, which is no longer
\* loadable.
StopOK(c) ==
  LET m == mgr[c] IN
  /\ m.step \in {"request", "timeout_request", "suspend_cell"} =>
       m.task \in {"start", "load", "destroy"} /\ m.cell \in cells /\ RootHalted(c) /\ m.todo \subseteq CpuSet[m.cell]
  /\ m.step = "suspend_cell" => AllSuspended(CpuSet[m.cell] \ m.todo)
  /\ m.step = "reset" =>
       /\ m.task = "start" /\ m.cell \in cells \ loadable
       /\ m.todo # {} /\ m.todo \subseteq CpuSet[m.cell] /\ AllSuspended(m.todo)
       /\ \A d \in CpuSet[m.cell] : cpu[d].cpu_on_entry \in {m.cell, INVALID}

\* The cell a CPU belongs to while the CPUs in todo are still to be handed
\* over.
Owner(m, d) ==
  IF m.task = "load" \/ (m.task = "create" <=> d \notin m.todo) THEN m.cell ELSE ROOT

\* Parking the cell's CPUs: all of them stand still, and the ones done have
\* their new owner.
ParkOK(c) ==
  LET m == mgr[c] IN
  Parking(c) =>
    /\ RootHalted(c) /\ m.todo \subseteq CpuSet[m.cell] /\ m.task # "start"
    /\ m.cell \in cells <=> m.task \in {"load", "destroy"}
    /\ \A d \in CpuSet[m.cell] : Halted(cpu[d]) /\ cpu[d].cell = Owner(m, d)
    /\ m.task \in {"create", "undo"} => \A d \in CpuSet[m.cell] : cpu[d].cpu_on_entry \in {ROOT, INVALID}

\* The CPUs still to be handed over, without the one in progress.
Rest(c) == IF mgr[c].step \in {"assign", "await"} THEN mgr[c].todo \ {Target(c)} ELSE mgr[c].todo

\* CPUs that wait to be parked are suspended; those of a destroyed cell that
\* are done are dropped.
ParkedOK(c) ==
  LET m == mgr[c] IN
  /\ Parking(c) /\ m.task # "undo" => AllSuspended(Rest(c))
  /\ Parking(c) /\ m.task = "destroy" => AllDropped(CpuSet[m.cell] \ Rest(c))
  /\ m.step = "assign" =>
       /\ m.task # "load" /\ m.todo # {}
       /\ Parked(cpu[Target(c)]) /\ ~cpu[Target(c)].suspend_cpu

\* The CPUs in S are back in the root cell, for the driver to switch on.
Back(c, S) ==
  /\ mgr[c].cell \notin cells /\ mgr[c].task \in {"create", "destroy"} /\ InRoot(S)
  /\ mgr[c].task = "destroy" => AllDropped(IF mgr[c].step = "await" THEN S \ {Target(c)} ELSE S)

\* Telling the other cells about the new configuration.
InformOK(c) ==
  LET m == mgr[c] IN
  /\ m.step \in {"reconfig", "timeout_info"} =>
       /\ m.inform \subseteq cells /\ m.task \in {"create", "destroy"}
       /\ m.task = "destroy" => Back(c, CpuSet[m.cell])
  /\ m.step = "timeout_info" => m.inform # {} /\ m.todo \subseteq CpuSet[NextCell(m.inform)]

\* Resuming the root cell and switching CPUs on.  A CPU taken back from a
\* destroyed cell is coming up from the moment it is asked to.
OnlineOK(c) ==
  LET m == mgr[c] IN
  /\ m.step = "resume" => InRoot(m.todo) /\ (m.online => Back(c, CpuSet[m.cell]))
  /\ m.step \in {"online", "await"} => m.todo \subseteq CpuSet[m.cell] /\ (m.todo # {} => Back(c, m.todo))
  /\ cpu[c].pc = "cpu_on" /\ m.task = "destroy" => Asked(cpu[Target(c)])
  /\ m.step = "await" => m.todo # {} /\ (m.task = "destroy" => ComingUp(cpu[Target(c)]))

\* What holds during each step of a command.
Phase(c) ==
  /\ ManagerCpu(c) /\ BeginOK(c) /\ StopOK(c) /\ ParkOK(c) /\ ParkedOK(c) /\ InformOK(c) /\ OnlineOK(c)

PhaseOK == \A c \in jailhouse_lock : Phase(c)

\* The record of every CPU is sound.
SoundOK == \A d \in Cpu : Sound(cpu[d])

\* The inductive invariant.
IInv ==
  /\ TypeOK /\ SoundOK /\ OneManager /\ IdleOK /\ EventsOK /\ RootAwakeOK
  /\ OwnersOK /\ EntriesOK /\ LoadableOK /\ PhaseOK

\* Every list of CPUs has a first one.
CpusOrdered == \A S \in SUBSET Cpu : S # {} => first_cpu(S) \in S

\* The manager's next CPU (first_cpu, next_cpu) is one of those in its list.
LEMMA FirstIn ==
  ASSUME CpusOrdered, NEW S \in SUBSET Cpu, S # {}
  PROVE  first_cpu(S) \in S
  BY DEF CpusOrdered

\* The CPU in the hypervisor for a command is the only one, and its phase
\* holds.
LEMMA Single ==
  ASSUME IInv, NEW c \in Cpu, cpu[c].pc \in {"hyp", "kick", "wait"} \/ mgr[c].step # "idle"
  PROVE  /\ jailhouse_lock = {c} /\ mgr[c].step # "idle"
         /\ Phase(c)
  BY DEF IInv, OneManager, IdleOK, PhaseOK, TypeOK

\* The places a CPU can be at.
PcSet == {"guest", "spin", "relock", "off", "boot", "cpu_on", "hyp", "kick", "wait"}

\* Every single assignment to a per_cpu structure keeps its type.
LEMMA UpdateTypes ==
  ASSUME NEW r \in PerCpu
  PROVE  /\ \A b \in BOOLEAN : [r EXCEPT !.suspend_cpu = b] \in PerCpu
         /\ \A b \in BOOLEAN : [r EXCEPT !.cpu_suspended = b] \in PerCpu
         /\ \A b \in BOOLEAN : [r EXCEPT !.reset = b] \in PerCpu
         /\ \A b \in BOOLEAN : [r EXCEPT !.sgi = b] \in PerCpu
         /\ \A b \in BOOLEAN : [r EXCEPT !.failed = b] \in PerCpu
         /\ \A b \in BOOLEAN : [r EXCEPT !.flush_vcpu_caches = b] \in PerCpu
         /\ \A x \in Cell \cup {ROOT, INVALID} : [r EXCEPT !.cpu_on_entry = x] \in PerCpu
         /\ \A x \in Cell \cup {ROOT} : [r EXCEPT !.cell = x] \in PerCpu
         /\ \A p \in PcSet : [r EXCEPT !.pc = p] \in PerCpu
         /\ enter_cpu_off(r) \in PerCpu
         /\ Park(r) \in PerCpu
<1>1. \A b \in BOOLEAN : [r EXCEPT !.suspend_cpu = b] \in PerCpu
  BY DEF PerCpu
<1>2. \A b \in BOOLEAN : [r EXCEPT !.cpu_suspended = b] \in PerCpu
  BY DEF PerCpu
<1>3. \A b \in BOOLEAN : [r EXCEPT !.reset = b] \in PerCpu
  BY DEF PerCpu
<1>4. \A b \in BOOLEAN : [r EXCEPT !.sgi = b] \in PerCpu
  BY DEF PerCpu
<1>5. \A b \in BOOLEAN : [r EXCEPT !.failed = b] \in PerCpu
  BY DEF PerCpu
<1>6. \A b \in BOOLEAN : [r EXCEPT !.flush_vcpu_caches = b] \in PerCpu
  BY DEF PerCpu
<1>7. \A x \in Cell \cup {ROOT, INVALID} : [r EXCEPT !.cpu_on_entry = x] \in PerCpu
  BY DEF PerCpu
<1>8. \A x \in Cell \cup {ROOT} : [r EXCEPT !.cell = x] \in PerCpu
  BY DEF PerCpu
<1>9. \A p \in PcSet : [r EXCEPT !.pc = p] \in PerCpu
  BY DEF PerCpu, PcSet
<1>10. enter_cpu_off(r) \in PerCpu
  BY Zenon DEF PerCpu, enter_cpu_off
<1>11. Park(r) \in PerCpu
  BY Zenon DEF PerCpu, Park
<1> QED BY <1>1, <1>2, <1>3, <1>4, <1>5, <1>6, <1>7, <1>8, <1>9, <1>10, <1>11

\* A step that does not end the hand-over of CPUs; one that changes no owner
\* and leaves no foreign entry in the root cell.
BusyKept == \A x \in Cell : (Building(x) => Building(x)') /\ (Razing(x) => Razing(x)')

OwnersSame ==
  \A e \in Cpu :
    /\ cpu'[e].cell = cpu[e].cell
    /\ cpu'[e].cpu_on_entry = cpu[e].cpu_on_entry \/ cpu'[e].cpu_on_entry \in {ROOT, INVALID}

\* Such steps keep the owners and the entries of all CPUs in order.
LEMMA OwnersKept ==
  ASSUME cells \subseteq Cell, cells' = cells, OwnersOK, EntriesOK, BusyKept, OwnersSame
  PROVE  OwnersOK' /\ EntriesOK'
<1>1. ASSUME NEW x \in Cell, NEW d \in Cpu, cpu'[d].cell = x
      PROVE  d \in CpuSet[x] /\ (x \in cells' \/ Building(x)')
  BY <1>1 DEF OwnersOK, BusyKept, OwnersSame
<1>2. ASSUME NEW x \in cells, NEW d \in CpuSet[x], d \in Cpu
      PROVE  cpu'[d].cell = x \/ Razing(x)'
  BY <1>2 DEF OwnersOK, BusyKept, OwnersSame
<1>3. EntriesOK'
  BY DEF EntriesOK, BusyKept, OwnersSame
<1> QED BY <1>1, <1>2, <1>3, CpuSetAssumption DEF OwnersOK

\* The manager's record after Goto and Finish.
Goes(c, s, todo) ==
  /\ mgr' \in [Cpu -> Manager]
  /\ \A e \in Cpu : e # c => mgr'[e] = mgr[e]
  /\ mgr'[c].step = s /\ mgr'[c].todo = todo
  /\ mgr'[c].cell = mgr[c].cell

\* Goto changes the step and the CPUs to do, and nothing else of the manager's
\* record.
LEMMA GotoEffect ==
  ASSUME IInv, NEW c \in Cpu, NEW s \in DriverSteps \cup HypSteps, NEW todo \in SUBSET Cpu,
         Goto(c, s, todo)
  PROVE  /\ Goes(c, s, todo)
         /\ mgr'[c].task = mgr[c].task /\ mgr'[c].inform = mgr[c].inform
         /\ mgr'[c].online = mgr[c].online
<1>1. mgr[c] \in Manager /\ mgr \in [Cpu -> Manager]
  BY DEF IInv, OneManager
<1>2. /\ \A e \in Cpu : e # c => mgr'[e] = mgr[e]
      /\ mgr'[c] = [mgr[c] EXCEPT !.step = s, !.todo = todo]
  BY <1>1 DEF Goto, Manager
<1>3. mgr'[c] \in Manager
  BY <1>1, <1>2, Zenon DEF Manager
<1>4. mgr' \in [Cpu -> Manager]
  BY <1>1, <1>2, <1>3 DEF Goto
<1> QED BY <1>1, <1>2, <1>4 DEF Goes, Manager

\* Finish goes on to resume the root cell.
LEMMA FinishEffect ==
  ASSUME IInv, NEW c \in Cpu, NEW online \in BOOLEAN, Finish(c, online)
  PROVE  /\ Goes(c, "resume", RootCpus \ {c})
         /\ mgr'[c].task = mgr[c].task /\ mgr'[c].inform = mgr[c].inform
         /\ mgr'[c].online = online
<1>1. mgr[c] \in Manager /\ mgr \in [Cpu -> Manager] /\ RootCpus \ {c} \in SUBSET Cpu
  BY DEF IInv, OneManager, RootCpus
<1>2. /\ \A e \in Cpu : e # c => mgr'[e] = mgr[e]
      /\ mgr'[c] = [mgr[c] EXCEPT !.step = "resume", !.todo = RootCpus \ {c}, !.online = online]
  BY <1>1 DEF Finish
<1>3. mgr'[c] \in Manager
  BY <1>1, <1>2, Zenon DEF Manager, HypSteps
<1>4. mgr' \in [Cpu -> Manager]
  BY <1>1, <1>2, <1>3 DEF Finish
<1> QED BY <1>1, <1>2, <1>4 DEF Goes, Manager

\* The command goes on on the same CPU, and the others keep their places.
LEMMA Commanding ==
  ASSUME IInv, NEW c \in Cpu, jailhouse_lock = {c}, jailhouse_lock' = {c},
         mgr' \in [Cpu -> Manager], mgr'[c].step # "idle",
         \A e \in Cpu : e # c => mgr'[e] = mgr[e] /\ cpu'[e].pc = cpu[e].pc
  PROVE  OneManager' /\ IdleOK'
<1>1. OneManager'
  BY DEF IInv, OneManager
<1>2. IdleOK'
  BY DEF IInv, OneManager, IdleOK
<1> QED BY <1>1, <1>2

-----------------------------------------------------------------------------

\* One CPU gets an SGI, from another one that thereby ends its step.
Kicks(c, d, p) == cpu' = [cpu EXCEPT ![d].sgi = TRUE, ![c].pc = p]

\* Suspending CPUs one after the other, and the SGIs that the manager sends
\* to them or to a CPU it switches on, keep the invariant.
LEMMA SuspendKeeps ==
  ASSUME IInv, CpusOrdered, NEW c \in Cpu, SuspendCpu(c) \/ Kick(c) \/ Suspended(c) \/ KickOn(c)
  PROVE  IInv'

\* A pending SGI changes neither whether the target stands still nor its
\* soundness.
<1>SgiRecord.
  ASSUME NEW r \in PerCpu, Sound(r), NEW s, s = [r EXCEPT !.sgi = TRUE]
  PROVE  /\ s \in PerCpu /\ Sound(s) /\ s.sgi
         /\ s.cell = r.cell /\ s.cpu_on_entry = r.cpu_on_entry /\ s.suspend_cpu = r.suspend_cpu
         /\ s.pc = r.pc /\ s.mm = r.mm
         /\ Halted(s) <=> Halted(r)
         /\ InLoop(s) <=> InLoop(r)
         /\ Dropped(s) <=> Dropped(r)
         /\ Parked(s) <=> Parked(r)
         /\ Asked(s) <=> Asked(r)
  <2> USE <1>SgiRecord
  <2>1. s \in PerCpu
    BY UpdateTypes, Zenon
  <2>2. /\ s.cell = r.cell /\ s.cpu_on_entry = r.cpu_on_entry /\ s.suspend_cpu = r.suspend_cpu
        /\ s.pc = r.pc /\ s.mm = r.mm /\ s.park = r.park /\ s.reset = r.reset
        /\ s.cpu_suspended = r.cpu_suspended /\ s.flush_vcpu_caches = r.flush_vcpu_caches
        /\ s.sgi
    BY DEF PerCpu
  <2>3. /\ InLoop(s) <=> InLoop(r)
        /\ Parked(s) <=> Parked(r)
        /\ Asked(s) <=> Asked(r)
        /\ Running(s) <=> Running(r)
    BY <2>2 DEF Parked, InLoop, Asked, Running
  <2>4. /\ Halted(s) <=> Halted(r)
        /\ Dropped(s) <=> Dropped(r)
    BY <2>2, <2>3 DEF Halted, Dropped
  <2>5. Sound(s)
    BY <2>2, <2>3 DEF Sound
  <2> QED BY <2>1, <2>2, <2>3, <2>4, <2>5

\* Nor does the sender's going on change anything of its per_cpu structure.
<1>PcRecord.
  ASSUME NEW r \in PerCpu, Sound(r), NEW p \in PcSet, NEW s, s = [r EXCEPT !.pc = p],
         r.mm = ROOT, r.cell = ROOT,
         r.pc \in {"guest", "hyp", "kick", "wait", "cpu_on"}, p \in {"guest", "hyp", "kick", "wait", "cpu_on"}
  PROVE  /\ s \in PerCpu /\ Sound(s) /\ s.sgi = r.sgi
         /\ s.cell = r.cell /\ s.cpu_on_entry = r.cpu_on_entry /\ s.suspend_cpu = r.suspend_cpu
         /\ s.pc = p /\ s.mm = r.mm
         /\ ~Halted(s) /\ ~Halted(r) /\ ~InLoop(s) /\ ~Dropped(s) /\ ~Dropped(r)
  <2> USE <1>PcRecord
  <2>1. s \in PerCpu
    BY UpdateTypes
  <2>2. /\ s.cell = r.cell /\ s.cpu_on_entry = r.cpu_on_entry /\ s.suspend_cpu = r.suspend_cpu
        /\ s.pc = p /\ s.mm = r.mm /\ s.park = r.park /\ s.reset = r.reset
        /\ s.cpu_suspended = r.cpu_suspended /\ s.flush_vcpu_caches = r.flush_vcpu_caches
        /\ s.sgi = r.sgi
    BY DEF PerCpu
  <2>3. /\ ~InLoop(s) /\ ~Parked(s) /\ Running(s)
        /\ ~InLoop(r) /\ ~Parked(r) /\ Running(r)
    BY <2>2 DEF Parked, InLoop, Running, ROOT, PARKING
  <2>4. Sound(s)
    BY <2>2, <2>3 DEF Sound
  <2> QED BY <2>1, <2>2, <2>3, <2>4 DEF Halted, Dropped

\* What the two CPUs look like afterwards.
<1>KickEffect.
  ASSUME NEW d \in Cpu, c # d, NEW p \in PcSet, cpu[c].mm = ROOT, cpu[c].cell = ROOT,
         cpu[c].pc \in {"guest", "hyp", "kick", "wait", "cpu_on"}, p \in {"guest", "hyp", "kick", "wait", "cpu_on"},
         Kicks(c, d, p), cells' = cells, loadable' = loadable, BusyKept
  PROVE  /\ cpu' \in [Cpu -> PerCpu]
         /\ SoundOK' /\ OwnersOK' /\ EntriesOK' /\ LoadableOK'
         /\ cpu'[c].pc = p /\ cpu'[c].mm = ROOT /\ cpu'[c].cell = ROOT
         /\ cpu'[c].sgi = cpu[c].sgi
         /\ cpu'[d].sgi
         /\ Asked(cpu[d]) => Asked(cpu'[d])
         /\ \A e \in Cpu : e # c /\ e # d => cpu'[e] = cpu[e]
         /\ \A e \in Cpu : /\ cpu'[e].cell = cpu[e].cell
                           /\ cpu'[e].suspend_cpu = cpu[e].suspend_cpu
                           /\ e # c => cpu'[e].pc = cpu[e].pc /\ cpu'[e].mm = cpu[e].mm
                           /\ Halted(cpu'[e]) <=> Halted(cpu[e])
                           /\ Dropped(cpu'[e]) <=> Dropped(cpu[e])
                           /\ InLoop(cpu[e]) => InLoop(cpu'[e])
  <2> USE <1>KickEffect
  <2>1. cpu \in [Cpu -> PerCpu] /\ cpu[c] \in PerCpu /\ cpu[d] \in PerCpu /\ Sound(cpu[c]) /\ Sound(cpu[d])
    BY DEF IInv, TypeOK, SoundOK
  <2>2. /\ cpu'[d] = [cpu[d] EXCEPT !.sgi = TRUE]
        /\ cpu'[c] = [cpu[c] EXCEPT !.pc = p]
        /\ \A e \in Cpu : e # c /\ e # d => cpu'[e] = cpu[e]
    BY <2>1, Zenon DEF Kicks
  <2>3. /\ cpu'[c] \in PerCpu /\ Sound(cpu'[c]) /\ cpu'[c].sgi = cpu[c].sgi
        /\ cpu'[c].cell = cpu[c].cell /\ cpu'[c].cpu_on_entry = cpu[c].cpu_on_entry
        /\ cpu'[c].suspend_cpu = cpu[c].suspend_cpu /\ cpu'[c].pc = p /\ cpu'[c].mm = cpu[c].mm
        /\ ~Halted(cpu'[c]) /\ ~Halted(cpu[c]) /\ ~Dropped(cpu'[c]) /\ ~Dropped(cpu[c])
    BY <2>1, <2>2, <1>PcRecord
  <2>4. /\ cpu'[d] \in PerCpu /\ Sound(cpu'[d]) /\ cpu'[d].sgi
        /\ cpu'[d].cell = cpu[d].cell /\ cpu'[d].cpu_on_entry = cpu[d].cpu_on_entry
        /\ cpu'[d].suspend_cpu = cpu[d].suspend_cpu /\ cpu'[d].pc = cpu[d].pc /\ cpu'[d].mm = cpu[d].mm
        /\ Halted(cpu'[d]) <=> Halted(cpu[d])
        /\ InLoop(cpu'[d]) <=> InLoop(cpu[d])
        /\ Dropped(cpu'[d]) <=> Dropped(cpu[d])
        /\ Asked(cpu'[d]) <=> Asked(cpu[d])
    BY <2>1, <2>2, <1>SgiRecord
  <2>5. cpu' \in [Cpu -> PerCpu]
    BY <2>1, <2>2, <2>3, <2>4 DEF Kicks
  <2>6. SoundOK'
    BY <2>2, <2>3, <2>4 DEF IInv, SoundOK
  <2>7. ASSUME NEW e \in Cpu
        PROVE  /\ cpu'[e].cell = cpu[e].cell
               /\ cpu'[e].cpu_on_entry = cpu[e].cpu_on_entry
               /\ cpu'[e].suspend_cpu = cpu[e].suspend_cpu
               /\ e # c => cpu'[e].pc = cpu[e].pc /\ cpu'[e].mm = cpu[e].mm
               /\ Halted(cpu'[e]) <=> Halted(cpu[e])
               /\ Dropped(cpu'[e]) <=> Dropped(cpu[e])
               /\ InLoop(cpu[e]) => InLoop(cpu'[e])
    <3>1. CASE e = c
      BY <2>3, <3>1 DEF InLoop
    <3>2. CASE e = d
      BY <2>4, <3>2
    <3> QED BY <2>2, <3>1, <3>2
  <2>8. OwnersOK' /\ EntriesOK'
    BY <2>7, OwnersKept DEF OwnersSame, IInv, TypeOK
  <2>9. LoadableOK'
    BY <2>7, CpuSetAssumption DEF IInv, LoadableOK, TypeOK
  <2> QED BY <2>2, <2>3, <2>4, <2>5, <2>6, <2>7, <2>8, <2>9

\* arm_cpu_kick after psci_emulate_cpu_on released the lock: the CPU asked for
\* is still waiting for power-on, whatever happened since the request.
<1>KickOn. CASE KickOn(c)
  <2> USE <1>KickOn
  <2> DEFINE p == "guest"
  <2>1. /\ cpu[c].pc = "cpu_on"
        /\ cpu' = [cpu EXCEPT ![Target(c)].sgi = TRUE, ![c].pc = "guest"]
        /\ mgr' = [mgr EXCEPT ![c] = IF @.step = "online" THEN [@ EXCEPT !.step = "await"] ELSE Idle]
        /\ UNCHANGED <<cells, cell_state, loadable, offlined, jailhouse_lock>>
    BY DEF KickOn, cellVars, driverVars, Target
  <2>2. mgr \in [Cpu -> Manager] /\ mgr[c] \in Manager /\ "guest" \in PcSet
    BY DEF IInv, OneManager, PcSet
  <2>3. CASE mgr[c].step = "idle"
    <3>1. /\ jailhouse_lock = {} /\ cpu[c].mm = ROOT /\ cpu[c].cell = ROOT
          /\ \E d \in Cpu \ {c} : cpu[d].cell = ROOT /\ mgr[c].todo = {d}
      BY <2>1, <2>3 DEF IInv, IdleOK
    <3>2. PICK d \in Cpu \ {c} : cpu[d].cell = ROOT /\ mgr[c].todo = {d}
      BY <3>1
    <3>3. Target(c) = d
      BY <3>2, FirstIn DEF Target
    <3>5. BusyKept
      BY <3>1 DEF BusyKept, Building, Razing
    <3>6. cpu[c].pc = "cpu_on" /\ Kicks(c, d, p) /\ UNCHANGED <<cells, loadable>>
      BY <2>1, <3>3 DEF Kicks
    <3>20. p \in PcSet /\ p \in {"guest", "hyp", "kick", "wait", "cpu_on"}
      BY DEF PcSet
    <3> HIDE DEF p
    <3>7. /\ cpu' \in [Cpu -> PerCpu]
          /\ SoundOK' /\ OwnersOK' /\ EntriesOK' /\ LoadableOK'
          /\ cpu'[c].pc = p /\ cpu'[c].sgi = cpu[c].sgi
          /\ \A e \in Cpu : e # c /\ e # d => cpu'[e] = cpu[e]
          /\ \A e \in Cpu : /\ cpu'[e].cell = cpu[e].cell
                            /\ cpu'[e].suspend_cpu = cpu[e].suspend_cpu
                            /\ e # c => cpu'[e].pc = cpu[e].pc /\ cpu'[e].mm = cpu[e].mm
                            /\ InLoop(cpu[e]) => InLoop(cpu'[e])
      BY <3>1, <3>2, <3>5, <3>6, <3>20, <1>KickEffect, SMTT(30)
    <3>8. mgr'[c] = Idle /\ (\A e \in Cpu : e # c => mgr'[e] = mgr[e]) /\ mgr' \in [Cpu -> Manager]
      BY <2>1, <2>2, <2>3 DEF Idle, Manager
    <3>9. TypeOK'
      BY <2>1, <3>7, Zenon DEF IInv, TypeOK
    <3>10. OneManager'
      BY <2>1, <2>3, <3>8 DEF IInv, OneManager, Idle
    <3>11. IdleOK'
      <4> SUFFICES ASSUME NEW e \in Cpu, mgr'[e].step = "idle"
                   PROVE  \/ mgr'[e] = Idle /\ cpu'[e].pc \notin {"hyp", "kick", "wait", "cpu_on"}
                          \/ /\ cpu'[e].pc = "cpu_on" /\ jailhouse_lock' = {} /\ cpu'[e].mm = ROOT /\ cpu'[e].cell = ROOT
                             /\ \E f \in Cpu \ {e} : cpu'[f].cell = ROOT /\ mgr'[e].todo = {f}
        BY DEF IdleOK
      <4>1. CASE e = c
        BY <3>7, <3>8, <4>1 DEF p
      <4>2. CASE e # c
        <5>1. mgr'[e] = mgr[e] /\ cpu'[e].pc = cpu[e].pc /\ cpu'[e].mm = cpu[e].mm /\ cpu'[e].cell = cpu[e].cell
          BY <3>7, <3>8, <4>2
        <5>2. \A f \in Cpu : cpu'[f].cell = cpu[f].cell
          BY <3>7
        <5>3. CASE mgr[e] = Idle /\ cpu[e].pc \notin {"hyp", "kick", "wait", "cpu_on"}
          BY <5>1, <5>3
        <5>4. CASE /\ cpu[e].pc = "cpu_on" /\ jailhouse_lock = {} /\ cpu[e].mm = ROOT /\ cpu[e].cell = ROOT
                   /\ \E f \in Cpu \ {e} : cpu[f].cell = ROOT /\ mgr[e].todo = {f}
          BY <2>1, <5>1, <5>2, <5>4, Zenon
        <5> QED BY <5>1, <5>3, <5>4 DEF IInv, IdleOK
      <4> QED BY <4>1, <4>2
    <3>12. EventsOK'
      <4>1. \A e \in Cpu : e # c /\ e # d => Woken(cpu'[e]) = Woken(cpu[e]) /\ cpu'[e].sgi = cpu[e].sgi
        BY <3>7
      <4>2. jailhouse_lock' = {}
        BY <2>1, <3>1
      <4>3. \A e \in Cpu : ~cpu'[e].suspend_cpu \/ (e # c /\ e # d)
        BY <3>1, <3>2, <3>7 DEF IInv, RootAwakeOK
      <4>4. \A e \in Cpu : Woken(cpu'[e]) => cpu'[e].cell = ROOT
        BY <3>1, <3>2, <3>7, <4>1, SMTT(30) DEF IInv, EventsOK
      <4> QED BY <3>1, <3>7, <4>1, <4>2, <4>3, <4>4 DEF IInv, EventsOK
    <3>13. RootAwakeOK' /\ PhaseOK'
      <4>1. \A e \in Cpu : ~(cpu[e].cell = ROOT /\ cpu[e].suspend_cpu)
        BY <3>1 DEF IInv, RootAwakeOK
      <4>2. RootAwakeOK'
        BY <3>7, <4>1 DEF RootAwakeOK
      <4> QED BY <2>1, <3>1, <4>2 DEF PhaseOK
    <3> QED BY <3>7, <3>9, <3>10, <3>11, <3>12, <3>13 DEF IInv
  <2>4. CASE mgr[c].step # "idle"
    <3>1. jailhouse_lock = {c} /\ Phase(c) /\ mgr[c].step = "online" /\ mgr[c].todo # {}
      BY <2>1, <2>4, Single DEF Phase, ManagerCpu
    <3> DEFINE d == Target(c)
    <3>2. d \in mgr[c].todo /\ d \in Cpu /\ c # d /\ Back(c, mgr[c].todo)
      BY <2>2, <3>1, FirstIn, SMTT(30) DEF Target, Manager, Phase, ManagerCpu, OnlineOK
    <3>3. /\ cpu[c].mm = ROOT /\ cpu[c].cell = ROOT /\ ~cpu[c].sgi /\ ~cpu[c].suspend_cpu
          /\ cpu[d].cell = ROOT /\ ~cpu[d].suspend_cpu
      BY <3>1, <3>2 DEF Phase, ManagerCpu, Back, InRoot, IInv, RootAwakeOK, HypSteps, SuspendSteps
    <3>4. BusyKept
      BY <3>1 DEF BusyKept, Building, Razing, Parking
    <3>5. /\ \A e \in Cpu : e # c => mgr'[e] = mgr[e]
          /\ mgr'[c] = [mgr[c] EXCEPT !.step = "await"]
      BY <2>1, <2>2, <3>1
    <3>6. /\ mgr' \in [Cpu -> Manager]
          /\ mgr'[c].step = "await" /\ mgr'[c].task = mgr[c].task /\ mgr'[c].cell = mgr[c].cell
          /\ mgr'[c].todo = mgr[c].todo
      <4>1. mgr'[c] \in Manager
        BY <2>2, <3>5 DEF Manager, DriverSteps
      <4> QED BY <2>1, <2>2, <3>5, <4>1, Zenon DEF Manager
    <3>7. Target(c)' = d
      BY <3>6 DEF Target
    <3>8. cpu[c].pc = "cpu_on" /\ Kicks(c, d, p) /\ UNCHANGED <<cells, loadable>>
      BY <2>1 DEF Kicks
    <3>20. p \in PcSet /\ p \in {"guest", "hyp", "kick", "wait", "cpu_on"}
      BY DEF PcSet
    <3> HIDE DEF d, p
    <3>9. /\ cpu' \in [Cpu -> PerCpu]
          /\ SoundOK' /\ OwnersOK' /\ EntriesOK' /\ LoadableOK'
          /\ cpu'[c].pc = p /\ cpu'[c].mm = ROOT /\ cpu'[c].cell = ROOT
          /\ cpu'[c].sgi = cpu[c].sgi
          /\ cpu'[d].sgi
          /\ Asked(cpu[d]) => Asked(cpu'[d])
          /\ \A e \in Cpu : e # c /\ e # d => cpu'[e] = cpu[e]
          /\ \A e \in Cpu : /\ cpu'[e].cell = cpu[e].cell
                            /\ cpu'[e].suspend_cpu = cpu[e].suspend_cpu
                            /\ e # c => cpu'[e].pc = cpu[e].pc
                            /\ Dropped(cpu'[e]) <=> Dropped(cpu[e])
                            /\ InLoop(cpu[e]) => InLoop(cpu'[e])
      BY <3>2, <3>3, <3>4, <3>8, <3>20, <1>KickEffect, SMTT(30)
    <3>10. TypeOK'
      BY <2>1, <3>9, Zenon DEF IInv, TypeOK
    <3>11. OneManager' /\ IdleOK'
      BY <2>1, <3>1, <3>5, <3>6, <3>9, Commanding, Zenon
    <3>12. EventsOK'
      <4>1. \A e \in Cpu : ~Woken(cpu[e]) /\ ~(cpu[e].sgi /\ cpu[e].suspend_cpu)
                           /\ (cpu[e].suspend_cpu => InLoop(cpu[e]))
        BY <2>1, <3>1 DEF IInv, EventsOK
      <4>2. ~Woken(cpu'[c]) /\ ~cpu'[c].suspend_cpu /\ ~cpu'[d].suspend_cpu
        BY <3>2, <3>3, <3>9 DEF InLoop, Woken, p
      <4>3. jailhouse_lock' = {c} /\ mgr'[c].step = "await" /\ Target(c)' = d /\ cpu'[d].cell = ROOT
        BY <2>1, <3>1, <3>2, <3>3, <3>6, <3>7, <3>9, Zenon
      <4>4. \A e \in Cpu : e # d => ~Woken(cpu'[e]) /\ ~(cpu'[e].sgi /\ cpu'[e].suspend_cpu)
        BY <3>9, <4>1, <4>2
      <4>5. \A e \in Cpu : cpu'[e].suspend_cpu => InLoop(cpu'[e])
        BY <3>9, <4>1
      <4> QED BY <4>2, <4>3, <4>4, <4>5 DEF EventsOK
    <3>13. RootAwakeOK'
      <4>1. \A e \in Cpu : ~(cpu[e].cell = ROOT /\ cpu[e].suspend_cpu)
        BY <3>1 DEF IInv, RootAwakeOK, HypSteps, SuspendSteps
      <4> QED BY <3>9, <4>1 DEF RootAwakeOK
    <3>14. ManagerCpu(c)'
      BY <3>1, <3>2, <3>3, <3>6, <3>9, Zenon DEF Phase, ManagerCpu, DriverSteps, p
    <3>15. BeginOK(c)' /\ StopOK(c)' /\ ParkOK(c)' /\ ParkedOK(c)' /\ InformOK(c)'
      BY <3>6 DEF BeginOK, StopOK, ParkOK, ParkedOK, InformOK, Parking
    <3>16. Back(c, mgr[c].todo)'
      <4>1. \A e \in mgr[c].todo : e \in Cpu
        BY <2>2 DEF Manager
      <4>2. InRoot(mgr[c].todo)'
        BY <3>2, <3>6, <3>9, <4>1 DEF Back, InRoot
      <4>3. mgr'[c].task = "destroy" => \A e \in mgr'[c].todo : Dropped(cpu'[e])
        BY <3>1, <3>2, <3>6, <3>9, <4>1 DEF Back, AllDropped
      <4>4. mgr'[c].cell \notin cells' /\ mgr'[c].task \in {"create", "destroy"}
        BY <2>1, <3>2, <3>6 DEF Back
      <4> QED BY <4>2, <4>3, <4>4 DEF Back, AllDropped
    <3>17. mgr[c].task = "destroy" => ComingUp(cpu'[d])
      <4>1. mgr[c].task = "destroy" => Dropped(cpu[d]) /\ Asked(cpu[d])
        BY <2>1, <3>1, <3>2 DEF Phase, OnlineOK, Back, AllDropped, d
      <4> QED BY <3>2, <3>9, <4>1 DEF ComingUp
    <3>18. OnlineOK(c)'
      BY <3>1, <3>6, <3>7, <3>9, <3>16, <3>17, Zenon DEF Phase, OnlineOK, p
    <3>19. PhaseOK'
      BY <2>1, <3>1, <3>14, <3>15, <3>18 DEF PhaseOK, Phase
    <3> QED BY <3>9, <3>10, <3>11, <3>12, <3>13, <3>19 DEF IInv
  <2> QED BY <2>3, <2>4

\* Setting suspend_cpu, with or without an SGI to follow.
<1>SuspendRecord.
  ASSUME NEW r \in PerCpu, Sound(r), ~Woken(r), NEW s, s = [r EXCEPT !.suspend_cpu = TRUE]
  PROVE  /\ s \in PerCpu /\ Sound(s) /\ s.sgi = r.sgi
         /\ s.cell = r.cell /\ s.cpu_on_entry = r.cpu_on_entry /\ s.suspend_cpu
         /\ s.pc = r.pc /\ s.mm = r.mm /\ s.cpu_suspended = r.cpu_suspended
         /\ Halted(r) => Halted(s)
         /\ InLoop(s) <=> InLoop(r)
         /\ r.cpu_suspended => InLoop(r)
         /\ InLoop(r) => r.cpu_suspended
  <2> USE <1>SuspendRecord
  <2>1. s \in PerCpu
    BY UpdateTypes, Zenon
  <2>2. /\ s.cell = r.cell /\ s.cpu_on_entry = r.cpu_on_entry /\ s.suspend_cpu
        /\ s.pc = r.pc /\ s.mm = r.mm /\ s.park = r.park /\ s.reset = r.reset
        /\ s.cpu_suspended = r.cpu_suspended /\ s.flush_vcpu_caches = r.flush_vcpu_caches
        /\ s.sgi = r.sgi
    BY DEF PerCpu
  <2>3. /\ InLoop(s) <=> InLoop(r)
        /\ Parked(s) <=> Parked(r)
        /\ Running(s) <=> Running(r)
    BY <2>2 DEF Parked, InLoop, Running
  <2>4. Halted(r) => Halted(s)
    BY <2>2, <2>3 DEF Halted
  <2>5. (r.cpu_suspended => InLoop(r)) /\ (InLoop(r) => r.cpu_suspended)
    BY DEF Sound, Woken
  <2>6. Sound(s)
    BY <2>2, <2>3, <2>5 DEF Sound
  <2> QED BY <2>1, <2>2, <2>3, <2>4, <2>5, <2>6

\* A step of cell_suspend changes at most suspend_cpu and the SGI of the CPU
\* it is about.
<1>SuspendStep.
  ASSUME jailhouse_lock = {c}, mgr[c].step \in SuspendSteps, mgr[c].todo # {},
         UNCHANGED <<cells, cell_state, loadable, offlined, jailhouse_lock>>,
         cpu' \in [Cpu -> PerCpu], SoundOK',
         \A e \in Cpu : /\ cpu'[e].cell = cpu[e].cell /\ cpu'[e].cpu_on_entry = cpu[e].cpu_on_entry
                        /\ e # c => cpu'[e].pc = cpu[e].pc
                        /\ Halted(cpu[e]) => Halted(cpu'[e])
                        /\ cpu[e].suspend_cpu => cpu'[e].suspend_cpu
                        /\ e # Target(c) /\ Dropped(cpu[e]) => Dropped(cpu'[e]),
         \/ mgr' = mgr
         \/ mgr' = [mgr EXCEPT ![c].todo = @ \ {Target(c)}] /\ cpu'[Target(c)].suspend_cpu,
         EventsOK', ManagerCpu(c)'
  PROVE  IInv'
  <2> USE <1>SuspendStep
  <2>1. Phase(c) /\ mgr \in [Cpu -> Manager] /\ mgr[c] \in Manager
    BY DEF IInv, PhaseOK, OneManager
  <2>2. /\ mgr' \in [Cpu -> Manager] /\ \A e \in Cpu : e # c => mgr'[e] = mgr[e]
        /\ mgr'[c].step = mgr[c].step /\ mgr'[c].task = mgr[c].task /\ mgr'[c].cell = mgr[c].cell
        /\ mgr'[c].inform = mgr[c].inform /\ mgr'[c].online = mgr[c].online
        /\ mgr'[c].todo = mgr[c].todo \/ (mgr'[c].todo = mgr[c].todo \ {Target(c)} /\ cpu'[Target(c)].suspend_cpu)
    <3>1. CASE mgr' = mgr
      BY <2>1, <3>1
    <3>2. CASE mgr' = [mgr EXCEPT ![c].todo = @ \ {Target(c)}] /\ cpu'[Target(c)].suspend_cpu
      <4>1. mgr'[c] = [mgr[c] EXCEPT !.todo = @ \ {Target(c)}]
        BY <2>1, <3>2
      <4>2. mgr'[c] \in Manager
        BY <2>1, <4>1 DEF Manager
      <4> QED BY <2>1, <3>2, <4>1, <4>2 DEF Manager
    <3> QED BY <3>1, <3>2
  <2>3. mgr'[c].todo \subseteq mgr[c].todo /\ mgr'[c].todo \subseteq Cpu /\ mgr[c].todo \subseteq Cpu
    BY <2>1, <2>2 DEF Manager
  <2>4. TypeOK'
    BY DEF IInv, TypeOK
  <2>5. OneManager' /\ IdleOK'
    BY <2>2, Commanding DEF SuspendSteps
  <2>6. OwnersOK' /\ EntriesOK'
    <3>1. BusyKept
      BY <2>2 DEF BusyKept, Building, Razing, Parking
    <3>2. OwnersSame
      BY DEF OwnersSame
    <3> QED BY <3>1, <3>2, OwnersKept DEF IInv, TypeOK
  <2>7. LoadableOK'
    BY CpuSetAssumption DEF IInv, LoadableOK, TypeOK
  <2>8. RootAwakeOK'
    BY <2>2 DEF RootAwakeOK, HypSteps, SuspendSteps
  <2>9. mgr[c].cell \in Cell /\ CpuSet[mgr[c].cell] \subseteq Cpu
    BY <2>1, CpuSetAssumption DEF Phase, ManagerCpu
  <2>10. BeginOK(c)'
    <3>1. mgr[c].step = "suspend_root" => InRoot(mgr[c].todo)'
      BY <2>1, <2>3 DEF Phase, BeginOK, InRoot
    <3>2. mgr[c].step = "suspend_root" =>
            \A d \in Cpu \ ({c} \cup mgr'[c].todo) : cpu'[d].cell = ROOT => cpu'[d].suspend_cpu
      BY <2>1, <2>2 DEF Phase, BeginOK
    <3>3. mgr[c].step = "suspend_root" =>
            /\ mgr[c].task # "undo"
            /\ mgr[c].task = "create" =>
                 mgr[c].cell \notin cells /\ \A d \in CpuSet[mgr[c].cell] : cpu'[d].cell = ROOT
            /\ mgr[c].task # "create" => mgr[c].cell \in cells
      BY <2>1, <2>9 DEF Phase, BeginOK, InRoot
    <3> QED BY <2>2, <3>1, <3>2, <3>3 DEF BeginOK, InRoot, SuspendSteps
  <2>11. RootHalted(c) => RootHalted(c)'
    BY DEF RootHalted
  <2>12. StopOK(c)'
    <3>1. mgr[c].step = "suspend_cell" => \A d \in CpuSet[mgr[c].cell] \ mgr'[c].todo : cpu'[d].suspend_cpu
      BY <2>1, <2>2, <2>9 DEF Phase, StopOK, AllSuspended
    <3> QED BY <2>1, <2>2, <2>3, <2>11, <3>1 DEF Phase, StopOK, AllSuspended, SuspendSteps
  <2>13. ParkOK(c)' /\ ParkedOK(c)' /\ OnlineOK(c)'
    BY <2>2 DEF ParkOK, ParkedOK, Parking, OnlineOK, SuspendSteps, ManagerCpu, DriverSteps
  <2>14. InformOK(c)'
    <3> SUFFICES ASSUME mgr[c].step = "timeout_info"
                 PROVE  InformOK(c)'
      BY <2>2 DEF InformOK, SuspendSteps
    <3>1. /\ mgr[c].inform \subseteq cells /\ mgr[c].task \in {"create", "destroy"}
          /\ mgr[c].task = "destroy" => Back(c, CpuSet[mgr[c].cell])
          /\ mgr[c].inform # {} /\ mgr[c].todo \subseteq CpuSet[NextCell(mgr[c].inform)]
      BY <2>1 DEF Phase, InformOK
    <3>2. Target(c) \in mgr[c].todo /\ NextCell(mgr[c].inform) \in mgr[c].inform
      BY <2>3, <3>1, FirstIn DEF Target, NextCell
    <3>3. cpu[Target(c)].cell = NextCell(mgr[c].inform)
      BY <3>1, <3>2 DEF IInv, OwnersOK, Razing, Parking
    <3>4. mgr[c].task = "destroy" => Target(c) \notin CpuSet[mgr[c].cell]
      BY <3>1, <3>2, <3>3, CellAssumption DEF Back, InRoot, IInv, TypeOK
    <3>5. mgr[c].task = "destroy" => \A d \in CpuSet[mgr[c].cell] : Dropped(cpu'[d]) /\ cpu'[d].cell = ROOT
      BY <2>9, <3>1, <3>4 DEF Back, InRoot, AllDropped
    <3>6. mgr[c].task = "destroy" => Back(c, CpuSet[mgr[c].cell])'
      BY <2>2, <3>1, <3>5 DEF Back, InRoot, AllDropped
    <3> QED BY <2>2, <2>3, <3>1, <3>6 DEF InformOK
  <2>15. PhaseOK'
    BY <2>10, <2>12, <2>13, <2>14 DEF PhaseOK, Phase
  <2> QED BY <2>4, <2>5, <2>6, <2>7, <2>8, <2>15 DEF IInv

\* arch_suspend_cpu under the target's lock: it sets suspend_cpu, and returns
\* at once when cpu_suspended is still set, because the target is then in
\* check_events and will stay.
<1>SuspendCpu. CASE SuspendCpu(c)
  <2> USE <1>SuspendCpu
  <2>1. /\ cpu[c].pc = "hyp" /\ mgr[c].step \in SuspendSteps /\ mgr[c].todo # {}
        /\ \/ ~cpu[Target(c)].cpu_suspended /\ mgr' = mgr
              /\ cpu' = [cpu EXCEPT ![Target(c)].suspend_cpu = TRUE, ![c].pc = "kick"]
           \/ cpu[Target(c)].cpu_suspended /\ mgr' = [mgr EXCEPT ![c].todo = @ \ {Target(c)}]
              /\ cpu' = [cpu EXCEPT ![Target(c)].suspend_cpu = TRUE]
        /\ UNCHANGED <<cells, cell_state, loadable, offlined, jailhouse_lock>>
    BY Zenon DEF SuspendCpu, At, NeedsKick, Target, cellVars, driverVars
  <2> DEFINE d == Target(c)
  <2>2. /\ jailhouse_lock = {c} /\ Phase(c) /\ mgr[c] \in Manager /\ mgr \in [Cpu -> Manager]
        /\ cpu[c].cell = ROOT /\ cpu[c].mm = ROOT /\ ~cpu[c].suspend_cpu /\ ~cpu[c].sgi
    BY <2>1, Single DEF IInv, OneManager, Phase, ManagerCpu
  <2>3. d \in mgr[c].todo /\ d \in Cpu /\ d # c
    BY <2>1, <2>2, FirstIn DEF Target, Manager, Phase, ManagerCpu
  <2>4. \A e \in Cpu : ~Woken(cpu[e]) /\ ~(cpu[e].sgi /\ cpu[e].suspend_cpu)
                       /\ (cpu[e].suspend_cpu => InLoop(cpu[e]))
    BY <2>1, <2>2 DEF IInv, EventsOK, SuspendSteps
  <2>5. cpu \in [Cpu -> PerCpu] /\ cpu[c] \in PerCpu /\ cpu[d] \in PerCpu /\ Sound(cpu[c]) /\ Sound(cpu[d])
    BY <2>3 DEF IInv, TypeOK, SoundOK
  <2> DEFINE p == IF cpu[d].cpu_suspended THEN "hyp" ELSE "kick"
  <2>6. /\ cpu'[d] = [cpu[d] EXCEPT !.suspend_cpu = TRUE]
        /\ cpu'[c] = [cpu[c] EXCEPT !.pc = p]
        /\ \A e \in Cpu : e # c /\ e # d => cpu'[e] = cpu[e]
    <3>1. cpu[c] = [cpu[c] EXCEPT !.pc = "hyp"]
      BY <2>1, <2>5 DEF PerCpu
    <3> QED BY <2>1, <2>3, <2>5, <3>1, Zenon
  <2>7. p \in PcSet /\ p \in {"guest", "hyp", "kick", "wait", "cpu_on"}
    BY DEF PcSet
  <2>8. p = "kick" <=> ~cpu[d].cpu_suspended
    OBVIOUS
  <2>9. p = "hyp" \/ p = "kick"
    OBVIOUS
  <2> HIDE DEF p
  <2>10. /\ cpu'[c] \in PerCpu /\ Sound(cpu'[c]) /\ cpu'[c].sgi = cpu[c].sgi
         /\ cpu'[c].cell = cpu[c].cell /\ cpu'[c].cpu_on_entry = cpu[c].cpu_on_entry
         /\ cpu'[c].suspend_cpu = cpu[c].suspend_cpu /\ cpu'[c].pc = p /\ cpu'[c].mm = cpu[c].mm
         /\ ~Halted(cpu'[c]) /\ ~Halted(cpu[c]) /\ ~Dropped(cpu[c]) /\ ~InLoop(cpu'[c])
    BY <2>1, <2>2, <2>5, <2>6, <2>7, <1>PcRecord
  <2>11. /\ cpu'[d] \in PerCpu /\ Sound(cpu'[d]) /\ cpu'[d].sgi = cpu[d].sgi
         /\ cpu'[d].cell = cpu[d].cell /\ cpu'[d].cpu_on_entry = cpu[d].cpu_on_entry
         /\ cpu'[d].suspend_cpu /\ cpu'[d].pc = cpu[d].pc
         /\ Halted(cpu[d]) => Halted(cpu'[d])
         /\ InLoop(cpu'[d]) <=> cpu[d].cpu_suspended
    BY <2>3, <2>4, <2>5, <2>6, <1>SuspendRecord
  <2>12. cpu' \in [Cpu -> PerCpu]
    BY <2>1, <2>3, <2>5, <2>6, <2>10, <2>11
  <2>13. SoundOK'
    BY <2>6, <2>10, <2>11 DEF IInv, SoundOK
  <2>14. ASSUME NEW e \in Cpu
         PROVE  /\ cpu'[e].cell = cpu[e].cell /\ cpu'[e].cpu_on_entry = cpu[e].cpu_on_entry
                /\ e # c => cpu'[e].pc = cpu[e].pc
                /\ Halted(cpu[e]) => Halted(cpu'[e])
                /\ cpu[e].suspend_cpu => cpu'[e].suspend_cpu
                /\ e # d /\ Dropped(cpu[e]) => Dropped(cpu'[e])
    <3>1. CASE e = c
      BY <2>2, <2>10, <3>1
    <3>2. CASE e = d
      BY <2>11, <3>2
    <3> QED BY <2>6, <3>1, <3>2
  <2>15. Target(c)' = d \/ p = "hyp"
    BY <2>1, <2>8, <2>9 DEF Target
  <2>16. /\ mgr'[c].step = mgr[c].step /\ mgr'[c].task = mgr[c].task /\ mgr'[c].cell = mgr[c].cell
         /\ mgr'[c].todo \subseteq mgr[c].todo /\ (p = "kick" => mgr'[c].todo = mgr[c].todo)
    <3>1. CASE mgr' = mgr
      BY <3>1
    <3>2. CASE cpu[d].cpu_suspended /\ mgr' = [mgr EXCEPT ![c].todo = @ \ {d}]
      BY <2>2, <2>8, <3>2 DEF Manager
    <3> QED BY <2>1, <3>1, <3>2
  <2>17. ManagerCpu(c)'
    <3>1. CASE p = "hyp"
      BY <2>1, <2>2, <2>10, <2>16, <3>1 DEF Phase, ManagerCpu, HypSteps
    <3>2. CASE p = "kick"
      BY <2>1, <2>2, <2>8, <2>10, <2>11, <2>15, <2>16, <3>2 DEF Phase, ManagerCpu
    <3> QED BY <2>9, <3>1, <3>2
  <2>18. EventsOK'
    <3>1. jailhouse_lock' = {c} /\ cpu'[c].pc = p /\ (p = "kick" => Target(c)' = d)
      BY <2>1, <2>2, <2>10, <2>15
    <3>2. \A e \in Cpu : e # d => /\ ~Woken(cpu'[e]) /\ ~(cpu'[e].sgi /\ cpu'[e].suspend_cpu)
                                  /\ (cpu'[e].suspend_cpu => InLoop(cpu'[e]))
      <4>1. ~Woken(cpu'[c]) /\ ~cpu'[c].suspend_cpu
        BY <2>2, <2>10 DEF Woken
      <4> QED BY <2>4, <2>6, <4>1, Zenon
    <3>3. ~cpu'[d].sgi /\ ~Woken(cpu'[d])
      BY <2>3, <2>4, <2>11 DEF Woken
    <3>4. cpu'[d].suspend_cpu => InLoop(cpu'[d]) \/ p = "kick"
      BY <2>8, <2>11
    <3> QED BY <3>1, <3>2, <3>3, <3>4 DEF EventsOK
  <2>19. mgr' = mgr \/ (mgr' = [mgr EXCEPT ![c].todo = @ \ {Target(c)}] /\ cpu'[Target(c)].suspend_cpu)
    BY <2>1, <2>11
  <2> QED BY <2>1, <2>2, <2>12, <2>13, <2>14, <2>17, <2>18, <2>19, <1>SuspendStep

\* The SGI of arch_suspend_cpu, sent with the lock released.
<1>Kick. CASE Kick(c)
  <2> USE <1>Kick
  <2>1. /\ cpu[c].pc = "kick" /\ cpu' = [cpu EXCEPT ![Target(c)].sgi = TRUE, ![c].pc = "wait"]
        /\ UNCHANGED <<mgr, cells, cell_state, loadable, offlined, jailhouse_lock>>
    BY DEF Kick, Target, cellVars, driverVars
  <2> DEFINE d == Target(c)
  <2> DEFINE p == "wait"
  <2>2. /\ jailhouse_lock = {c} /\ Phase(c) /\ mgr[c] \in Manager
        /\ mgr[c].step \in SuspendSteps /\ mgr[c].todo # {}
        /\ cpu[c].cell = ROOT /\ cpu[c].mm = ROOT /\ ~cpu[c].suspend_cpu /\ ~cpu[c].sgi
        /\ cpu[d].suspend_cpu /\ ~InLoop(cpu[d])
    BY <2>1, Single DEF IInv, OneManager, Phase, ManagerCpu
  <2>3. d \in mgr[c].todo /\ d \in Cpu /\ d # c
    BY <2>1, <2>2, FirstIn DEF Target, Manager, Phase, ManagerCpu
  <2>4. \A e \in Cpu : ~Woken(cpu[e]) /\ ~(cpu[e].sgi /\ cpu[e].suspend_cpu)
                       /\ (e # d /\ cpu[e].suspend_cpu => InLoop(cpu[e]))
    BY <2>1, <2>2 DEF IInv, EventsOK, SuspendSteps
  <2>5. BusyKept
    BY <2>1 DEF BusyKept, Building, Razing, Parking
  <2>6. Kicks(c, d, p)
    BY <2>1 DEF Kicks
  <2>7. p \in PcSet /\ p \in {"guest", "hyp", "kick", "wait", "cpu_on"}
    BY DEF PcSet
  <2>8. ~InLoop(cpu'[d]) /\ cpu'[d].cpu_on_entry = cpu[d].cpu_on_entry
    BY <2>1, <2>2, <2>3 DEF IInv, TypeOK, PerCpu, InLoop
  <2>9. \A e \in Cpu : cpu'[e].cpu_on_entry = cpu[e].cpu_on_entry
    BY <2>1, <2>3 DEF IInv, TypeOK, PerCpu
  <2> HIDE DEF p, d
  <2>10. /\ cpu' \in [Cpu -> PerCpu] /\ SoundOK'
         /\ cpu'[c].pc = p /\ cpu'[c].mm = ROOT /\ cpu'[c].cell = ROOT
         /\ cpu'[c].sgi = cpu[c].sgi
         /\ \A e \in Cpu : e # c /\ e # d => cpu'[e] = cpu[e]
         /\ \A e \in Cpu : /\ cpu'[e].cell = cpu[e].cell
                           /\ cpu'[e].suspend_cpu = cpu[e].suspend_cpu
                           /\ e # c => cpu'[e].pc = cpu[e].pc
                           /\ Halted(cpu'[e]) <=> Halted(cpu[e])
                           /\ Dropped(cpu'[e]) <=> Dropped(cpu[e])
    <3>1. /\ c # d /\ cells' = cells /\ loadable' = loadable
          /\ cpu[c].pc \in {"guest", "hyp", "kick", "wait", "cpu_on"} /\ cpu[c].mm = ROOT /\ cpu[c].cell = ROOT
      BY <2>1, <2>2, <2>3
    <3> QED BY <2>3, <2>5, <2>6, <2>7, <3>1, <1>KickEffect
  <2>11. Target(c)' = d
    BY <2>1 DEF Target, d
  <2>12. ManagerCpu(c)'
    <3>1. mgr'[c] = mgr[c] /\ cpu'[d].suspend_cpu /\ ~cpu'[c].suspend_cpu /\ cpu'[c].pc = "wait"
      BY <2>1, <2>2, <2>3, <2>10, ZenonT(60) DEF d, p
    <3> QED BY <2>2, <2>10, <2>11, <3>1, Zenon DEF Phase, ManagerCpu
  <2>13. EventsOK'
    <3>1. jailhouse_lock' = {c} /\ cpu'[c].pc = "wait"
      BY <2>1, <2>2, <2>10 DEF p
    <3>2. ~Woken(cpu'[c]) /\ ~cpu'[c].suspend_cpu
      BY <2>2, <2>10 DEF Woken, InLoop, p
    <3>3. \A e \in Cpu : e # d => /\ ~Woken(cpu'[e]) /\ ~(cpu'[e].sgi /\ cpu'[e].suspend_cpu)
                                  /\ (cpu'[e].suspend_cpu => InLoop(cpu'[e]))
      BY <2>4, <2>10, <3>2
    <3>4. cpu'[d].suspend_cpu /\ ~Woken(cpu'[d])
      BY <2>2, <2>3, <2>10 DEF Woken
    <3> QED BY <2>8, <2>11, <3>1, <3>3, <3>4 DEF EventsOK
  <2>14. \A e \in Cpu : /\ cpu'[e].cell = cpu[e].cell /\ cpu'[e].cpu_on_entry = cpu[e].cpu_on_entry
                        /\ e # c => cpu'[e].pc = cpu[e].pc
                        /\ Halted(cpu[e]) => Halted(cpu'[e])
                        /\ cpu[e].suspend_cpu => cpu'[e].suspend_cpu
                        /\ e # Target(c) /\ Dropped(cpu[e]) => Dropped(cpu'[e])
    BY <2>9, <2>10
  <2>15. mgr' = mgr /\ UNCHANGED <<cells, cell_state, loadable, offlined, jailhouse_lock>>
    BY <2>1
  <2> QED BY <2>2, <2>10, <2>12, <2>13, <2>14, <2>15, <1>SuspendStep

\* arch_suspend_cpu sees cpu_suspended: the target is in check_events and its
\* SGI has been taken.
<1>Suspended. CASE Suspended(c)
  <2> USE <1>Suspended
  <2>1. /\ cpu[c].pc = "wait" /\ cpu[Target(c)].cpu_suspended
        /\ cpu' = [cpu EXCEPT ![c].pc = "hyp"] /\ mgr' = [mgr EXCEPT ![c].todo = @ \ {Target(c)}]
        /\ UNCHANGED <<cells, cell_state, loadable, offlined, jailhouse_lock>>
    <3>1. Target(c) = first_cpu(mgr[c].todo)
      BY DEF Target
    <3> QED BY <3>1 DEF Suspended, WaitSuspended, cellVars, driverVars, IInv, OneManager
  <2> DEFINE d == Target(c)
  <2>2. /\ jailhouse_lock = {c} /\ Phase(c) /\ mgr[c] \in Manager /\ mgr \in [Cpu -> Manager]
        /\ mgr[c].step \in SuspendSteps /\ mgr[c].todo # {}
        /\ cpu[c].cell = ROOT /\ cpu[c].mm = ROOT /\ ~cpu[c].suspend_cpu /\ ~cpu[c].sgi
        /\ cpu[d].suspend_cpu
    BY <2>1, Single DEF IInv, OneManager, Phase, ManagerCpu
  <2>3. d \in mgr[c].todo /\ d \in Cpu /\ d # c
    BY <2>1, <2>2, FirstIn DEF Target, Manager, Phase, ManagerCpu
  <2>4. InLoop(cpu[d])
    BY <2>1, <2>3 DEF IInv, SoundOK, Sound
  <2>5. \A e \in Cpu : ~Woken(cpu[e]) /\ ~(cpu[e].sgi /\ cpu[e].suspend_cpu)
                       /\ (cpu[e].suspend_cpu => InLoop(cpu[e]))
    BY <2>1, <2>2, <2>4 DEF IInv, EventsOK, SuspendSteps
  <2>6. cpu \in [Cpu -> PerCpu] /\ cpu[c] \in PerCpu /\ Sound(cpu[c]) /\ "hyp" \in PcSet
    BY <2>3 DEF IInv, TypeOK, SoundOK, PcSet
  <2>7. cpu'[c] = [cpu[c] EXCEPT !.pc = "hyp"] /\ \A e \in Cpu : e # c => cpu'[e] = cpu[e]
    BY <2>1, <2>6
  <2>8. /\ cpu'[c] \in PerCpu /\ Sound(cpu'[c]) /\ cpu'[c].sgi = cpu[c].sgi
        /\ cpu'[c].cell = cpu[c].cell /\ cpu'[c].cpu_on_entry = cpu[c].cpu_on_entry
        /\ cpu'[c].suspend_cpu = cpu[c].suspend_cpu /\ cpu'[c].pc = "hyp" /\ cpu'[c].mm = cpu[c].mm
        /\ ~Halted(cpu'[c]) /\ ~Halted(cpu[c]) /\ ~Dropped(cpu[c]) /\ ~InLoop(cpu'[c])
    BY <2>1, <2>2, <2>6, <2>7, <1>PcRecord
  <2>9. cpu' \in [Cpu -> PerCpu]
    BY <2>1, <2>6, <2>7, <2>8
  <2>10. SoundOK'
    BY <2>7, <2>8 DEF IInv, SoundOK
  <2>11. \A e \in Cpu : /\ cpu'[e].cell = cpu[e].cell /\ cpu'[e].cpu_on_entry = cpu[e].cpu_on_entry
                        /\ e # c => cpu'[e].pc = cpu[e].pc
                        /\ Halted(cpu[e]) => Halted(cpu'[e])
                        /\ cpu[e].suspend_cpu => cpu'[e].suspend_cpu
                        /\ e # Target(c) /\ Dropped(cpu[e]) => Dropped(cpu'[e])
    BY <2>7, <2>8, Zenon
  <2>12. /\ mgr'[c].step = mgr[c].step /\ mgr'[c].task = mgr[c].task /\ mgr'[c].cell = mgr[c].cell
         /\ mgr'[c].todo \subseteq mgr[c].todo
    BY <2>1, <2>2 DEF Manager
  <2>13. ManagerCpu(c)'
    BY <2>2, <2>8, <2>12, Zenon DEF Phase, ManagerCpu, HypSteps
  <2>14. EventsOK'
    <3>1. ~Woken(cpu'[c]) /\ ~cpu'[c].suspend_cpu
      BY <2>2, <2>8 DEF Woken
    <3> QED BY <2>5, <2>7, <3>1, Zenon DEF EventsOK
  <2>15. cpu'[Target(c)].suspend_cpu
    BY <2>2, <2>3, <2>7
  <2> QED BY <2>1, <2>2, <2>9, <2>10, <2>11, <2>13, <2>14, <2>15, <1>SuspendStep

<1> QED BY <1>SuspendCpu, <1>Kick, <1>Suspended, <1>KickOn

\* Resuming the CPUs of the root cell keeps the invariant.
LEMMA ResumeKeeps ==
  ASSUME IInv, CpusOrdered, NEW c \in Cpu, ResumeCpu(c)
  PROVE  IInv'

\* Clearing suspend_cpu of a CPU of the root cell.
<1>ResumeRecord.
  ASSUME NEW r \in PerCpu, Sound(r), r.cell = ROOT, r.cpu_on_entry \in {ROOT, INVALID},
         r.suspend_cpu => InLoop(r), ~Woken(r), ~(r.sgi /\ r.suspend_cpu),
         NEW s, s = [r EXCEPT !.suspend_cpu = FALSE]
  PROVE  /\ s \in PerCpu /\ Sound(s) /\ s.sgi = r.sgi
         /\ s.cell = r.cell /\ s.cpu_on_entry = r.cpu_on_entry /\ ~s.suspend_cpu
         /\ s.pc = r.pc
         /\ Dropped(r) => Dropped(s)
         /\ ~Woken(s)
  <2> USE <1>ResumeRecord
  <2>1. s \in PerCpu
    BY UpdateTypes, Zenon
  <2>2. /\ s.cell = r.cell /\ s.cpu_on_entry = r.cpu_on_entry /\ ~s.suspend_cpu
        /\ s.pc = r.pc /\ s.mm = r.mm /\ s.park = r.park /\ s.reset = r.reset
        /\ s.cpu_suspended = r.cpu_suspended /\ s.flush_vcpu_caches = r.flush_vcpu_caches
        /\ s.sgi = r.sgi
    BY DEF PerCpu
  <2>3. /\ InLoop(s) <=> InLoop(r)
        /\ Parked(s) <=> Parked(r)
        /\ Running(s) <=> Running(r)
    BY <2>2 DEF Parked, InLoop, Running
  <2>4. Dropped(r) => Dropped(s)
    BY <2>2, <2>3 DEF Dropped
  <2>5. InLoop(r) => r.cpu_suspended
    BY DEF Sound, Woken
  <2>6. ~Woken(s)
    BY <2>2, <2>3, <2>5 DEF Woken
  <2>7. Sound(s)
    BY <2>2, <2>3, <2>5 DEF Sound, INVALID
  <2> QED BY <2>1, <2>2, <2>3, <2>4, <2>6, <2>7

\* arch_resume_cpu: only CPUs of the root cell are resumed, and they are in
\* check_events or were never suspended.
<1>ResumeCpu. CASE ResumeCpu(c)
  <2> USE <1>ResumeCpu
  <2>1. /\ cpu[c].pc = "hyp" /\ mgr[c].step = "resume" /\ mgr[c].todo # {}
        /\ cpu' = [cpu EXCEPT ![Target(c)].suspend_cpu = FALSE]
        /\ mgr' = [mgr EXCEPT ![c].todo = @ \ {Target(c)}]
        /\ UNCHANGED <<cells, cell_state, loadable, offlined, jailhouse_lock>>
    <3>1. Target(c) = first_cpu(mgr[c].todo)
      BY DEF Target
    <3> QED BY <3>1 DEF ResumeCpu, At, cellVars, driverVars, IInv, OneManager
  <2> DEFINE d == Target(c)
  <2>2. /\ jailhouse_lock = {c} /\ Phase(c) /\ mgr[c] \in Manager /\ mgr \in [Cpu -> Manager]
        /\ mgr[c].cell \in Cell /\ CpuSet[mgr[c].cell] \subseteq Cpu
    BY <2>1, Single, CpuSetAssumption DEF IInv, OneManager, Phase, ManagerCpu
  <2>3. d \in mgr[c].todo /\ d \in Cpu /\ d # c /\ cpu[d].cell = ROOT /\ mgr[c].todo \subseteq Cpu
    BY <2>1, <2>2, FirstIn DEF Target, Manager, Phase, ManagerCpu, OnlineOK, InRoot
  <2>4. \A e \in Cpu : ~Woken(cpu[e]) /\ ~(cpu[e].sgi /\ cpu[e].suspend_cpu)
                       /\ (cpu[e].suspend_cpu => InLoop(cpu[e]))
    BY <2>1, <2>2 DEF IInv, EventsOK
  <2>5. cpu \in [Cpu -> PerCpu] /\ cpu[d] \in PerCpu /\ Sound(cpu[d])
    BY <2>3 DEF IInv, TypeOK, SoundOK
  <2>6. cpu[d].cpu_on_entry \in {ROOT, INVALID}
    BY <2>1, <2>2, <2>3 DEF IInv, EntriesOK, Razing, Parking
  <2>7. cpu'[d] = [cpu[d] EXCEPT !.suspend_cpu = FALSE] /\ \A e \in Cpu : e # d => cpu'[e] = cpu[e]
    BY <2>1, <2>3, <2>5
  <2>8. /\ cpu'[d] \in PerCpu /\ Sound(cpu'[d]) /\ cpu'[d].sgi = cpu[d].sgi
        /\ cpu'[d].cell = cpu[d].cell /\ cpu'[d].cpu_on_entry = cpu[d].cpu_on_entry
        /\ ~cpu'[d].suspend_cpu /\ cpu'[d].pc = cpu[d].pc
        /\ Dropped(cpu[d]) => Dropped(cpu'[d])
        /\ ~Woken(cpu'[d])
    BY <2>3, <2>4, <2>5, <2>6, <2>7, <1>ResumeRecord
  <2>9. /\ mgr' \in [Cpu -> Manager] /\ \A e \in Cpu : e # c => mgr'[e] = mgr[e]
        /\ mgr'[c].step = "resume" /\ mgr'[c].task = mgr[c].task /\ mgr'[c].cell = mgr[c].cell
        /\ mgr'[c].online = mgr[c].online /\ mgr'[c].todo = mgr[c].todo \ {d}
    <3>1. mgr'[c] = [mgr[c] EXCEPT !.todo = @ \ {d}]
      BY <2>1, <2>2
    <3>2. mgr'[c] \in Manager
      BY <2>2, <3>1 DEF Manager
    <3> QED BY <2>1, <2>2, <3>1, <3>2 DEF Manager
  <2> HIDE DEF d
  <2>10. \A e \in Cpu : /\ cpu'[e].cell = cpu[e].cell /\ cpu'[e].cpu_on_entry = cpu[e].cpu_on_entry
                        /\ cpu'[e].pc = cpu[e].pc
                        /\ Dropped(cpu[e]) => Dropped(cpu'[e])
                        /\ cpu'[e].suspend_cpu => cpu[e].suspend_cpu /\ e # d
    BY <2>7, <2>8, Zenon
  <2>11. TypeOK'
    BY <2>1, <2>3, <2>5, <2>7, <2>8 DEF IInv, TypeOK, d
  <2>12. SoundOK'
    BY <2>7, <2>8 DEF IInv, SoundOK
  <2>13. OneManager' /\ IdleOK'
    <3>1. jailhouse_lock' = {c} /\ mgr'[c].step # "idle"
      BY <2>1, <2>2, <2>9
    <3> QED BY <2>2, <2>9, <2>10, <3>1, Commanding
  <2>14. EventsOK'
    BY <2>4, <2>7, <2>8, Zenon DEF EventsOK
  <2>15. RootAwakeOK'
    <3>1. \A e \in Cpu : cpu'[e].cell = ROOT /\ cpu'[e].suspend_cpu => e \in mgr[c].todo \ {d}
      BY <2>1, <2>2, <2>10 DEF IInv, RootAwakeOK
    <3> QED BY <2>1, <2>2, <2>9, <3>1 DEF RootAwakeOK, HypSteps
  <2>16. BusyKept
    BY <2>1, <2>2 DEF BusyKept, Building, Razing, Parking
  <2>17. OwnersOK' /\ EntriesOK'
    BY <2>1, <2>10, <2>16, OwnersKept DEF OwnersSame, IInv, TypeOK
  <2>18. LoadableOK'
    <3> SUFFICES ASSUME NEW x \in loadable, NEW e \in CpuSet[x]
                 PROVE  Halted(cpu'[e])
      BY <2>1, Zenon DEF LoadableOK
    <3>1. e \in Cpu /\ Halted(cpu[e]) /\ x \in Cell /\ x \in cells /\ x # ROOT
      BY CpuSetAssumption, CellAssumption DEF IInv, TypeOK, LoadableOK
    <3>2. cpu[e].cell = x
      BY <2>1, <2>2, <3>1 DEF IInv, OwnersOK, Razing, Parking
    <3> QED BY <2>3, <2>7, <3>1, <3>2
  <2>19. ManagerCpu(c)'
    BY <2>1, <2>2, <2>3, <2>7, <2>9 DEF Phase, ManagerCpu, HypSteps
  <2>20. BeginOK(c)' /\ StopOK(c)' /\ ParkOK(c)' /\ ParkedOK(c)' /\ InformOK(c)'
    BY <2>9, Zenon DEF BeginOK, StopOK, ParkOK, ParkedOK, InformOK, Parking
  <2>21. OnlineOK(c)'
    <3>1. InRoot(mgr[c].todo)'
      <4>1. \A e \in mgr[c].todo : cpu'[e].cell = ROOT
        BY <2>1, <2>2, <2>3, <2>10 DEF Phase, OnlineOK, InRoot
      <4> QED BY <2>9, <4>1 DEF InRoot
    <3>2. mgr[c].online => Back(c, CpuSet[mgr[c].cell])'
      <4> SUFFICES ASSUME mgr[c].online PROVE Back(c, CpuSet[mgr[c].cell])'
        OBVIOUS
      <4>1. Back(c, CpuSet[mgr[c].cell])
        BY <2>1, <2>2 DEF Phase, OnlineOK
      <4>2. \A e \in CpuSet[mgr[c].cell] : cpu'[e].cell = ROOT
        BY <2>2, <2>10, <4>1 DEF Back, InRoot
      <4>3. mgr[c].task = "destroy" => \A e \in CpuSet[mgr[c].cell] : Dropped(cpu'[e])
        BY <2>1, <2>2, <2>10, <4>1, Zenon DEF Back, AllDropped
      <4>4. mgr'[c].cell \notin cells' /\ mgr'[c].task \in {"create", "destroy"} /\ mgr'[c].step # "await"
        BY <2>1, <2>9, <4>1 DEF Back
      <4> QED BY <2>9, <4>2, <4>3, <4>4 DEF Back, InRoot, AllDropped
    <3> QED BY <2>1, <2>3, <2>7, <2>9, <3>1, <3>2 DEF OnlineOK
  <2>22. PhaseOK'
    BY <2>1, <2>2, <2>19, <2>20, <2>21 DEF PhaseOK, Phase
  <2> QED BY <2>11, <2>12, <2>13, <2>14, <2>15, <2>17, <2>18, <2>22 DEF IInv

<1> QED BY <1>ResumeCpu

-----------------------------------------------------------------------------

\* The assignment to per_cpu()->cell, and to failed, in cell_create and
\* cell_destroy_internal.
GivenTo(r, x, b) == [r EXCEPT !.cell = x, !.failed = b]

\* Parking the CPUs of a cell and recording their new owner keep the
\* invariant.
LEMMA HandOverKeeps ==
  ASSUME IInv, CpusOrdered, NEW c \in Cpu, arch_park_cpu(c) \/ AssignCpu(c)
  PROVE  IInv'

\* A step of the hand-over that leaves the owner of every other CPU alone.
<1>ParkStep.
  ASSUME cpu[c].pc = "hyp", mgr[c].step \in {"park", "assign"},
         NEW d \in Cpu, d # c, \A e \in Cpu : e # d => cpu'[e] = cpu[e],
         cpu' \in [Cpu -> PerCpu], Sound(cpu'[d]), cpu'[d].pc = cpu[d].pc,
         ~Woken(cpu'[d]), ~cpu'[d].suspend_cpu, Halted(cpu'[d]),
         NEW s \in {"park", "assign"}, NEW todo \in SUBSET mgr[c].todo, Goes(c, s, todo),
         mgr'[c].task = mgr[c].task,
         UNCHANGED <<cells, cell_state, loadable, offlined, jailhouse_lock>>,
         OwnersOK', EntriesOK', ParkOK(c)', ParkedOK(c)'
  PROVE  IInv'
  <2> USE <1>ParkStep
  <2>1. jailhouse_lock = {c} /\ Phase(c)
    BY Single
  <2>2. TypeOK'
    BY DEF IInv, TypeOK
  <2>3. SoundOK'
    BY Zenon DEF IInv, SoundOK
  <2>4. OneManager' /\ IdleOK'
    <3>1. /\ jailhouse_lock' = {c} /\ mgr'[c].step # "idle" /\ mgr' \in [Cpu -> Manager]
          /\ \A e \in Cpu : e # c => mgr'[e] = mgr[e] /\ cpu'[e].pc = cpu[e].pc
      BY <2>1, Zenon DEF Goes
    <3> QED BY <2>1, <3>1, Commanding
  <2>5. EventsOK'
    <3>1. \A e \in Cpu : ~Woken(cpu[e]) /\ ~(cpu[e].sgi /\ cpu[e].suspend_cpu)
                         /\ (cpu[e].suspend_cpu => InLoop(cpu[e]))
      BY <2>1, Zenon DEF IInv, EventsOK
    <3> QED BY <3>1, Zenon DEF EventsOK
  <2>6. RootAwakeOK'
    BY <2>1, Zenon DEF RootAwakeOK, Goes, HypSteps
  <2>7. LoadableOK'
    BY CpuSetAssumption, Zenon DEF IInv, LoadableOK, TypeOK
  <2>8. ManagerCpu(c)'
    BY <2>1, Zenon DEF Phase, ManagerCpu, Goes, HypSteps
  <2>9. BeginOK(c)' /\ StopOK(c)' /\ InformOK(c)' /\ OnlineOK(c)'
    BY <2>1, Zenon DEF BeginOK, StopOK, InformOK, OnlineOK, Goes
  <2>10. PhaseOK'
    BY <2>1, <2>8, <2>9, Zenon DEF PhaseOK, Phase
  <2> QED BY <2>2, <2>3, <2>4, <2>5, <2>6, <2>7, <2>10 DEF IInv

\* A park request for a CPU that stands still: it goes on standing still after
\* the suspension ends.
<1>ParkRecord.
  ASSUME NEW r \in PerCpu, Sound(r), Halted(r), ~Woken(r), ~(r.sgi /\ r.suspend_cpu),
         NEW b \in BOOLEAN, NEW s, s = Park([r EXCEPT !.failed = b])
  PROVE  /\ s \in PerCpu /\ Sound(s) /\ s.cell = r.cell /\ s.cpu_on_entry = r.cpu_on_entry
         /\ s.pc = r.pc /\ ~s.suspend_cpu /\ ~Woken(s) /\ Halted(s) /\ Parked(s)
         /\ r.suspend_cpu /\ InLoop(r) => Dropped(s)
  <2> USE <1>ParkRecord
  <2>1. s \in PerCpu
    BY UpdateTypes
  <2>2. /\ s.cell = r.cell /\ s.cpu_on_entry = r.cpu_on_entry /\ ~s.suspend_cpu
        /\ s.pc = r.pc /\ s.mm = r.mm /\ s.park /\ s.reset = r.reset
        /\ s.cpu_suspended = r.cpu_suspended /\ s.flush_vcpu_caches = r.flush_vcpu_caches
        /\ s.sgi = r.sgi
    BY DEF PerCpu, Park
  <2>3. ~Running(s) /\ Parked(s) /\ (InLoop(s) <=> InLoop(r))
    BY <2>2 DEF Halted, Parked, InLoop, Running
  <2>4. InLoop(r) => r.cpu_suspended
    BY DEF Sound, Woken
  <2>5. ~Woken(s)
    BY <2>2, <2>3, <2>4 DEF Woken
  <2>6. Sound(s)
    <3>1. s.pc # "boot"
      BY <2>3 DEF Running
    <3>2. s.cpu_suspended => InLoop(s)
      BY <2>2, <2>3 DEF Sound
    <3> QED BY <2>2, <2>3, <3>1, <3>2 DEF Sound
  <2> QED BY <2>1, <2>2, <2>3, <2>5, <2>6 DEF Halted, Dropped

\* arch_park_cpu.  It does not wait for the CPU to leave check_events, so that
\* cell_create and cell_destroy go on while the CPU still has the translations
\* of its former cell.
<1>arch_park_cpu. CASE arch_park_cpu(c)
  <2> USE <1>arch_park_cpu
  <2> DEFINE d == Target(c)
  <2> DEFINE b == IF mgr[c].task = "load" THEN FALSE ELSE cpu[d].failed
  <2> DEFINE x == mgr[c].cell
  <2>1. /\ cpu[c].pc = "hyp" /\ mgr[c].step = "park" /\ mgr[c].todo # {}
        /\ UNCHANGED <<cells, cell_state, loadable, offlined, jailhouse_lock>>
    BY DEF arch_park_cpu, At, cellVars, driverVars
  <2>2. /\ jailhouse_lock = {c} /\ Phase(c) /\ mgr[c] \in Manager
        /\ x \in Cell /\ CpuSet[x] \subseteq Cpu
    BY <2>1, Single, CpuSetAssumption, Zenon DEF IInv, OneManager, Phase, ManagerCpu
  <2>3. d \in mgr[c].todo /\ d \in Cpu /\ d # c /\ d \in CpuSet[x] /\ mgr[c].todo \in SUBSET Cpu
    BY <2>1, <2>2, FirstIn, Zenon DEF Target, Manager, Phase, ManagerCpu, ParkOK, Parking
  <2>4. \A e \in Cpu : ~Woken(cpu[e]) /\ ~(cpu[e].sgi /\ cpu[e].suspend_cpu)
                       /\ (cpu[e].suspend_cpu => InLoop(cpu[e]))
    BY <2>1, <2>2, Zenon DEF IInv, EventsOK
  <2>5. cpu \in [Cpu -> PerCpu] /\ cpu[d] \in PerCpu /\ Sound(cpu[d]) /\ Halted(cpu[d]) /\ b \in BOOLEAN
    <3>1. cpu \in [Cpu -> PerCpu] /\ cpu[d] \in PerCpu /\ Sound(cpu[d])
      BY <2>3 DEF IInv, TypeOK, SoundOK
    <3>2. Halted(cpu[d])
      BY <2>1, <2>2, <2>3, Zenon DEF Phase, ParkOK, Parking
    <3>3. b \in BOOLEAN
      BY <3>1, Zenon DEF PerCpu
    <3> QED BY <3>1, <3>2, <3>3, Zenon
  <2>6. /\ cpu'[d] = Park([cpu[d] EXCEPT !.failed = b])
        /\ \A e \in Cpu : e # d => cpu'[e] = cpu[e]
        /\ cpu' = [cpu EXCEPT ![d] = cpu'[d]]
    <3>1. first_cpu(mgr[c].todo) = d
      BY DEF Target
    <3>2. cpu' = [cpu EXCEPT ![d] = Park([cpu[d] EXCEPT !.failed = b])]
      <4>1. [cpu[d] EXCEPT !.failed = cpu[d].failed] = cpu[d]
        BY <2>5 DEF PerCpu
      <4>2. CASE mgr[c].task = "load"
        BY <3>1, <4>2 DEF arch_park_cpu
      <4>3. CASE mgr[c].task # "load"
        BY <3>1, <4>1, <4>3 DEF arch_park_cpu
      <4> QED BY <4>2, <4>3
    <3> HIDE DEF b, d
    <3> QED BY <2>3, <2>5, <3>2
  <2> HIDE DEF b
  <2>7. /\ cpu'[d] \in PerCpu /\ Sound(cpu'[d]) /\ cpu'[d].cell = cpu[d].cell
        /\ cpu'[d].cpu_on_entry = cpu[d].cpu_on_entry /\ cpu'[d].pc = cpu[d].pc
        /\ ~cpu'[d].suspend_cpu /\ ~Woken(cpu'[d]) /\ Halted(cpu'[d]) /\ Parked(cpu'[d])
        /\ cpu[d].suspend_cpu /\ InLoop(cpu[d]) => Dropped(cpu'[d])
    BY <2>3, <2>4, <2>5, <2>6, <1>ParkRecord
  <2>8. cpu' \in [Cpu -> PerCpu]
    BY <2>5, <2>6, <2>7
  <2> DEFINE s == IF mgr[c].task = "load" THEN "park" ELSE "assign"
  <2> DEFINE todo == IF mgr[c].task = "load" THEN mgr[c].todo \ {d} ELSE mgr[c].todo
  <2>9. Goto(c, s, todo)
    BY DEF arch_park_cpu, Target
  <2>10. s \in {"park", "assign"} /\ s \in DriverSteps \cup HypSteps /\ todo \in SUBSET mgr[c].todo /\ todo \in SUBSET Cpu
    BY <2>3 DEF HypSteps
  <2>11. /\ mgr[c].task = "load" => s = "park" /\ todo = mgr[c].todo \ {d}
         /\ mgr[c].task # "load" => s = "assign" /\ todo = mgr[c].todo
    OBVIOUS
  <2> HIDE DEF s, todo, d
  <2>12. Goes(c, s, todo) /\ mgr'[c].task = mgr[c].task
    BY <2>9, <2>10, GotoEffect
  <2>13. mgr'[c].step = s /\ mgr'[c].todo = todo /\ mgr'[c].cell = x
    BY <2>12 DEF Goes
  <2>14. OwnersOK' /\ EntriesOK'
    <3>1. OwnersSame
      BY <2>6, <2>7 DEF OwnersSame
    <3>2. BusyKept
      BY <2>1, <2>2, <2>10, <2>12, <2>13 DEF BusyKept, Building, Razing, Parking
    <3> QED BY <2>1, <3>1, <3>2, OwnersKept DEF IInv, TypeOK
  <2>15. mgr[c].task # "load" => Target(c)' = d
    BY <2>11, <2>13 DEF Target, d
  <2>16. ParkOK(c)'
    <3>1. /\ RootHalted(c) /\ mgr[c].todo \subseteq CpuSet[x] /\ mgr[c].task # "start"
          /\ x \in cells <=> mgr[c].task \in {"load", "destroy"}
          /\ \A e \in CpuSet[x] : Halted(cpu[e]) /\ cpu[e].cell = Owner(mgr[c], e)
          /\ mgr[c].task \in {"create", "undo"} => \A e \in CpuSet[x] : cpu[e].cpu_on_entry \in {ROOT, INVALID}
      BY <2>1, <2>2, Zenon DEF Phase, ParkOK, Parking
    <3>2. RootHalted(c)'
      BY <2>6, <2>7, <3>1 DEF RootHalted
    <3>3. \A e \in CpuSet[x] : Owner(mgr'[c], e) = Owner(mgr[c], e)
      BY <2>11, <2>12, <2>13 DEF Owner
    <3>4. \A e \in CpuSet[x] : Halted(cpu'[e]) /\ cpu'[e].cell = Owner(mgr'[c], e)
      BY <2>2, <2>6, <2>7, <3>1, <3>3
    <3>5. mgr[c].task \in {"create", "undo"} => \A e \in CpuSet[x] : cpu'[e].cpu_on_entry \in {ROOT, INVALID}
      BY <2>2, <2>6, <2>7, <3>1
    <3> QED BY <2>1, <2>10, <2>12, <2>13, <3>1, <3>2, <3>4, <3>5 DEF ParkOK
  <2>17. ParkedOK(c)'
    <3>1. /\ mgr[c].task # "undo" => \A e \in mgr[c].todo : cpu[e].suspend_cpu
          /\ mgr[c].task = "destroy" => \A e \in CpuSet[x] \ mgr[c].todo : Dropped(cpu[e])
      BY <2>1, <2>2, Zenon DEF Phase, ParkedOK, Parking, Rest, AllSuspended, AllDropped
    <3>2. Rest(c)' = mgr[c].todo \ {d}
      BY <2>10, <2>11, <2>13, <2>15 DEF Rest
    <3>3. mgr[c].task # "undo" => \A e \in mgr[c].todo \ {d} : cpu'[e].suspend_cpu
      BY <2>3, <2>6, <3>1
    <3>4. mgr[c].task = "destroy" => \A e \in CpuSet[x] \ (mgr[c].todo \ {d}) : Dropped(cpu'[e])
      <4>1. mgr[c].task = "destroy" => Dropped(cpu'[d])
        BY <2>3, <2>4, <2>7, <3>1
      <4> QED BY <2>2, <2>6, <3>1, <4>1
    <3>5. AllSuspended(Rest(c))' \/ mgr[c].task = "undo"
      BY <3>2, <3>3 DEF AllSuspended
    <3>6. AllDropped(CpuSet[mgr[c].cell] \ Rest(c))' \/ mgr[c].task # "destroy"
      BY <2>13, <3>2, <3>4 DEF AllDropped
    <3> QED BY <2>3, <2>7, <2>11, <2>12, <2>13, <2>15, <3>5, <3>6, Zenon DEF ParkedOK
  <2> QED BY <2>1, <2>3, <2>6, <2>7, <2>8, <2>10, <2>12, <2>14, <2>16, <2>17, <1>ParkStep

\* A parked CPU may be given to another cell: it drops the translations before
\* it executes again.
<1>AssignRecord.
  ASSUME NEW r \in PerCpu, Sound(r), Parked(r), ~r.suspend_cpu, ~Woken(r),
         NEW x \in Cell \cup {ROOT}, NEW b \in BOOLEAN, NEW s, s = GivenTo(r, x, b)
  PROVE  /\ s \in PerCpu /\ Sound(s) /\ s.cell = x /\ s.cpu_on_entry = r.cpu_on_entry
         /\ s.pc = r.pc /\ ~s.suspend_cpu /\ ~Woken(s) /\ Halted(s)
         /\ Dropped(r) => Dropped(s)
  <2> USE <1>AssignRecord
  <2>1. s \in PerCpu
    <3>1. [r EXCEPT !.cell = x] \in PerCpu
      BY UpdateTypes
    <3>2. [[r EXCEPT !.cell = x] EXCEPT !.failed = b] \in PerCpu
      BY <3>1, UpdateTypes, Zenon
    <3> QED BY <3>2 DEF GivenTo
  <2>2. /\ s.cell = x /\ s.cpu_on_entry = r.cpu_on_entry /\ ~s.suspend_cpu
        /\ s.pc = r.pc /\ s.mm = r.mm /\ s.park = r.park /\ s.reset = r.reset
        /\ s.cpu_suspended = r.cpu_suspended /\ s.flush_vcpu_caches = r.flush_vcpu_caches
        /\ s.sgi = r.sgi
    BY DEF PerCpu, GivenTo
  <2>3. Parked(s) /\ (InLoop(s) <=> InLoop(r)) /\ (Running(s) <=> Running(r))
    BY <2>2 DEF Parked, InLoop, Running
  <2>4. Sound(s)
    BY <2>2, <2>3 DEF Sound, Parked, InLoop
  <2> QED BY <2>1, <2>2, <2>3, <2>4 DEF Halted, Dropped, Woken

\* The owner of the CPU just parked is changed in cell_create or
\* cell_destroy_internal.
<1>AssignCpu. CASE AssignCpu(c)
  <2> USE <1>AssignCpu
  <2> DEFINE d == Target(c)
  <2> DEFINE x == mgr[c].cell
  <2> DEFINE b == IF mgr[c].task = "create" THEN cpu[d].failed ELSE FALSE
  <2> DEFINE y == IF mgr[c].task = "create" THEN x ELSE ROOT
  <2> DEFINE todo == mgr[c].todo \ {d}
  <2>1. /\ cpu[c].pc = "hyp" /\ mgr[c].step = "assign" /\ Goto(c, "park", todo)
        /\ UNCHANGED <<cells, cell_state, loadable, offlined, jailhouse_lock>>
    BY DEF AssignCpu, At, cellVars, driverVars, Target
  <2>2. /\ jailhouse_lock = {c} /\ Phase(c) /\ mgr[c] \in Manager
        /\ x \in Cell /\ CpuSet[x] \subseteq Cpu
    BY <2>1, Single, CpuSetAssumption, Zenon DEF IInv, OneManager, Phase, ManagerCpu
  <2>3. /\ RootHalted(c) /\ mgr[c].todo \subseteq CpuSet[x]
        /\ mgr[c].task \in {"create", "undo", "destroy"}
        /\ x \in cells <=> mgr[c].task = "destroy"
        /\ \A e \in CpuSet[x] : Halted(cpu[e]) /\ cpu[e].cell = Owner(mgr[c], e)
        /\ mgr[c].task \in {"create", "undo"} => \A e \in CpuSet[x] : cpu[e].cpu_on_entry \in {ROOT, INVALID}
        /\ mgr[c].todo # {} /\ Parked(cpu[d]) /\ ~cpu[d].suspend_cpu
    BY <2>1, <2>2, Zenon DEF Phase, ManagerCpu, ParkOK, ParkedOK, Parking, Tasks
  <2>4. d \in mgr[c].todo /\ d \in Cpu /\ d # c /\ d \in CpuSet[x] /\ todo \in SUBSET Cpu /\ todo \in SUBSET mgr[c].todo
    BY <2>2, <2>3, FirstIn, Zenon DEF Target, Manager, Phase, ManagerCpu
  <2>5. cpu \in [Cpu -> PerCpu] /\ cpu[d] \in PerCpu /\ Sound(cpu[d]) /\ ~Woken(cpu[d])
        /\ b \in BOOLEAN /\ y \in Cell \cup {ROOT}
    <3>1. cpu \in [Cpu -> PerCpu] /\ cpu[d] \in PerCpu /\ Sound(cpu[d])
      BY <2>4 DEF IInv, TypeOK, SoundOK
    <3>2. ~Woken(cpu[d])
      BY <2>1, <2>2, <2>4 DEF IInv, EventsOK
    <3>3. b \in BOOLEAN /\ y \in Cell \cup {ROOT}
      BY <2>2, <3>1, Zenon DEF PerCpu
    <3> QED BY <3>1, <3>2, <3>3, Zenon
  <2>6. /\ cpu'[d] = [cpu[d] EXCEPT !.cell = y, !.failed = b]
        /\ \A e \in Cpu : e # d => cpu'[e] = cpu[e]
        /\ cpu' = [cpu EXCEPT ![d] = cpu'[d]]
    <3>1. first_cpu(mgr[c].todo) = d
      BY DEF Target
    <3>2. cpu' = IF mgr[c].task = "create" THEN [cpu EXCEPT ![d].cell = x]
                                           ELSE [cpu EXCEPT ![d].cell = ROOT, ![d].failed = FALSE]
      BY <3>1 DEF AssignCpu
    <3>3. CASE mgr[c].task = "create"
      <4>1. [cpu[d] EXCEPT !.cell = x] = [cpu[d] EXCEPT !.cell = y, !.failed = b]
        BY <2>5, <3>3, Zenon DEF PerCpu
      <4>2. cpu' = [cpu EXCEPT ![d].cell = x]
        BY <3>2, <3>3
      <4> HIDE DEF d, y, b, x
      <4> QED BY <2>4, <2>5, <4>1, <4>2
    <3>4. CASE mgr[c].task # "create"
      <4>1. cpu' = [cpu EXCEPT ![d].cell = y, ![d].failed = b]
        BY <3>2, <3>4
      <4> HIDE DEF d, y, b, x
      <4> QED BY <2>4, <2>5, <4>1, Zenon
    <3> QED BY <3>3, <3>4
  <2>20. /\ mgr[c].task = "create" => y = x
         /\ mgr[c].task # "create" => y = ROOT
    OBVIOUS
  <2> HIDE DEF b, y
  <2>7. /\ cpu'[d] \in PerCpu /\ Sound(cpu'[d]) /\ cpu'[d].cell = y
        /\ cpu'[d].cpu_on_entry = cpu[d].cpu_on_entry
        /\ cpu'[d].pc = cpu[d].pc /\ ~cpu'[d].suspend_cpu /\ ~Woken(cpu'[d]) /\ Halted(cpu'[d])
        /\ Dropped(cpu[d]) => Dropped(cpu'[d])
    <3>1. cpu[d] \in PerCpu /\ Sound(cpu[d]) /\ Parked(cpu[d]) /\ ~cpu[d].suspend_cpu /\ ~Woken(cpu[d])
      BY <2>3, <2>5
    <3>2. cpu'[d] = GivenTo(cpu[d], y, b) /\ y \in Cell \cup {ROOT} /\ b \in BOOLEAN
      BY <2>5, <2>6 DEF GivenTo
    <3> HIDE DEF d
    <3> QED BY <3>1, <3>2, <1>AssignRecord, SMTT(60)
  <2>8. cpu' \in [Cpu -> PerCpu]
    BY <2>5, <2>6, <2>7
  <2>9. Goes(c, "park", todo) /\ mgr'[c].task = mgr[c].task
    BY <2>1, <2>4, GotoEffect, Zenon DEF HypSteps
  <2>10. mgr'[c].step = "park" /\ mgr'[c].todo = todo /\ mgr'[c].cell = x
    BY <2>9 DEF Goes
  <2>11. /\ BusyKept
         /\ \A z \in Cell : z = x => /\ mgr[c].task = "create" => Building(z)'
                                     /\ mgr[c].task = "destroy" => Razing(z)'
    BY <2>1, <2>2, <2>9, <2>10 DEF BusyKept, Building, Razing, Parking
  <2>12. cpu[d].cell = IF mgr[c].task = "create" THEN ROOT ELSE x
    BY <2>3, <2>4, Zenon DEF Owner
  <2>13. \A e \in Cpu : e # d => cpu'[e].cell = cpu[e].cell /\ cpu'[e].cpu_on_entry = cpu[e].cpu_on_entry
    BY <2>6
  <2> HIDE DEF d, x
  <2>14. OwnersOK'
    <3>1. ASSUME NEW z \in Cell, NEW e \in Cpu, cpu'[e].cell = z
          PROVE  e \in CpuSet[z] /\ (z \in cells' \/ Building(z)')
      <4>1. CASE e # d
        BY <2>1, <2>11, <2>13, <3>1, <4>1, Zenon DEF IInv, OwnersOK, BusyKept
      <4>2. CASE e = d
        <5>1. z = x /\ mgr[c].task = "create"
          BY <2>7, <2>20, <3>1, <4>2, CellAssumption
        <5> QED BY <2>4, <2>11, <4>2, <5>1
      <4> QED BY <4>1, <4>2
    <3>2. ASSUME NEW z \in cells, NEW e \in CpuSet[z], e \in Cpu
          PROVE  cpu'[e].cell = z \/ Razing(z)'
      <4>1. z \in Cell /\ z # ROOT /\ (cpu[e].cell = z \/ Razing(z))
        BY <3>2, CellAssumption DEF IInv, TypeOK, OwnersOK
      <4>2. Razing(z) => Razing(z)'
        BY <2>11, <4>1 DEF BusyKept
      <4>3. CASE e # d
        BY <2>13, <3>2, <4>1, <4>2, <4>3
      <4>4. CASE e = d /\ cpu[e].cell = z
        <5>1. mgr[c].task # "create" /\ z = x
          BY <2>12, <4>1, <4>4
        <5> QED BY <2>3, <2>11, <4>1, <5>1, <3>2
      <4> QED BY <4>1, <4>2, <4>3, <4>4
    <3> QED BY <2>1, <3>1, <3>2, CpuSetAssumption DEF OwnersOK, IInv, TypeOK
  <2>15. EntriesOK'
    <3> SUFFICES ASSUME NEW e \in Cpu, cpu'[e].cell = ROOT
                 PROVE  cpu'[e].cpu_on_entry \in {ROOT, INVALID} \/ \E z \in Cell : Razing(z)' /\ e \in CpuSet[z]
      BY DEF EntriesOK
    <3>1. CASE e # d
      BY <2>11, <2>13, <3>1 DEF IInv, EntriesOK, BusyKept
    <3>2. CASE e = d
      BY <2>2, <2>3, <2>4, <2>7, <2>11, <2>20, <3>2, CellAssumption
    <3> QED BY <3>1, <3>2
  <2>16. ParkOK(c)'
    <3>1. RootHalted(c)'
      BY <2>3, <2>6, <2>7 DEF RootHalted
    <3>2. \A e \in CpuSet[x] : Halted(cpu'[e])
      BY <2>2, <2>3, <2>6, <2>7
    <3>3. \A e \in CpuSet[x] : e # d => Owner(mgr'[c], e) = Owner(mgr[c], e)
      BY <2>9, <2>10 DEF Owner, x
    <3>4. Owner(mgr'[c], d) = y
      BY <2>3, <2>9, <2>10, <2>20, Zenon DEF Owner
    <3>5. \A e \in CpuSet[x] : cpu'[e].cell = Owner(mgr'[c], e)
      BY <2>2, <2>3, <2>7, <2>13, <3>3, <3>4
    <3>6. mgr[c].task \in {"create", "undo"} => \A e \in CpuSet[x] : cpu'[e].cpu_on_entry \in {ROOT, INVALID}
      BY <2>2, <2>3, <2>7, <2>13, Zenon
    <3> QED BY <2>1, <2>3, <2>4, <2>9, <2>10, <3>1, <3>2, <3>5, <3>6, Zenon DEF ParkOK
  <2>17. ParkedOK(c)'
    <3>1. Rest(c) = todo
      BY <2>1 DEF Rest, d
    <3>2. /\ mgr[c].task # "undo" => \A e \in todo : cpu[e].suspend_cpu
          /\ mgr[c].task = "destroy" => \A e \in CpuSet[x] \ todo : Dropped(cpu[e])
      BY <2>1, <2>2, <3>1, Zenon DEF Phase, ParkedOK, Parking, AllSuspended, AllDropped, x
    <3>3. Rest(c)' = todo
      BY <2>10 DEF Rest
    <3>4. mgr[c].task # "undo" => \A e \in todo : cpu'[e].suspend_cpu
      BY <2>4, <2>6, <3>2
    <3>5. mgr[c].task = "destroy" => \A e \in CpuSet[x] \ todo : Dropped(cpu'[e])
      BY <2>2, <2>6, <2>7, <3>2
    <3>6. AllSuspended(Rest(c))' \/ mgr[c].task = "undo"
      BY <3>3, <3>4 DEF AllSuspended
    <3>7. AllDropped(CpuSet[mgr[c].cell] \ Rest(c))' \/ mgr[c].task # "destroy"
      BY <2>10, <3>3, <3>5 DEF AllDropped
    <3> QED BY <2>9, <2>10, <3>6, <3>7, Zenon DEF ParkedOK
  <2> QED BY <2>1, <2>4, <2>6, <2>7, <2>8, <2>9, <2>14, <2>15, <2>16, <2>17, <1>ParkStep, Zenon

<1> QED BY <1>arch_park_cpu, <1>AssignCpu

\* Resetting the CPUs of a started cell keeps the invariant.
LEMMA ResetKeeps ==
  ASSUME IInv, CpusOrdered, NEW c \in Cpu, arch_reset_cpu(c)
  PROVE  IInv'

\* arch_reset_cpu's request to a suspended CPU, which boots at an entry of its
\* own cell.
<1>ResetRecord.
  ASSUME NEW r \in PerCpu, Sound(r), r.suspend_cpu, InLoop(r), ~r.sgi, NEW x \in Cell,
         r.cell = x, r.cpu_on_entry \in {x, INVALID},
         NEW s, s = [r EXCEPT !.failed = FALSE, !.reset = TRUE, !.suspend_cpu = FALSE]
  PROVE  /\ s \in PerCpu /\ Sound(s) /\ ~s.sgi /\ ~s.suspend_cpu
         /\ s.cell = r.cell /\ s.cpu_on_entry = r.cpu_on_entry
         /\ s.pc = r.pc /\ ~Woken(s)
  <2> USE <1>ResetRecord
  <2>1. s \in PerCpu
    BY UpdateTypes, Zenon
  <2>2. /\ s.cell = r.cell /\ s.cpu_on_entry = r.cpu_on_entry /\ ~s.suspend_cpu
        /\ s.pc = r.pc /\ s.mm = r.mm /\ s.park = r.park
        /\ s.cpu_suspended = r.cpu_suspended /\ s.flush_vcpu_caches = r.flush_vcpu_caches
        /\ s.sgi = r.sgi
    BY DEF PerCpu
  <2>3. /\ InLoop(s) <=> InLoop(r)
        /\ Parked(s) <=> Parked(r)
        /\ Running(s) <=> Running(r)
    BY <2>2 DEF Parked, InLoop, Running
  <2>4. r.cpu_suspended
    BY DEF Sound
  <2>5. ~Woken(s)
    BY <2>2, <2>4 DEF Woken
  <2>6. Sound(s)
    BY <2>2, <2>3, <2>4 DEF Sound, INVALID
  <2> QED BY <2>1, <2>2, <2>5, <2>6

\* arch_reset_cpu in cell_start; the root cell is resumed after the last CPU.
<1>arch_reset_cpu. CASE arch_reset_cpu(c)
  <2> USE <1>arch_reset_cpu
  <2>1. /\ cpu[c].pc = "hyp" /\ mgr[c].step = "reset"
        /\ cpu' = [cpu EXCEPT ![Target(c)] = [@ EXCEPT !.failed = FALSE, !.reset = TRUE, !.suspend_cpu = FALSE]]
        /\ IF mgr[c].todo = {Target(c)} THEN Finish(c, FALSE) ELSE Goto(c, "reset", mgr[c].todo \ {Target(c)})
        /\ UNCHANGED <<cells, cell_state, loadable, offlined, jailhouse_lock>>
    <3>1. Target(c) = first_cpu(mgr[c].todo)
      BY DEF Target
    <3> QED BY <3>1, Zenon DEF arch_reset_cpu, At, cellVars, driverVars
  <2> DEFINE d == Target(c)
  <2>2. /\ jailhouse_lock = {c} /\ Phase(c) /\ mgr[c] \in Manager /\ mgr \in [Cpu -> Manager]
        /\ mgr[c].cell \in Cell /\ CpuSet[mgr[c].cell] \subseteq Cpu
        /\ mgr[c].todo \subseteq CpuSet[mgr[c].cell] /\ mgr[c].todo # {} /\ mgr[c].task = "start"
        /\ mgr[c].cell \in cells /\ mgr[c].cell \notin loadable
    BY <2>1, Single, CpuSetAssumption, Zenon DEF IInv, OneManager, Phase, ManagerCpu, StopOK
  <2>3. d \in mgr[c].todo /\ d \in Cpu /\ d # c /\ d \in CpuSet[mgr[c].cell]
    BY <2>1, <2>2, FirstIn DEF Target, Manager, Phase, ManagerCpu
  <2>4. \A e \in Cpu : ~Woken(cpu[e]) /\ ~(cpu[e].sgi /\ cpu[e].suspend_cpu)
                       /\ (cpu[e].suspend_cpu => InLoop(cpu[e]))
    BY <2>1, <2>2 DEF IInv, EventsOK
  <2>5. cpu \in [Cpu -> PerCpu] /\ cpu[d] \in PerCpu /\ Sound(cpu[d])
    BY <2>3 DEF IInv, TypeOK, SoundOK
  <2>6. /\ \A e \in CpuSet[mgr[c].cell] : cpu[e].cell = mgr[c].cell /\ cpu[e].cpu_on_entry \in {mgr[c].cell, INVALID}
        /\ AllSuspended(mgr[c].todo)
    <3>1. \A e \in CpuSet[mgr[c].cell] : cpu[e].cell = mgr[c].cell
      BY <2>1, <2>2 DEF IInv, OwnersOK, Razing, Parking
    <3> QED BY <2>1, <2>2, <3>1 DEF Phase, StopOK
  <2>7. /\ cpu'[d] = [cpu[d] EXCEPT !.failed = FALSE, !.reset = TRUE, !.suspend_cpu = FALSE]
        /\ \A e \in Cpu : e # d => cpu'[e] = cpu[e]
    BY <2>1, <2>3, <2>5
  <2>8. cpu[d].suspend_cpu /\ InLoop(cpu[d]) /\ ~cpu[d].sgi
    BY <2>3, <2>4, <2>6 DEF AllSuspended
  <2> HIDE DEF d
  <2>9. /\ cpu'[d] \in PerCpu /\ Sound(cpu'[d]) /\ ~cpu'[d].sgi /\ ~cpu'[d].suspend_cpu
        /\ cpu'[d].cell = cpu[d].cell /\ cpu'[d].cpu_on_entry = cpu[d].cpu_on_entry
        /\ cpu'[d].pc = cpu[d].pc /\ ~Woken(cpu'[d])
    <3>1. cpu[d].cell = mgr[c].cell /\ cpu[d].cpu_on_entry \in {mgr[c].cell, INVALID} /\ mgr[c].cell \in Cell
      BY <2>2, <2>3, <2>6
    <3> QED BY <2>5, <2>7, <2>8, <3>1, <1>ResetRecord, Zenon
  <2>10. \A e \in Cpu : /\ cpu'[e].cell = cpu[e].cell /\ cpu'[e].cpu_on_entry = cpu[e].cpu_on_entry
                        /\ cpu'[e].pc = cpu[e].pc
                        /\ cpu'[e].suspend_cpu => cpu[e].suspend_cpu
    BY <2>7, <2>9, Zenon
  <2>11. TypeOK'
    BY <2>1, <2>3, <2>5, <2>7, <2>9 DEF IInv, TypeOK, d
  <2>12. SoundOK'
    BY <2>7, <2>9 DEF IInv, SoundOK
  <2> DEFINE last == mgr[c].todo = {d}
             todo == IF last THEN RootCpus \ {c} ELSE mgr[c].todo \ {d}
             step == IF last THEN "resume" ELSE "reset"
  <2>13. /\ Goes(c, step, todo) /\ mgr'[c].task = "start" /\ (last => ~mgr'[c].online)
    <3>1. CASE last
      <4>1. Finish(c, FALSE) /\ FALSE \in BOOLEAN
        BY <2>1, <3>1, Zenon DEF d
      <4> QED BY <2>2, <3>1, <4>1, FinishEffect, Zenon
    <3>2. CASE ~last
      <4>1. Goto(c, "reset", mgr[c].todo \ {d}) /\ mgr[c].todo \ {d} \in SUBSET Cpu /\ "reset" \in DriverSteps \cup HypSteps
        BY <2>1, <2>2, <3>2 DEF d, HypSteps
      <4> QED BY <2>2, <3>2, <4>1, GotoEffect
    <3> QED BY <3>1, <3>2
  <2>14. /\ mgr' \in [Cpu -> Manager] /\ \A e \in Cpu : e # c => mgr'[e] = mgr[e]
         /\ mgr'[c].step = step /\ mgr'[c].todo = todo /\ mgr'[c].cell = mgr[c].cell
    BY <2>13 DEF Goes
  <2>15. OneManager' /\ IdleOK'
    <3>1. jailhouse_lock' = {c} /\ mgr'[c].step # "idle"
      BY <2>1, <2>2, <2>14
    <3> QED BY <2>2, <2>10, <2>14, <3>1, Commanding
  <2>16. EventsOK'
    BY <2>4, <2>7, <2>9, Zenon DEF EventsOK
  <2>17. RootAwakeOK'
    <3>1. ~cpu[c].suspend_cpu
      BY <2>2, Zenon DEF Phase, ManagerCpu
    <3>2. \A e \in Cpu : cpu'[e].cell = ROOT /\ cpu'[e].suspend_cpu => e \in RootCpus \ {c}
      BY <2>10, <3>1 DEF RootCpus
    <3>3. mgr'[c].step \in HypSteps /\ (mgr'[c].step = "resume" => mgr'[c].todo = RootCpus \ {c})
      BY <2>14 DEF HypSteps
    <3> QED BY <2>1, <2>2, <3>2, <3>3 DEF RootAwakeOK
  <2>18. BusyKept
    BY <2>1, <2>2 DEF BusyKept, Building, Razing, Parking
  <2>19. OwnersOK' /\ EntriesOK'
    BY <2>1, <2>10, <2>18, OwnersKept DEF OwnersSame, IInv, TypeOK
  <2>20. LoadableOK'
    <3> SUFFICES ASSUME NEW x \in loadable, NEW e \in CpuSet[x]
                 PROVE  Halted(cpu'[e])
      BY <2>1 DEF LoadableOK
    <3>1. e \in Cpu /\ Halted(cpu[e]) /\ x \in Cell /\ x \in cells
      BY CpuSetAssumption DEF IInv, TypeOK, LoadableOK
    <3>2. cpu[e].cell = x
      BY <2>1, <2>2, <3>1 DEF IInv, OwnersOK, Razing, Parking
    <3>3. e # d
      BY <2>2, <2>3, <2>6, <3>2
    <3> QED BY <2>7, <3>1, <3>3
  <2>21. todo \in SUBSET Cpu /\ c \notin todo
    BY <2>2, Zenon DEF RootCpus, Phase, ManagerCpu
  <2>22. ManagerCpu(c)'
    <3>1. mgr'[c].step \in HypSteps
      BY <2>14 DEF HypSteps
    <3>2. cpu'[c] = cpu[c]
      BY <2>3, <2>7
    <3> QED BY <2>1, <2>2, <2>13, <2>14, <2>21, <3>1, <3>2 DEF Phase, ManagerCpu, Tasks
  <2>23. BeginOK(c)' /\ ParkOK(c)' /\ ParkedOK(c)' /\ InformOK(c)'
    BY <2>14, Zenon DEF BeginOK, ParkOK, ParkedOK, InformOK, Parking
  <2>24. StopOK(c)'
    <3>1. CASE last
      BY <2>14, <3>1 DEF StopOK
    <3>2. CASE ~last
      <4>1. mgr'[c].step = "reset" /\ mgr'[c].todo = mgr[c].todo \ {d} /\ mgr'[c].todo # {}
        BY <2>2, <2>14, <3>2
      <4>2. \A e \in mgr'[c].todo : cpu'[e].suspend_cpu
        BY <2>2, <2>6, <2>7, <4>1 DEF AllSuspended
      <4>3. \A e \in CpuSet[mgr[c].cell] : cpu'[e].cpu_on_entry \in {mgr[c].cell, INVALID}
        BY <2>2, <2>6, <2>10, Zenon
      <4> QED BY <2>1, <2>2, <2>13, <2>14, <4>1, <4>2, <4>3 DEF StopOK, AllSuspended
    <3> QED BY <3>1, <3>2, Zenon
  <2>25. OnlineOK(c)'
    <3>1. cpu'[c].pc = "hyp"
      BY <2>1, <2>10
    <3>2. CASE last
      <4>1. mgr'[c].step = "resume" /\ ~mgr'[c].online /\ mgr'[c].todo = RootCpus \ {c}
        BY <2>13, <2>14, <3>2
      <4>2. InRoot(mgr[c].todo)'
        BY <2>10, <4>1 DEF InRoot, RootCpus
      <4> QED BY <3>1, <4>1, <4>2 DEF OnlineOK
    <3>3. CASE ~last
      <4>1. mgr'[c].step = "reset"
        BY <2>14, <3>3
      <4> QED BY <3>1, <4>1 DEF OnlineOK
    <3> QED BY <3>2, <3>3
  <2>26. PhaseOK'
    BY <2>1, <2>2, <2>22, <2>23, <2>24, <2>25 DEF PhaseOK, Phase
  <2> QED BY <2>11, <2>12, <2>15, <2>16, <2>17, <2>19, <2>20, <2>26 DEF IInv

<1> QED BY <1>arch_reset_cpu

-----------------------------------------------------------------------------

\* What such a reaction keeps of everything the manager relies on: in
\* particular a halted CPU stays halted, and a CPU that was asked for still
\* comes up.
EventKeeps(r, s) ==
  /\ s \in PerCpu
  /\ Sound(s)
  /\ s.cell = r.cell /\ s.cpu_on_entry = r.cpu_on_entry /\ s.suspend_cpu = r.suspend_cpu
  /\ s.pc \notin {"hyp", "kick", "wait", "cpu_on"}
  /\ s.sgi => r.sgi
  /\ Woken(s) => Woken(r)
  /\ r.suspend_cpu /\ InLoop(r) => InLoop(s)
  /\ InLoop(s) => InLoop(r) \/ r.sgi
  /\ InLoop(s) /\ s.sgi => InLoop(r)
  /\ ~Woken(r) => /\ Halted(r) => Halted(s)
                  /\ Dropped(r) => Dropped(s)
                  /\ Parked(r) /\ ~r.suspend_cpu => Parked(s)
                  /\ Dropped(r) /\ Asked(r) => Asked(s)

\* A CPU changes its own per_cpu structure only, in the way EventKeeps
\* describes, while the commands stand still: the invariant is kept, whatever
\* the manager is doing at the time.
LEMMA QuietStep ==
  ASSUME IInv, CpusOrdered, NEW e \in Cpu, e \notin jailhouse_lock, TypeOK',
         UNCHANGED <<mgr, jailhouse_lock, cells, loadable>>,
         \A d \in Cpu : d # e => cpu'[d] = cpu[d],
         EventKeeps(cpu[e], cpu'[e]),
         cpu[e].pc # "cpu_on",
         jailhouse_lock # {} /\ ComingUp(cpu[e]) /\ cpu[e].cell = ROOT => ComingUp(cpu'[e])
  PROVE  IInv'
<1>1. SoundOK'
  BY Zenon DEF SoundOK, IInv, EventKeeps
<1>2. OneManager'
  BY DEF IInv, OneManager
<1>3. IdleOK'
  <2>1. \A d \in Cpu : cpu'[d].cell = cpu[d].cell
    BY Zenon DEF EventKeeps
  <2>2. ASSUME NEW c \in Cpu, mgr[c].step = "idle"
        PROVE  \/ mgr[c] = Idle /\ cpu'[c].pc \notin {"hyp", "kick", "wait", "cpu_on"}
               \/ /\ cpu'[c].pc = "cpu_on" /\ jailhouse_lock = {} /\ cpu'[c].mm = ROOT /\ cpu'[c].cell = ROOT
                  /\ \E d \in Cpu \ {c} : cpu'[d].cell = ROOT /\ mgr[c].todo = {d}
    <3>1. CASE c = e
      BY <2>2, <3>1, Zenon DEF IInv, IdleOK, EventKeeps
    <3>2. CASE c # e
      <4>1. cpu'[c] = cpu[c]
        BY <3>2
      <4> QED BY <2>1, <2>2, <4>1, Zenon DEF IInv, IdleOK
    <3> QED BY <3>1, <3>2
  <2> QED BY <2>2, Zenon DEF IdleOK
<1>4. OwnersOK' /\ EntriesOK'
  <2>1. BusyKept
    BY DEF BusyKept, Building, Razing, Parking
  <2>2. OwnersSame
    BY Zenon DEF OwnersSame, EventKeeps
  <2> QED BY <2>1, <2>2, OwnersKept DEF IInv, TypeOK
<1>5. \A c \in jailhouse_lock : c \in Cpu /\ c # e /\ cpu'[c] = cpu[c]
  BY DEF IInv, TypeOK
<1>6. EventsOK'
  <2>1. \A c \in jailhouse_lock :
          cpu'[c].pc = cpu[c].pc /\ mgr'[c].step = mgr[c].step /\ Target(c)' = Target(c)
    BY <1>5 DEF Target
  <2>2. ASSUME NEW d \in Cpu
        PROVE  /\ cpu'[d].sgi => cpu[d].sgi
               /\ (cpu'[d].suspend_cpu <=> cpu[d].suspend_cpu) /\ cpu'[d].cell = cpu[d].cell
               /\ Woken(cpu'[d]) => Woken(cpu[d])
               /\ cpu[d].suspend_cpu /\ InLoop(cpu[d]) => InLoop(cpu'[d])
               /\ InLoop(cpu'[d]) /\ cpu'[d].sgi => InLoop(cpu[d])
    <3>1. CASE d = e
      BY <3>1, Zenon DEF EventKeeps
    <3>2. CASE d # e
      <4>1. cpu'[d] = cpu[d]
        BY <3>2
      <4> QED BY <4>1, Zenon
    <3> QED BY <3>1, <3>2
  <2>3. ASSUME NEW d \in Cpu
        PROVE  /\ cpu'[d].sgi /\ cpu'[d].suspend_cpu =>
                    /\ ~InLoop(cpu'[d])
                    /\ \E c \in jailhouse_lock : cpu'[c].pc = "wait" /\ Target(c)' = d
               /\ Woken(cpu'[d]) =>
                    /\ cpu'[d].cell = ROOT
                    /\ \A c \in jailhouse_lock : mgr'[c].step = "await" /\ Target(c)' = d
               /\ cpu'[d].suspend_cpu =>
                    \/ InLoop(cpu'[d])
                    \/ \E c \in jailhouse_lock : cpu'[c].pc \in {"kick", "wait"} /\ Target(c)' = d
    <3>0. /\ cpu[d].sgi /\ cpu[d].suspend_cpu =>
               ~InLoop(cpu[d]) /\ \E c \in jailhouse_lock : cpu[c].pc = "wait" /\ Target(c) = d
          /\ Woken(cpu[d]) =>
               cpu[d].cell = ROOT /\ \A c \in jailhouse_lock : mgr[c].step = "await" /\ Target(c) = d
          /\ cpu[d].suspend_cpu =>
               InLoop(cpu[d]) \/ \E c \in jailhouse_lock : cpu[c].pc \in {"kick", "wait"} /\ Target(c) = d
      BY Zenon DEF IInv, EventsOK
    <3>1. cpu'[d].sgi /\ cpu'[d].suspend_cpu =>
            ~InLoop(cpu'[d]) /\ \E c \in jailhouse_lock : cpu'[c].pc = "wait" /\ Target(c)' = d
      BY <2>1, <2>2, <3>0, Zenon
    <3>2. Woken(cpu'[d]) =>
            cpu'[d].cell = ROOT /\ \A c \in jailhouse_lock : mgr'[c].step = "await" /\ Target(c)' = d
      BY <2>1, <2>2, <3>0, Zenon
    <3>3. cpu'[d].suspend_cpu =>
            InLoop(cpu'[d]) \/ \E c \in jailhouse_lock : cpu'[c].pc \in {"kick", "wait"} /\ Target(c)' = d
      <4> SUFFICES ASSUME cpu'[d].suspend_cpu, ~InLoop(cpu'[d])
                   PROVE  \E c \in jailhouse_lock : cpu'[c].pc \in {"kick", "wait"} /\ Target(c)' = d
        OBVIOUS
      <4>1. PICK c \in jailhouse_lock : cpu[c].pc \in {"kick", "wait"} /\ Target(c) = d
        BY <2>2, <3>0, Zenon
      <4> QED BY <2>1, <4>1, Zenon
    <3> QED BY <3>1, <3>2, <3>3
  <2> QED BY <2>3, Zenon DEF EventsOK
<1>7. LoadableOK'
  <2> SUFFICES ASSUME NEW x \in loadable, NEW d \in CpuSet[x]
               PROVE  Halted(cpu'[d])
    BY DEF LoadableOK
  <2>1. d \in Cpu /\ Halted(cpu[d]) /\ x \in Cell /\ x \in cells /\ x # ROOT
    BY CpuSetAssumption, CellAssumption DEF IInv, TypeOK, LoadableOK
  <2>2. ~Woken(cpu[d])
    BY <2>1, Zenon DEF IInv, OwnersOK, EventsOK, Razing, Parking
  <2> QED BY <2>1, <2>2, Zenon DEF EventKeeps
<1>8. PhaseOK'
  <2> SUFFICES ASSUME NEW c \in jailhouse_lock
               PROVE  Phase(c)'
    BY DEF PhaseOK
  <2>1. c \in Cpu /\ c # e /\ cpu'[c] = cpu[c] /\ mgr'[c] = mgr[c] /\ mgr[c] \in Manager
    BY <1>5 DEF IInv, OneManager
  <2>2. Phase(c)
    BY DEF IInv, PhaseOK
  <2>3. \A d \in Cpu : /\ cpu'[d].cell = cpu[d].cell
                       /\ cpu'[d].suspend_cpu = cpu[d].suspend_cpu
                       /\ cpu'[d].cpu_on_entry = cpu[d].cpu_on_entry
    BY Zenon DEF EventKeeps
  <2>4. \A d \in Cpu : mgr[c].step # "await" \/ d # Target(c) =>
          /\ Halted(cpu[d]) => Halted(cpu'[d])
          /\ Dropped(cpu[d]) => Dropped(cpu'[d])
          /\ Parked(cpu[d]) /\ ~cpu[d].suspend_cpu => Parked(cpu'[d])
          /\ Dropped(cpu[d]) /\ Asked(cpu[d]) => Asked(cpu'[d])
    BY Zenon DEF EventKeeps, IInv, EventsOK
  <2>5. mgr[c].todo # {} => Target(c) \in mgr[c].todo
    BY <2>1, FirstIn, Zenon DEF Target, Manager
  <2>6. mgr[c].todo \subseteq Cpu /\ (mgr[c].cell \in Cell => CpuSet[mgr[c].cell] \subseteq Cpu)
    BY <2>1, CpuSetAssumption DEF Manager
  <2>7. Target(c)' = Target(c)
    BY DEF Target
  <2>16. cpu[c].pc = "kick" => ~InLoop(cpu'[Target(c)])
    <3> SUFFICES ASSUME cpu[c].pc = "kick"
                 PROVE  ~InLoop(cpu'[Target(c)])
      OBVIOUS
    <3>1. Target(c) \in Cpu /\ cpu[Target(c)].suspend_cpu /\ ~InLoop(cpu[Target(c)])
      BY <2>2, <2>5, <2>6, Zenon DEF Phase, ManagerCpu
    <3>2. ~cpu[Target(c)].sgi
      <4>1. \A b \in jailhouse_lock : cpu[b].pc # "wait"
        BY Zenon DEF IInv, OneManager
      <4> QED BY <3>1, <4>1, Zenon DEF IInv, EventsOK
    <3> QED BY <3>1, <3>2, Zenon DEF EventKeeps
  <2>8. ManagerCpu(c)'
    BY <2>1, <2>2, <2>3, <2>5, <2>6, <2>7, <2>16, Zenon DEF Phase, ManagerCpu
  <2>9. BeginOK(c)'
    <3>1. BeginOK(c)
      BY <2>2, Zenon DEF Phase
    <3>2. \A S \in SUBSET Cpu : InRoot(S)' <=> InRoot(S)
      BY <2>3, Zenon DEF InRoot
    <3>3. InRoot(mgr[c].todo)' <=> InRoot(mgr[c].todo)
      BY <2>6, <3>2
    <3>4. mgr[c].cell \in Cell => (InRoot(CpuSet[mgr[c].cell])' <=> InRoot(CpuSet[mgr[c].cell]))
      BY <2>6, <3>2
    <3>5. \A d \in Cpu : (cpu'[d].cell = ROOT <=> cpu[d].cell = ROOT) /\ (cpu[d].suspend_cpu => cpu'[d].suspend_cpu)
      BY <2>3
    <3>6. mgr[c].cell \in Cell
      BY <2>2, Zenon DEF Phase, ManagerCpu
    <3> QED BY <2>1, <3>1, <3>3, <3>4, <3>5, <3>6, Zenon DEF BeginOK
  <2>10. StopOK(c)'
    BY <2>1, <2>2, <2>3, <2>4, <2>6, Zenon DEF Phase, StopOK, AllSuspended, ManagerCpu, RootHalted
  <2>11. ParkOK(c)'
    <3> SUFFICES ASSUME Parking(c)
                 PROVE  ParkOK(c)'
      BY <2>1, Zenon DEF ParkOK, Parking
    <3>1. ParkOK(c) /\ mgr[c].cell \in Cell /\ mgr[c].step # "await"
      BY <2>2, Zenon DEF Phase, ManagerCpu, Parking
    <3>2. RootHalted(c)'
      BY <2>3, <2>4, <3>1, Zenon DEF ParkOK, RootHalted
    <3>3. \A d \in CpuSet[mgr[c].cell] :
            /\ d \in Cpu /\ (Halted(cpu[d]) => Halted(cpu'[d]))
            /\ cpu'[d].cell = cpu[d].cell /\ cpu'[d].cpu_on_entry = cpu[d].cpu_on_entry
      BY <2>3, <2>4, <2>6, <3>1, Zenon
    <3> QED BY <2>1, <3>1, <3>2, <3>3, Zenon DEF ParkOK, Owner
  <2>12. ParkedOK(c)'
    BY <2>1, <2>2, <2>3, <2>4, <2>5, <2>6, <2>7, Zenon DEF Phase, ParkedOK, AllSuspended, ManagerCpu, AllDropped, Rest, Parking
  <2>13. \A S \in SUBSET Cpu : Back(c, S) => Back(c, S)'
    BY <2>1, <2>3, <2>4, <2>7, Zenon DEF Back, AllDropped, InRoot
  <2>14. InformOK(c)'
    BY <2>1, <2>2, <2>6, <2>13, Zenon DEF Phase, InformOK, ManagerCpu
  <2>15. OnlineOK(c)'
    <3>1. (mgr[c].step = "resume" => InRoot(mgr[c].todo)')
      BY <2>1, <2>2, <2>3, <2>6, Zenon DEF Phase, OnlineOK, InRoot
    <3>2. cpu[c].pc = "cpu_on" /\ mgr[c].task = "destroy" => Asked(cpu[Target(c)])'
      <4> SUFFICES ASSUME cpu[c].pc = "cpu_on", mgr[c].task = "destroy"
                   PROVE  Asked(cpu[Target(c)])'
        OBVIOUS
      <4>1. mgr[c].step = "online" /\ mgr[c].todo # {}
        BY <2>2, Zenon DEF Phase, ManagerCpu, DriverSteps, HypSteps, SuspendSteps
      <4>2. Dropped(cpu[Target(c)]) /\ Asked(cpu[Target(c)])
        BY <4>1, <2>2, <2>5, Zenon DEF Phase, OnlineOK, Back, AllDropped
      <4> QED BY <4>1, <4>2, <2>4, <2>5, <2>6, <2>7, Zenon
    <3>3. mgr[c].step = "await" /\ mgr[c].task = "destroy" => ComingUp(cpu[Target(c)])'
      BY <2>1, <2>2, <2>5, <2>6, <2>7, Zenon DEF Phase, OnlineOK, Back, InRoot
    <3> QED BY <3>1, <3>2, <3>3, <2>1, <2>2, <2>6, <2>13, Zenon DEF Phase, OnlineOK, ManagerCpu
  <2> QED BY <2>8, <2>9, <2>10, <2>11, <2>12, <2>14, <2>15, Zenon DEF Phase
<1>9. RootAwakeOK'
  <2>1. \A d \in Cpu : cpu'[d].cell = ROOT /\ cpu'[d].suspend_cpu => cpu[d].cell = ROOT /\ cpu[d].suspend_cpu
    BY Zenon DEF EventKeeps
  <2> QED BY <2>1, Zenon DEF IInv, RootAwakeOK
<1> QED BY <1>1, <1>2, <1>3, <1>4, <1>6, <1>7, <1>8, <1>9 DEF IInv

\* The reactions of a CPU to an SGI, as changes of its per_cpu structure:
\* TakeEvent, SpinEnds, CheckEvents and LeaveEvents.
Event(r, s) ==
  \/ r.pc = "guest" /\ r.sgi /\ s = SeeSuspend([r EXCEPT !.sgi = FALSE])
  \/ r.pc = "spin" /\ ~r.suspend_cpu /\ s = [r EXCEPT !.pc = "relock"]
  \/ r.pc = "relock" /\ r.suspend_cpu /\ s = SeeSuspend(r)
  \/ r.pc = "relock" /\ ~r.suspend_cpu /\ s = FlushVcpu(Resumed(r))
  \/ r.pc = "off" /\ s = arm_cpu_park(r)
  \/ r.pc = "boot" /\ s = arm_cpu_reset(r)

\* The reaction of a CPU to an SGI, at any time, keeps the invariant.
LEMMA EventsKeep ==
  ASSUME IInv, CpusOrdered, NEW e \in Cpu, HandleEvent(e)
  PROVE  IInv'

\* The second critical section of check_events keeps the type of the per_cpu
\* structure.
<1>ResumedType.
  ASSUME NEW r \in PerCpu
  PROVE  FlushVcpu(Resumed(r)) \in PerCpu
  <2> USE <1>ResumedType
  <2> DEFINE awake == [r EXCEPT !.cpu_suspended = FALSE]
  <2>1. awake \in PerCpu
    BY UpdateTypes, Zenon
  <2>2. \A q \in PerCpu : [q EXCEPT !.pc = "off"] \in PerCpu /\ [q EXCEPT !.reset = FALSE, !.pc = "off"] \in PerCpu
    BY ZenonT(60) DEF PerCpu
  <2>3. [awake EXCEPT !.reset = FALSE, !.wait_for_poweron = FALSE, !.pc = "boot"] \in PerCpu
    BY <2>1, Zenon DEF PerCpu
  <2>4. [awake EXCEPT !.pc = IF r.wait_for_poweron THEN "off" ELSE "guest"] \in PerCpu
    BY <2>1, Zenon DEF PerCpu
  <2>5. enter_cpu_off(awake) \in PerCpu
    BY <2>1, UpdateTypes
  <2> HIDE DEF awake
  <2>6. Resumed(r) \in PerCpu
    BY <2>2, <2>3, <2>4, <2>5, Zenon DEF Resumed, awake
  <2> QED BY <2>6, UpdateTypes, Zenon DEF FlushVcpu

\* check_events and the code after it keep the per_cpu structure sound, and
\* what the manager relies on.
<1>EventRecord.
  ASSUME NEW r \in PerCpu, NEW s, Event(r, s), Sound(r),
         Woken(r) => r.cell = ROOT /\ r.cpu_on_entry \in {ROOT, INVALID}
  PROVE  /\ EventKeeps(r, s)
         /\ ComingUp(r) /\ r.cell = ROOT => ComingUp(s)
  <2> USE <1>EventRecord
  <2>0. [r EXCEPT !.sgi = FALSE] \in PerCpu /\ SeeSuspend([r EXCEPT !.sgi = FALSE]) \in PerCpu
    <3>1. [r EXCEPT !.sgi = FALSE] \in PerCpu
      BY UpdateTypes, Zenon
    <3>2. ASSUME NEW q \in PerCpu PROVE SeeSuspend(q) \in PerCpu
      <4>1. \A b \in BOOLEAN : [q EXCEPT !.cpu_suspended = b, !.pc = "spin"] \in PerCpu
        BY Zenon DEF PerCpu
      <4>2. (q.cpu_suspended \/ q.suspend_cpu) \in BOOLEAN
        BY Zenon
      <4> QED BY <4>1, <4>2, Zenon DEF SeeSuspend
    <3> QED BY <3>1, <3>2
  <2> USE DEF EventKeeps, PerCpu, Sound, InLoop, Parked, Halted, Woken, Running, Dropped, Asked,
              ComingUp, ROOT, PARKING, INVALID
  <2>1. CASE r.pc = "guest" /\ r.sgi /\ s = SeeSuspend([r EXCEPT !.sgi = FALSE])
    BY <2>1, <2>0 DEF SeeSuspend
  <2>2. CASE r.pc = "spin" /\ ~r.suspend_cpu /\ s = [r EXCEPT !.pc = "relock"]
    BY <2>2
  <2>3. CASE r.pc = "relock" /\ r.suspend_cpu /\ s = SeeSuspend(r)
    BY <2>3, ZenonT(60) DEF SeeSuspend
  <2>4. CASE r.pc = "relock" /\ ~r.suspend_cpu /\ s = FlushVcpu(Resumed(r))
    <3>1. s \in PerCpu
      BY <2>4, <1>ResumedType
    <3>2. Sound(s)
      BY <2>4 DEF FlushVcpu, Resumed, enter_cpu_off
    <3>3. s.cell = r.cell /\ s.cpu_on_entry = r.cpu_on_entry /\ s.suspend_cpu = r.suspend_cpu
      BY <2>4 DEF FlushVcpu, Resumed, enter_cpu_off
    <3>4. /\ s.pc \notin {"hyp", "kick", "wait", "cpu_on"}
          /\ s.sgi => r.sgi
          /\ Woken(s) => Woken(r)
          /\ r.suspend_cpu /\ InLoop(r) => InLoop(s)
          /\ InLoop(s) => InLoop(r) \/ r.sgi
          /\ InLoop(s) /\ s.sgi => InLoop(r)
      BY <2>4 DEF FlushVcpu, Resumed, enter_cpu_off
    <3>5. ~Woken(r) => /\ Halted(r) => Halted(s)
                       /\ Dropped(r) => Dropped(s)
                       /\ Parked(r) /\ ~r.suspend_cpu => Parked(s)
                       /\ Dropped(r) /\ Asked(r) => Asked(s)
      BY <2>4 DEF FlushVcpu, Resumed, enter_cpu_off
    <3>6. ComingUp(r) /\ r.cell = ROOT => ComingUp(s)
      BY <2>4 DEF FlushVcpu, Resumed, enter_cpu_off
    <3> QED BY <3>1, <3>2, <3>3, <3>4, <3>5, <3>6, Zenon
  <2>5. CASE r.pc = "off" /\ s = arm_cpu_park(r)
    BY <2>5, Zenon DEF arm_cpu_park, enter_cpu_off
  <2>6. CASE r.pc = "boot" /\ s = arm_cpu_reset(r)
    BY <2>6, Zenon DEF arm_cpu_reset
  <2> QED BY <2>1, <2>2, <2>3, <2>4, <2>5, <2>6, Zenon DEF Event

\* The target's side of every handshake, TakeEvent, SpinEnds, CheckEvents and
\* LeaveEvents, keeps the invariant.
<1>HandleEvent. CASE HandleEvent(e)
  <2> USE <1>HandleEvent
  <2>1. /\ \A d \in Cpu : d # e => cpu'[d] = cpu[d]
        /\ Event(cpu[e], cpu'[e])
        /\ UNCHANGED <<mgr, cells, cell_state, loadable, offlined, jailhouse_lock>>
    BY DEF HandleEvent, TakeEvent, SpinEnds, CheckEvents, LeaveEvents, Event, IInv, TypeOK,
           cellVars, driverVars
  <2>2. e \notin jailhouse_lock
    BY <2>1 DEF IInv, PhaseOK, Phase, ManagerCpu, Event
  <2>3. Woken(cpu[e]) => cpu[e].cell = ROOT /\ cpu[e].cpu_on_entry \in {ROOT, INVALID}
    BY Zenon DEF IInv, EventsOK, EntriesOK, Razing, Parking
  <2>4. cpu[e] \in PerCpu /\ Sound(cpu[e])
    BY DEF IInv, TypeOK, SoundOK
  <2>5. EventKeeps(cpu[e], cpu'[e]) /\ (ComingUp(cpu[e]) /\ cpu[e].cell = ROOT => ComingUp(cpu'[e]))
    BY <2>1, <2>3, <2>4, <1>EventRecord, Zenon
  <2>6. TypeOK'
    <3>1. \E s : cpu' = [cpu EXCEPT ![e] = s]
      BY DEF HandleEvent, TakeEvent, SpinEnds, CheckEvents, LeaveEvents
    <3> QED BY <2>1, <2>5, <3>1 DEF IInv, TypeOK, EventKeeps
  <2>7. cpu[e].pc # "cpu_on"
    BY <2>1 DEF Event
  <2> QED BY <2>1, <2>2, <2>5, <2>6, <2>7, QuietStep, Zenon

<1> QED BY <1>HandleEvent

\* enter_cpu_off and arm_cpu_park keep the type of the per_cpu structure.
LEMMA ArmTypes ==
  ASSUME NEW r \in PerCpu
  PROVE  arm_cpu_park(r) \in PerCpu /\ arm_cpu_reset(r) \in PerCpu
<1>1. \A q \in PerCpu : [q EXCEPT !.pc = "guest", !.mm = PARKING] \in PerCpu
  BY Zenon DEF PerCpu
<1>2. arm_cpu_park(r) \in PerCpu
  BY <1>1, UpdateTypes, Zenon DEF arm_cpu_park
<1>3. arm_cpu_reset(r) \in PerCpu
  BY Zenon DEF arm_cpu_reset, PerCpu
<1> QED BY <1>2, <1>3

\* arm_cpu_park of a running CPU keeps its per_cpu structure sound.
LEMMA OffRecord ==
  ASSUME NEW r \in PerCpu, Sound(r), r.pc = "guest", r.mm # PARKING, ~r.sgi,
         NEW f \in BOOLEAN
  PROVE  /\ EventKeeps(r, arm_cpu_park([r EXCEPT !.failed = f]))
         /\ EventKeeps(r, arm_cpu_park(r))
<1>1. [r EXCEPT !.failed = f] \in PerCpu
  BY UpdateTypes
<1>2. arm_cpu_park([r EXCEPT !.failed = f]) \in PerCpu /\ arm_cpu_park(r) \in PerCpu
  BY <1>1, ArmTypes
<1> USE DEF EventKeeps, Sound, InLoop, Parked, Halted, Woken, Running, Dropped, Asked,
            PARKING, arm_cpu_park, enter_cpu_off
<1>3. EventKeeps(r, arm_cpu_park(r))
  BY <1>2 DEF PerCpu
<1>4. EventKeeps(r, arm_cpu_park([r EXCEPT !.failed = f]))
  BY <1>2 DEF PerCpu
<1> QED BY <1>3, <1>4

\* A CPU that parks itself, in CPU_OFF or after a crash, keeps the invariant.
LEMMA OffKeeps ==
  ASSUME IInv, CpusOrdered, ~Mixed, NEW e \in Cpu, GuestCpuOff(e) \/ panic_park(e)
  PROVE  IInv'

\* A CPU parks itself in a cell, or in the root cell while no command runs.
<1>PowersOff.
  ASSUME NEW x \in Cell \cup {ROOT}, Runs(e, x),
         jailhouse_lock = {} \/ x # ROOT,
         NEW f \in BOOLEAN,
         cpu' \in {[cpu EXCEPT ![e] = arm_cpu_park(@)],
                   [cpu EXCEPT ![e] = arm_cpu_park([@ EXCEPT !.failed = f])]},
         UNCHANGED <<mgr, jailhouse_lock, cells, loadable, offlined>>,
         cell_state' \in [Cell -> CellStates]
  PROVE  IInv'
  <2> USE <1>PowersOff
  <2>1. cpu[e] \in PerCpu /\ cpu \in [Cpu -> PerCpu] /\ Sound(cpu[e])
    BY DEF IInv, TypeOK, SoundOK
  <2>2. cpu[e].pc = "guest" /\ cpu[e].mm = x /\ ~cpu[e].sgi /\ x # PARKING
    BY CellAssumption DEF Runs, In, ROOT, PARKING
  <2>3. cpu[e].cell = x
    BY <2>1, <2>2 DEF Sound, Parked, InLoop
  <2>4. EventKeeps(cpu[e], cpu'[e]) /\ \A d \in Cpu : d # e => cpu'[d] = cpu[d]
    BY <2>1, <2>2, OffRecord
  <2>5. TypeOK'
    <3>1. cpu'[e] \in PerCpu
      BY <2>4 DEF EventKeeps
    <3>2. cpu' \in [Cpu -> PerCpu]
      BY <2>1, <3>1
    <3> QED BY <3>2 DEF IInv, TypeOK
  <2>6. e \notin jailhouse_lock
    BY <2>3 DEF IInv, PhaseOK, Phase, ManagerCpu
  <2> QED BY <2>2, <2>3, <2>4, <2>5, <2>6, QuietStep

\* PSCI CPU_OFF.
<1>GuestCpuOff. CASE GuestCpuOff(e)
  <2> USE <1>GuestCpuOff
  <2>1. /\ cpu' = [cpu EXCEPT ![e] = arm_cpu_park(@)]
        /\ UNCHANGED <<mgr, cells, cell_state, loadable, offlined, jailhouse_lock>>
        /\ cell_state' \in [Cell -> CellStates]
    BY DEF GuestCpuOff, cellVars, driverVars, IInv, TypeOK
  <2>2. \E x \in Cell \cup {ROOT} : Runs(e, x) /\ (jailhouse_lock = {} \/ x # ROOT)
    BY CellAssumption DEF GuestCpuOff
  <2>3. TRUE \in BOOLEAN
    OBVIOUS
  <2> QED BY <2>1, <2>2, <2>3, <1>PowersOff, Zenon

\* panic_park, which may come while the manager suspends this very CPU.
<1>PanicPark. CASE panic_park(e)
  <2> USE <1>PanicPark
  <2>1. PICK x \in Cell :
          /\ Runs(e, x)
          /\ cpu' = [cpu EXCEPT ![e] = arm_cpu_park([@ EXCEPT !.failed = TRUE])]
          /\ cell_state' = IF \A d \in CpuSet[x] \ {e} : cpu[d].failed
                             THEN [cell_state EXCEPT ![x] = "failed"] ELSE cell_state
          /\ UNCHANGED <<mgr, cells, loadable, driverVars>>
    BY Zenon DEF panic_park
  <2>2. cell_state' \in [Cell -> CellStates]
    BY <2>1 DEF IInv, TypeOK, CellStates
  <2>3. UNCHANGED <<mgr, cells, loadable, offlined, jailhouse_lock>> /\ x # ROOT /\ TRUE \in BOOLEAN
    BY <2>1, CellAssumption DEF driverVars
  <2> QED BY <2>1, <2>2, <2>3, <1>PowersOff, Zenon

<1> QED BY <1>GuestCpuOff, <1>PanicPark

-----------------------------------------------------------------------------

\* A CPU in the root cell or the hypervisor goes on with a command; the other
\* CPUs are left alone and none of them is being woken.
LEMMA CalmStep ==
  ASSUME IInv, NEW c \in Cpu, TypeOK', cells' = cells, loadable' = loadable,
         mgr' \in [Cpu -> Manager],
         \A e \in Cpu : e # c => mgr'[e] = mgr[e] /\ cpu'[e] = cpu[e] /\ cpu[e].pc # "cpu_on",
         jailhouse_lock \subseteq {c}, jailhouse_lock' \subseteq {c},
         mgr'[c].step = "idle" <=> jailhouse_lock' = {},
         mgr'[c].step = "idle" => mgr'[c] = Idle /\ cpu'[c].pc = "guest",
         cpu[c].pc \in {"guest", "hyp"}, cpu'[c].pc \in {"guest", "hyp"},
         cpu'[c] = [cpu[c] EXCEPT !.pc = cpu'[c].pc],
         cpu[c].mm = ROOT, ~cpu[c].sgi, ~cpu[c].suspend_cpu,
         \A d \in Cpu : /\ ~Woken(cpu[d]) /\ ~(cpu[d].sgi /\ cpu[d].suspend_cpu)
                        /\ cpu[d].suspend_cpu => InLoop(cpu[d]),
         BusyKept, RootAwakeOK', PhaseOK'
  PROVE  IInv'
<1>1. cpu[c] \in PerCpu /\ Sound(cpu[c]) /\ ROOT # PARKING
  BY DEF IInv, TypeOK, SoundOK, ROOT, PARKING
<1>2. SoundOK'
  <2>1. Sound(cpu'[c])
    BY <1>1 DEF Sound, PerCpu, InLoop, Running, Parked
  <2> QED BY <2>1 DEF SoundOK, IInv
<1>3. OneManager'
  BY DEF IInv, OneManager
<1>4. IdleOK'
  BY DEF IInv, IdleOK, OneManager
<1>5. OwnersOK' /\ EntriesOK'
  <2>1. OwnersSame
    BY <1>1 DEF OwnersSame, PerCpu
  <2> QED BY <2>1, OwnersKept DEF IInv, TypeOK
<1>6. EventsOK'
  <2>1. cpu'[c].sgi = cpu[c].sgi /\ cpu'[c].suspend_cpu = cpu[c].suspend_cpu /\ ~InLoop(cpu'[c])
    BY <1>1 DEF PerCpu, InLoop
  <2> QED BY <1>1, <2>1 DEF EventsOK, Woken
<1>7. LoadableOK'
  <2> SUFFICES ASSUME NEW x \in loadable, NEW d \in CpuSet[x]
               PROVE  Halted(cpu'[d])
    BY DEF LoadableOK
  <2>1. d \in Cpu /\ Halted(cpu[d])
    BY CpuSetAssumption DEF IInv, TypeOK, LoadableOK
  <2>2. ~Halted(cpu[c])
    BY <1>1 DEF Halted, Parked, InLoop
  <2> QED BY <2>1, <2>2
<1> QED BY <1>2, <1>3, <1>4, <1>5, <1>6, <1>7 DEF IInv

\* The same for a command that goes on and does not end.
LEMMA ManagerMoves ==
  ASSUME IInv, NEW c \in Cpu, jailhouse_lock = {c}, TypeOK',
         UNCHANGED <<jailhouse_lock, cells, loadable>>,
         mgr' \in [Cpu -> Manager], mgr'[c].step # "idle",
         \A e \in Cpu : e # c => mgr'[e] = mgr[e] /\ cpu'[e] = cpu[e],
         cpu[c].pc \in {"guest", "hyp"}, cpu'[c].pc \in {"guest", "hyp"},
         cpu'[c] = [cpu[c] EXCEPT !.pc = cpu'[c].pc],
         BusyKept, RootAwakeOK',
         mgr[c].step = "await" => ~Woken(cpu[Target(c)]),
         Phase(c)'
  PROVE  IInv'
<1>1. cpu[c].mm = ROOT /\ ~cpu[c].sgi /\ ~cpu[c].suspend_cpu
  BY DEF IInv, PhaseOK, Phase, ManagerCpu
<1>2. \A d \in Cpu : /\ ~Woken(cpu[d]) /\ ~(cpu[d].sgi /\ cpu[d].suspend_cpu)
                     /\ cpu[d].suspend_cpu => InLoop(cpu[d])
  BY DEF IInv, EventsOK
<1>3. \A e \in Cpu : e # c => cpu[e].pc # "cpu_on"
  BY DEF IInv, IdleOK, OneManager
<1>4. PhaseOK'
  BY DEF PhaseOK
<1> QED BY <1>1, <1>2, <1>3, <1>4, CalmStep

\* The end of a hypercall that left the CPUs alone.
LEMMA FinishKeeps ==
  ASSUME IInv, NEW c \in Cpu, cpu[c].pc = "hyp", NEW online \in BOOLEAN, Finish(c, online),
         UNCHANGED <<cpu, cells, loadable, jailhouse_lock, offlined>>, cell_state' \in [Cell -> CellStates],
         Parking(c) => mgr[c].task = "load",
         online => mgr[c].step # "await" /\ Back(c, CpuSet[mgr[c].cell])
  PROVE  IInv'
<1>1. jailhouse_lock = {c} /\ Phase(c) /\ mgr[c].step # "idle" /\ mgr[c] \in Manager
  BY Single, Zenon DEF IInv, OneManager
<1>2. TypeOK'
  BY DEF IInv, TypeOK
<1>3. Goes(c, "resume", RootCpus \ {c}) /\ mgr'[c].task = mgr[c].task /\ mgr'[c].online = online
  BY FinishEffect
<1>4. mgr[c].step \in HypSteps
  BY <1>1, Zenon DEF Phase, ManagerCpu
<1>5. BusyKept
  BY <1>1, <1>4, Zenon DEF BusyKept, Building, Razing
<1>6. Phase(c)'
  <2>1. ManagerCpu(c)'
    BY <1>1, <1>3, <1>4, Zenon DEF Phase, ManagerCpu, Goes, HypSteps
  <2>2. BeginOK(c)' /\ StopOK(c)' /\ ParkOK(c)' /\ ParkedOK(c)' /\ InformOK(c)'
    BY <1>3, Zenon DEF Goes, BeginOK, StopOK, ParkOK, ParkedOK, InformOK, Parking
  <2>3. OnlineOK(c)'
    BY <1>3, <1>4, Zenon DEF Goes, OnlineOK, InRoot, RootCpus, Back, AllDropped, HypSteps, SuspendSteps
  <2> QED BY <2>1, <2>2, <2>3, Zenon DEF Phase
<1>7. \A e \in Cpu : e # c => mgr'[e] = mgr[e]
  BY <1>3 DEF Goes
<1>10. RootAwakeOK'
  BY <1>1, <1>3, Zenon DEF RootAwakeOK, Goes, RootCpus, Phase, ManagerCpu, HypSteps
<1>8. mgr' \in [Cpu -> Manager] /\ mgr'[c].step # "idle"
  BY <1>3 DEF Goes
<1>9. cpu'[c] = [cpu[c] EXCEPT !.pc = cpu'[c].pc]
  BY DEF IInv, TypeOK, PerCpu
<1> QED BY <1>1, <1>2, <1>4, <1>5, <1>6, <1>7, <1>8, <1>9, <1>10, ManagerMoves DEF HypSteps, SuspendSteps

-----------------------------------------------------------------------------

\* Steps that change only the entries and the pending flushes of CPUs that
\* stand still.
Similar(r, s) ==
  /\ s.pc = r.pc /\ s.mm = r.mm /\ s.cell = r.cell /\ s.sgi = r.sgi /\ s.park = r.park
  /\ s.suspend_cpu = r.suspend_cpu /\ s.cpu_suspended = r.cpu_suspended

\* The steps that create, destroy and start a cell or make it loadable, and a
\* cell_create that is refused after its CPUs were checked, keep the
\* invariant.
LEMMA CommitKeeps ==
  ASSUME IInv, NEW c \in Cpu, 
         Created(c) \/ Destroyed(c) \/ SetLoadable(c) \/ CellStart(c) \/ (Checked(c) /\ cpu' # cpu)
  PROVE  IInv'

\* Such a change keeps where a CPU is and whether it stands still.
<1>SimilarFacts.
  ASSUME NEW r, NEW s, Similar(r, s)
  PROVE  /\ s.pc = r.pc /\ s.cell = r.cell /\ s.suspend_cpu = r.suspend_cpu /\ s.sgi = r.sgi
         /\ InLoop(s) <=> InLoop(r)
         /\ Woken(s) <=> Woken(r)
         /\ Halted(s) <=> Halted(r)
         /\ Dropped(s) <=> Dropped(r)
  BY <1>SimilarFacts DEF Similar, InLoop, Woken, Halted, Dropped, Parked

\* A step of the hypercall that changes the set of cells, the loadable ones,
\* entries and flushes.
<1>RecordStep.
  ASSUME cpu[c].pc = "hyp",
         cpu' \in [Cpu -> PerCpu], SoundOK', \A e \in Cpu : Similar(cpu[e], cpu'[e]), cpu'[c] = cpu[c],
         NEW s \in HypSteps, NEW todo \in SUBSET Cpu, Goes(c, s, todo), c \notin todo,
         s = "resume" => todo = RootCpus \ {c}, mgr'[c].task \in Tasks,
         UNCHANGED <<offlined, jailhouse_lock>>,
         cells' \subseteq Cell, loadable' \subseteq cells', cell_state' \in [Cell -> CellStates],
         OwnersOK', EntriesOK', LoadableOK',
         BeginOK(c)', StopOK(c)', ParkOK(c)', ParkedOK(c)', InformOK(c)', OnlineOK(c)'
  PROVE  IInv'
  <2> USE <1>RecordStep
  <2>1. jailhouse_lock = {c} /\ Phase(c) /\ mgr[c].step # "await" /\ jailhouse_lock' = {c}
    BY Single, Zenon DEF Phase, ManagerCpu, HypSteps, SuspendSteps
  <2>2. TypeOK'
    BY DEF IInv, TypeOK
  <2>3. \A e \in Cpu : /\ cpu'[e].pc = cpu[e].pc /\ cpu'[e].cell = cpu[e].cell
                       /\ cpu'[e].suspend_cpu = cpu[e].suspend_cpu /\ cpu'[e].sgi = cpu[e].sgi
                       /\ InLoop(cpu'[e]) <=> InLoop(cpu[e])
                       /\ Woken(cpu'[e]) <=> Woken(cpu[e])
    BY <1>SimilarFacts
  <2>4. /\ mgr'[c].step = s /\ mgr'[c].todo = todo /\ mgr'[c].cell = mgr[c].cell /\ s # "idle"
        /\ mgr' \in [Cpu -> Manager] /\ \A e \in Cpu : e # c => mgr'[e] = mgr[e]
    BY Zenon DEF Goes, HypSteps, SuspendSteps
  <2>5. OneManager' /\ IdleOK'
    BY <2>1, <2>3, <2>4, Commanding, Zenon
  <2>6. EventsOK'
    <3>1. \A e \in Cpu : ~Woken(cpu[e]) /\ ~(cpu[e].sgi /\ cpu[e].suspend_cpu)
                         /\ (cpu[e].suspend_cpu => InLoop(cpu[e]))
      BY <2>1, Zenon DEF IInv, EventsOK
    <3> QED BY <2>3, <3>1, Zenon DEF EventsOK
  <2>7. RootAwakeOK'
    <3>1. \A e \in Cpu : cpu'[e].cell = ROOT /\ cpu'[e].suspend_cpu => e \in RootCpus \ {c}
      BY <2>1, <2>3, Zenon DEF RootCpus, Phase, ManagerCpu
    <3> QED BY <2>1, <2>4, <3>1, Zenon DEF RootAwakeOK
  <2>8. ManagerCpu(c)'
    BY <2>1, <2>4, Zenon DEF Phase, ManagerCpu
  <2>9. PhaseOK'
    BY <2>1, <2>8, Zenon DEF PhaseOK, Phase
  <2> QED BY <2>2, <2>5, <2>6, <2>7, <2>9 DEF IInv

\* config_commit requests a flush of the CPUs of the root cell and of one
\* other cell.  All of them but the manager's own, which flushes at once,
\* stand still.
<1>CommitEffect.
  ASSUME RootHalted(c), NEW x,
         x \in Cell => \A d \in CpuSet[x] : Halted(cpu[d])
  PROVE  /\ config_commit(c, x) \in [Cpu -> PerCpu]
         /\ config_commit(c, x)[c] = cpu[c]
         /\ \A e \in Cpu : /\ Similar(cpu[e], config_commit(c, x)[e])
                           /\ Sound(config_commit(c, x)[e])
                           /\ config_commit(c, x)[e].cpu_on_entry = cpu[e].cpu_on_entry
                           /\ config_commit(c, x)[e].reset = cpu[e].reset
  <2> USE <1>CommitEffect
  <2>1. ASSUME NEW e \in Cpu
        PROVE  /\ config_commit(c, x)[e] \in PerCpu
               /\ Similar(cpu[e], config_commit(c, x)[e])
               /\ Sound(config_commit(c, x)[e])
               /\ config_commit(c, x)[e].cpu_on_entry = cpu[e].cpu_on_entry
               /\ config_commit(c, x)[e].reset = cpu[e].reset
               /\ e = c => config_commit(c, x)[e] = cpu[e]
    <3>1. cpu[e] \in PerCpu /\ Sound(cpu[e])
      BY Zenon DEF IInv, TypeOK, SoundOK
    <3>2. CASE e # c /\ (cpu[e].cell = ROOT \/ (x \in Cell /\ e \in CpuSet[x]))
      <4> DEFINE s == [cpu[e] EXCEPT !.flush_vcpu_caches = TRUE]
      <4>1. config_commit(c, x)[e] = s
        BY <3>2 DEF config_commit
      <4>2. Halted(cpu[e])
        BY <3>2 DEF RootHalted
      <4>3. s \in PerCpu
        BY <3>1, UpdateTypes, Zenon
      <4>4. Similar(cpu[e], s) /\ s.cpu_on_entry = cpu[e].cpu_on_entry /\ s.reset = cpu[e].reset
        BY <3>1 DEF Similar, PerCpu
      <4> HIDE DEF s
      <4>5. Sound(s)
        <5>1. ~Running(cpu[e])
          BY <4>2, Zenon DEF Halted, Parked, Running, InLoop
        <5>2. ~Running(s) /\ (Parked(s) <=> Parked(cpu[e])) /\ (InLoop(s) <=> InLoop(cpu[e]))
          BY <4>4, <5>1 DEF Similar, Running, Parked, InLoop
        <5> QED BY <3>1, <4>4, <5>2, Zenon DEF Sound, Similar
      <4> QED BY <3>2, <4>1, <4>3, <4>4, <4>5, Zenon
    <3>3. CASE ~(e # c /\ (cpu[e].cell = ROOT \/ (x \in Cell /\ e \in CpuSet[x])))
      <4>1. config_commit(c, x)[e] = cpu[e]
        BY <3>3 DEF config_commit
      <4> QED BY <3>1, <4>1, Zenon DEF Similar
    <3> QED BY <3>2, <3>3, Zenon
  <2>2. config_commit(c, x) = [e \in Cpu |-> config_commit(c, x)[e]]
    BY DEF config_commit
  <2> QED BY <2>1, <2>2

\* A CPU gets another entry while it stands still.
<1>EntryRecord.
  ASSUME NEW r \in PerCpu, Sound(r), Halted(r), NEW y \in Cell \cup {ROOT, INVALID},
         y = INVALID \/ (InLoop(r) /\ r.suspend_cpu),
         NEW s, s = [r EXCEPT !.cpu_on_entry = y]
  PROVE  s \in PerCpu /\ Sound(s) /\ Similar(r, s) /\ s.cpu_on_entry = y
  <2> USE <1>EntryRecord
  <2>1. s \in PerCpu
    BY UpdateTypes
  <2>2. /\ Similar(r, s) /\ s.cpu_on_entry = y /\ s.reset = r.reset
        /\ s.flush_vcpu_caches = r.flush_vcpu_caches
    BY DEF Similar, PerCpu
  <2>3. ~Running(r)
    BY DEF Halted, Parked, Running, InLoop
  <2>4. ~Running(s) /\ (Parked(s) <=> Parked(r)) /\ (InLoop(s) <=> InLoop(r))
    BY <2>2, <2>3 DEF Similar, Running, Parked, InLoop
  <2>5. Sound(s)
    <3>1. s.pc # "boot"
      BY <2>4 DEF Running
    <3>2. InLoop(s) /\ ~s.suspend_cpu /\ ~s.park /\ s.reset /\ s.cpu_on_entry # INVALID => FALSE
      BY <2>2, <2>4 DEF Similar
    <3> QED BY <2>2, <2>4, <3>1, <3>2 DEF Sound, Similar
  <2> QED BY <2>1, <2>2, <2>5

\* The end of cell_create: the memory moves to the cell, and the cell exists.
<1>Created. CASE Created(c)
  <2> USE <1>Created
  <2>0. /\ cpu[c].pc = "hyp" /\ mgr[c].step = "park" /\ mgr[c].todo = {} /\ mgr[c].task = "create"
    BY DEF Created, Done, At
  <2>1. /\ jailhouse_lock = {c} /\ Phase(c) /\ mgr[c] \in Manager /\ mgr \in [Cpu -> Manager]
        /\ mgr[c].cell \in Cell /\ CpuSet[mgr[c].cell] \subseteq Cpu
    BY <2>0, Single, CpuSetAssumption, Zenon DEF IInv, OneManager, Phase, ManagerCpu
  <2>2. PICK x \in Cell : x = mgr[c].cell
    BY <2>1
  <2>3. /\ cpu' = config_commit(c, x)
        /\ cells' = cells \cup {x}
        /\ cell_state' = [cell_state EXCEPT ![x] = "shut_down"]
        /\ mgr' = [mgr EXCEPT ![c].step = "reconfig", ![c].inform = cells']
        /\ UNCHANGED <<loadable, offlined, jailhouse_lock>>
    BY <2>2 DEF Created, driverVars
  <2>4. /\ RootHalted(c) /\ x \notin cells
        /\ \A e \in CpuSet[x] : Halted(cpu[e]) /\ cpu[e].cell = x
    BY <2>0, <2>1, <2>2, Zenon DEF Phase, ParkOK, Parking, Owner
  <2>5. /\ cpu' \in [Cpu -> PerCpu] /\ cpu'[c] = cpu[c]
        /\ \A e \in Cpu : /\ Similar(cpu[e], cpu'[e]) /\ Sound(cpu'[e])
                          /\ cpu'[e].cpu_on_entry = cpu[e].cpu_on_entry
    BY <2>3, <2>4, <1>CommitEffect
  <2>6. \A e \in Cpu : cpu'[e].cell = cpu[e].cell /\ (Halted(cpu'[e]) <=> Halted(cpu[e]))
    BY <2>5, <1>SimilarFacts
  <2>7. /\ cells' \subseteq Cell /\ loadable' \subseteq cells' /\ cell_state' \in [Cell -> CellStates]
    BY <2>3 DEF IInv, TypeOK, CellStates
  <2>8. Goes(c, "reconfig", {}) /\ mgr'[c].task = "create" /\ mgr'[c].inform = cells'
    <3>1. mgr'[c] = [mgr[c] EXCEPT !.step = "reconfig", !.inform = cells'] /\ \A e \in Cpu : e # c => mgr'[e] = mgr[e]
      BY <2>1, <2>3
    <3>2. mgr'[c] \in Manager
      BY <2>1, <2>7, <3>1, Zenon DEF Manager, HypSteps
    <3> QED BY <2>0, <2>1, <2>3, <3>1, <3>2 DEF Manager, Goes
  <2>9. \A z : ~Razing(z)
    BY <2>0, <2>1, Zenon DEF Razing
  <2>10. OwnersOK'
    <3>1. \A z \in Cell : \A d \in Cpu : cpu[d].cell = z => d \in CpuSet[z] /\ (z \in cells \/ z = x)
      BY <2>1, <2>2, Zenon DEF IInv, OwnersOK, Building
    <3>2. \A z \in cells : \A d \in CpuSet[z] : cpu[d].cell = z
      BY <2>9 DEF IInv, OwnersOK
    <3>3. \A z \in cells' : \A d \in CpuSet[z] : d \in Cpu
      BY <2>7, CpuSetAssumption
    <3>4. \A z \in cells' : \A d \in CpuSet[z] : cpu'[d].cell = z
      BY <2>3, <2>4, <2>6, <3>2, <3>3
    <3> QED BY <2>3, <2>6, <3>1, <3>4 DEF OwnersOK
  <2>11. EntriesOK'
    BY <2>5, <2>6, <2>9, Zenon DEF IInv, EntriesOK
  <2>12. LoadableOK'
    BY <2>3, <2>6, CpuSetAssumption, Zenon DEF IInv, TypeOK, LoadableOK
  <2>13. mgr'[c].step = "reconfig" /\ mgr'[c].todo = {} /\ mgr'[c].cell = mgr[c].cell /\ cpu'[c].pc = "hyp"
    BY <2>0, <2>5, <2>8, Zenon DEF Goes
  <2>14. BeginOK(c)' /\ StopOK(c)' /\ ParkOK(c)' /\ ParkedOK(c)' /\ OnlineOK(c)'
    BY <2>13, Zenon DEF BeginOK, StopOK, ParkOK, ParkedOK, OnlineOK, Parking
  <2>15. InformOK(c)'
    BY <2>8, <2>13, Zenon DEF InformOK
  <2>16. SoundOK'
    BY <2>5 DEF SoundOK
  <2>17. {} \in SUBSET Cpu /\ "reconfig" \in HypSteps /\ "create" \in Tasks
    BY DEF HypSteps, Tasks
  <2> QED BY <2>0, <2>3, <2>5, <2>7, <2>8, <2>10, <2>11, <2>12, <2>14, <2>15, <2>16, <2>17, <1>RecordStep, Zenon

\* The end of cell_destroy_internal: the cell is gone and its CPUs are back,
\* with the entry cleared.  Also the end of a cell_create that failed.
<1>Destroyed. CASE Destroyed(c)
  <2> USE <1>Destroyed
  <2>0. /\ cpu[c].pc = "hyp" /\ mgr[c].step = "park" /\ mgr[c].todo = {} /\ mgr[c].task \in {"destroy", "undo"}
    BY DEF Destroyed, Done, At
  <2>1. /\ jailhouse_lock = {c} /\ Phase(c) /\ mgr[c] \in Manager /\ mgr \in [Cpu -> Manager]
        /\ mgr[c].cell \in Cell /\ CpuSet[mgr[c].cell] \subseteq Cpu /\ c \notin CpuSet[mgr[c].cell]
        /\ cpu[c].cell = ROOT
    BY <2>0, Single, CpuSetAssumption, Zenon DEF IInv, OneManager, Phase, ManagerCpu
  <2>2. PICK x \in Cell : x = mgr[c].cell
    BY <2>1
  <2>3. /\ cpu' = [d \in Cpu |-> IF d \in CpuSet[x] THEN HandBack(config_commit(c, x)[d]) ELSE config_commit(c, x)[d]]
        /\ cells' = cells \ {x}
        /\ loadable' = loadable \ {x}
        /\ mgr[c].task = "destroy" => mgr' = [mgr EXCEPT ![c].step = "reconfig", ![c].inform = cells']
        /\ mgr[c].task # "destroy" => mgr' = [mgr EXCEPT ![c] = [@ EXCEPT !.step = "resume", !.task = "create",
                                                 !.todo = RootCpus \ {c}, !.online = TRUE]]
        /\ UNCHANGED <<cell_state, offlined, jailhouse_lock>>
    BY <2>2 DEF Destroyed, driverVars, Unlinked
  <2>4. /\ RootHalted(c)
        /\ \A e \in CpuSet[x] : Halted(cpu[e]) /\ cpu[e].cell = ROOT
        /\ mgr[c].task = "destroy" => \A e \in CpuSet[x] : Dropped(cpu[e])
    <3>1. \A e \in CpuSet[x] : Owner(mgr[c], e) = ROOT
      BY <2>0, <2>2 DEF Owner
    <3>2. RootHalted(c) /\ \A e \in CpuSet[x] : Halted(cpu[e]) /\ cpu[e].cell = ROOT
      BY <2>0, <2>1, <2>2, <3>1, Zenon DEF Phase, ParkOK, Parking
    <3>3. mgr[c].task = "destroy" => \A e \in CpuSet[x] : Dropped(cpu[e])
      BY <2>0, <2>1, <2>2, Zenon DEF Phase, ParkedOK, Parking, Rest, AllDropped
    <3> QED BY <3>2, <3>3
  <2>5. ASSUME NEW e \in Cpu
        PROVE  /\ cpu'[e] \in PerCpu /\ Similar(cpu[e], cpu'[e]) /\ Sound(cpu'[e])
               /\ e \in CpuSet[x] => cpu'[e].cpu_on_entry = INVALID
               /\ e \notin CpuSet[x] => cpu'[e].cpu_on_entry = cpu[e].cpu_on_entry
               /\ e = c => cpu'[e] = cpu[e]
    <3> DEFINE r == config_commit(c, x)[e]
    <3>1. /\ r \in PerCpu /\ Similar(cpu[e], r) /\ Sound(r) /\ r.cpu_on_entry = cpu[e].cpu_on_entry
          /\ e = c => r = cpu[e]
      BY <2>4, <1>CommitEffect, Zenon
    <3>2. CASE e \in CpuSet[x]
      <4>1. cpu'[e] = [r EXCEPT !.cpu_on_entry = INVALID]
        BY <2>3, <3>2 DEF HandBack
      <4>2. Halted(r)
        BY <2>4, <3>1, <3>2, <1>SimilarFacts, Zenon
      <4> HIDE DEF r
      <4>3. cpu'[e] \in PerCpu /\ Sound(cpu'[e]) /\ Similar(r, cpu'[e]) /\ cpu'[e].cpu_on_entry = INVALID
        BY <3>1, <4>1, <4>2, <1>EntryRecord
      <4>4. Similar(cpu[e], cpu'[e])
        BY <3>1, <4>3 DEF Similar
      <4> QED BY <2>1, <2>2, <3>2, <4>3, <4>4, Zenon
    <3>3. CASE e \notin CpuSet[x]
      <4>1. cpu'[e] = r
        BY <2>3, <3>3
      <4> HIDE DEF r
      <4> QED BY <3>1, <3>3, <4>1, Zenon
    <3> QED BY <3>2, <3>3, Zenon
  <2>6. \A e \in Cpu : /\ cpu'[e].cell = cpu[e].cell /\ (Halted(cpu'[e]) <=> Halted(cpu[e]))
                       /\ Dropped(cpu'[e]) <=> Dropped(cpu[e])
    BY <2>5, <1>SimilarFacts, Zenon
  <2>7. /\ cells' \subseteq Cell /\ loadable' \subseteq cells' /\ cell_state' \in [Cell -> CellStates]
    BY <2>3 DEF IInv, TypeOK
  <2>8. \A z : Razing(z) \/ Building(z) => z = x
    BY <2>0, <2>1, <2>2, Zenon DEF Razing, Building
  <2>9. OwnersOK'
    <3>1. \A z \in Cell : \A d \in Cpu : cpu[d].cell = z => d \in CpuSet[z] /\ (z \in cells \/ z = x)
      BY <2>8 DEF IInv, OwnersOK
    <3>2. \A d \in Cpu : cpu[d].cell # x
      BY <2>4, <3>1, CellAssumption
    <3>3. \A z \in Cell : \A d \in Cpu : cpu'[d].cell = z => d \in CpuSet[z] /\ z \in cells'
      BY <2>3, <2>6, <3>1, <3>2
    <3>4. \A z \in cells' : \A d \in CpuSet[z] : d \in Cpu
      BY <2>7, CpuSetAssumption
    <3>5. \A z \in cells' : \A d \in CpuSet[z] : cpu'[d].cell = z
      BY <2>3, <2>6, <2>8, <3>4 DEF IInv, OwnersOK
    <3> QED BY <3>3, <3>5 DEF OwnersOK
  <2>10. EntriesOK'
    <3>1. \A e \in Cpu : cpu'[e].cell = ROOT => cpu'[e].cpu_on_entry \in {ROOT, INVALID}
      BY <2>5, <2>6, <2>8, Zenon DEF IInv, EntriesOK
    <3> QED BY <3>1 DEF EntriesOK
  <2>11. LoadableOK'
    BY <2>3, <2>6, CpuSetAssumption DEF IInv, TypeOK, LoadableOK
  <2>12. SoundOK' /\ cpu'[c] = cpu[c] /\ cpu' \in [Cpu -> PerCpu]
    <3>1. cpu' = [e \in Cpu |-> cpu'[e]]
      BY <2>3
    <3> QED BY <2>5, <3>1 DEF SoundOK
  <2>13. \A e \in CpuSet[x] : cpu'[e].cell = ROOT /\ (mgr[c].task = "destroy" => Dropped(cpu'[e]))
    BY <2>1, <2>2, <2>4, <2>6, Zenon
  <2>14. CASE mgr[c].task = "destroy"
    <3>1. Goes(c, "reconfig", {}) /\ mgr'[c].task = "destroy" /\ mgr'[c].inform = cells'
      <4>1. mgr'[c] = [mgr[c] EXCEPT !.step = "reconfig", !.inform = cells'] /\ \A e \in Cpu : e # c => mgr'[e] = mgr[e]
        BY <2>1, <2>3, <2>14, Zenon
      <4>2. mgr'[c] \in Manager
        BY <2>1, <2>7, <4>1, Zenon DEF Manager, HypSteps
      <4>3. mgr' \in [Cpu -> Manager]
        <5>1. \E m : mgr' = [mgr EXCEPT ![c] = m]
          BY <2>1, <2>3, <2>14
        <5> QED BY <2>1, <4>1, <4>2, <5>1
      <4>4. /\ mgr'[c].step = "reconfig" /\ mgr'[c].inform = cells' /\ mgr'[c].todo = mgr[c].todo
            /\ mgr'[c].cell = mgr[c].cell /\ mgr'[c].task = mgr[c].task
        BY <2>1, <4>1 DEF Manager
      <4> QED BY <2>0, <2>14, <4>1, <4>3, <4>4 DEF Goes
    <3>2. mgr'[c].step = "reconfig" /\ mgr'[c].todo = {} /\ mgr'[c].cell = x /\ cpu'[c].pc = "hyp"
      BY <2>0, <2>2, <2>12, <3>1 DEF Goes
    <3>3. BeginOK(c)' /\ StopOK(c)' /\ ParkOK(c)' /\ ParkedOK(c)' /\ OnlineOK(c)'
      BY <3>2, Zenon DEF BeginOK, StopOK, ParkOK, ParkedOK, OnlineOK, Parking
    <3>4. Back(c, CpuSet[mgr[c].cell])'
      BY <2>3, <2>13, <2>14, <3>1, <3>2 DEF Back, InRoot, AllDropped
    <3>5. InformOK(c)'
      BY <3>1, <3>2, <3>4 DEF InformOK
    <3>6. {} \in SUBSET Cpu /\ "reconfig" \in HypSteps /\ mgr'[c].task \in Tasks
      BY <3>1 DEF HypSteps, Tasks
    <3>7. UNCHANGED <<offlined, jailhouse_lock>> /\ \A e \in Cpu : Similar(cpu[e], cpu'[e])
      BY <2>3, <2>5
    <3> QED BY <2>0, <2>7, <2>9, <2>10, <2>11, <2>12, <3>1, <3>3, <3>5, <3>6, <3>7, <1>RecordStep, Zenon
  <2>15. CASE mgr[c].task # "destroy"
    <3> DEFINE todo == RootCpus \ {c}
    <3>0. todo \in SUBSET Cpu /\ c \notin todo /\ "resume" \in HypSteps
      BY DEF RootCpus, HypSteps
    <3>1. Goes(c, "resume", todo) /\ mgr'[c].task = "create"
      <4>1. /\ mgr'[c] = [mgr[c] EXCEPT !.step = "resume", !.task = "create", !.todo = todo, !.online = TRUE]
            /\ \A e \in Cpu : e # c => mgr'[e] = mgr[e]
        BY <2>1, <2>3, <2>15
      <4> HIDE DEF todo
      <4>2. mgr'[c] \in Manager
        BY <2>1, <3>0, <4>1, Zenon DEF Manager, Tasks
      <4>3. mgr' \in [Cpu -> Manager]
        <5>1. \E m : mgr' = [mgr EXCEPT ![c] = m]
          BY <2>1, <2>3, <2>15
        <5> QED BY <2>1, <4>1, <4>2, <5>1
      <4> QED BY <2>0, <2>1, <4>1, <4>3 DEF Manager, Goes
    <3>2. mgr'[c].step = "resume" /\ mgr'[c].todo = todo /\ mgr'[c].cell = x /\ cpu'[c].pc = "hyp"
      BY <2>0, <2>2, <2>12, <3>1 DEF Goes
    <3>3. BeginOK(c)' /\ StopOK(c)' /\ ParkOK(c)' /\ ParkedOK(c)' /\ InformOK(c)'
      BY <3>2, Zenon DEF BeginOK, StopOK, ParkOK, ParkedOK, InformOK, Parking
    <3>4. Back(c, CpuSet[mgr[c].cell])'
      BY <2>3, <2>13, <3>1, <3>2 DEF Back, InRoot, AllDropped
    <3>5. InRoot(mgr[c].todo)'
      BY <2>6, <3>2 DEF InRoot, RootCpus
    <3>6. OnlineOK(c)'
      BY <3>2, <3>4, <3>5, Zenon DEF OnlineOK
    <3>7. UNCHANGED <<offlined, jailhouse_lock>> /\ (\A e \in Cpu : Similar(cpu[e], cpu'[e])) /\ mgr'[c].task \in Tasks
      BY <2>3, <2>5, <3>1 DEF Tasks
    <3> QED BY <2>0, <2>7, <2>9, <2>10, <2>11, <2>12, <3>0, <3>1, <3>3, <3>6, <3>7, <1>RecordStep, Zenon
  <2> QED BY <2>14, <2>15

\* The end of cell_set_loadable: the root cell may access the cell's memory,
\* and no CPU of the cell executes.
<1>SetLoadable. CASE SetLoadable(c)
  <2> USE <1>SetLoadable
  <2>0. /\ cpu[c].pc = "hyp" /\ mgr[c].step = "park" /\ mgr[c].todo = {} /\ mgr[c].task = "load"
        /\ Finish(c, FALSE) /\ UNCHANGED <<cells, offlined, jailhouse_lock>>
    BY Zenon DEF SetLoadable, Done, At, driverVars
  <2>1. /\ jailhouse_lock = {c} /\ Phase(c) /\ mgr[c].cell \in Cell
    BY <2>0, Single, Zenon DEF Phase, ManagerCpu
  <2>2. PICK x \in Cell : x = mgr[c].cell
    BY <2>1
  <2>3. CASE UNCHANGED <<cpu, loadable, cell_state>>
    <3>1. cell_state' \in [Cell -> CellStates] /\ FALSE \in BOOLEAN
      BY <2>3 DEF IInv, TypeOK
    <3> QED BY <2>0, <2>3, <3>1, FinishKeeps, Zenon
  <2>4. CASE /\ loadable' = loadable \cup {x}
             /\ cell_state' = [cell_state EXCEPT ![x] = "shut_down"]
             /\ cpu' \in {cpu, config_commit(c, NONE)}
    <3>1. /\ RootHalted(c) /\ x \in cells
          /\ \A e \in CpuSet[x] : Halted(cpu[e])
      BY <2>0, <2>1, <2>2, Zenon DEF Phase, ParkOK, Parking
    <3>2. /\ cpu' \in [Cpu -> PerCpu] /\ cpu'[c] = cpu[c]
          /\ \A e \in Cpu : /\ Similar(cpu[e], cpu'[e]) /\ Sound(cpu'[e])
                            /\ cpu'[e].cpu_on_entry = cpu[e].cpu_on_entry
      <4>1. CASE cpu' = cpu
        BY <4>1 DEF IInv, TypeOK, SoundOK, Similar
      <4>2. CASE cpu' = config_commit(c, NONE)
        <5>1. NONE \notin Cell
          BY CellAssumption
        <5> QED BY <3>1, <4>2, <5>1, <1>CommitEffect, Zenon
      <4> QED BY <2>4, <4>1, <4>2
    <3>3. \A e \in Cpu : cpu'[e].cell = cpu[e].cell /\ (Halted(cpu'[e]) <=> Halted(cpu[e]))
      BY <3>2, <1>SimilarFacts
    <3>4. SoundOK' /\ \A e \in Cpu : Similar(cpu[e], cpu'[e])
      BY <3>2 DEF SoundOK
    <3> DEFINE todo == RootCpus \ {c}
    <3>5. todo \in SUBSET Cpu /\ c \notin todo /\ "resume" \in HypSteps
      BY DEF RootCpus, HypSteps
    <3>6. Goes(c, "resume", todo) /\ mgr'[c].task = "load" /\ mgr'[c].online = FALSE
      BY <2>0, FinishEffect, Zenon
    <3>7. OwnersOK' /\ EntriesOK'
      <4>1. OwnersSame
        BY <3>2, <3>3 DEF OwnersSame
      <4>2. BusyKept
        BY <2>0, <2>1, Zenon DEF BusyKept, Building, Razing
      <4> QED BY <2>0, <4>1, <4>2, OwnersKept, Zenon DEF IInv, TypeOK
    <3>8. LoadableOK'
      BY <2>4, <3>1, <3>3, CpuSetAssumption, Zenon DEF IInv, TypeOK, LoadableOK
    <3>9. cells' \subseteq Cell /\ loadable' \subseteq cells' /\ cell_state' \in [Cell -> CellStates]
      BY <2>0, <2>4, <3>1, Zenon DEF IInv, TypeOK, CellStates
    <3>10. mgr'[c].step = "resume" /\ mgr'[c].todo = todo /\ cpu'[c].pc = "hyp" /\ mgr'[c].task \in Tasks
      BY <2>0, <3>2, <3>6, Zenon DEF Goes, Tasks
    <3>11. BeginOK(c)' /\ StopOK(c)' /\ ParkOK(c)' /\ ParkedOK(c)' /\ InformOK(c)'
      BY <3>10, Zenon DEF BeginOK, StopOK, ParkOK, ParkedOK, InformOK, Parking
    <3>12. InRoot(mgr[c].todo)'
      BY <3>3, <3>10, Zenon DEF InRoot, RootCpus
    <3>13. OnlineOK(c)'
      BY <3>6, <3>10, <3>12, Zenon DEF OnlineOK
    <3> QED BY <2>0, <3>2, <3>4, <3>5, <3>6, <3>7, <3>8, <3>9, <3>10, <3>11, <3>13, <1>RecordStep, Zenon
  <2> QED BY <2>2, <2>3, <2>4 DEF SetLoadable

\* cell_start takes the memory away from the root cell before any CPU of the
\* cell runs, and sets the entry of its first CPU.
<1>CellStart. CASE CellStart(c)
  <2> USE <1>CellStart
  <2>0. /\ cpu[c].pc = "hyp" /\ mgr[c].step = "suspend_cell" /\ mgr[c].todo = {} /\ mgr[c].task = "start"
        /\ UNCHANGED <<cells, offlined, jailhouse_lock>>
    BY DEF CellStart, Done, At, driverVars
  <2>1. /\ jailhouse_lock = {c} /\ Phase(c) /\ mgr[c].cell \in Cell /\ c \notin CpuSet[mgr[c].cell]
    BY <2>0, Single, Zenon DEF Phase, ManagerCpu
  <2>2. PICK x \in Cell : x = mgr[c].cell
    BY <2>1, Zenon
  <2> DEFINE f == IF x \in loadable THEN config_commit(c, NONE) ELSE cpu
  <2>3. /\ cpu' = [d \in Cpu |-> IF d \in CpuSet[x] THEN [f[d] EXCEPT !.cpu_on_entry = Entry(x, d)] ELSE f[d]]
        /\ loadable' = loadable \ {x}
        /\ cell_state' = [cell_state EXCEPT ![x] = "running"]
        /\ Goto(c, "reset", CpuSet[x])
    BY <2>2 DEF CellStart
  <2>4. /\ RootHalted(c) /\ x \in cells /\ CpuSet[x] \in SUBSET Cpu /\ CpuSet[x] # {}
        /\ \A e \in CpuSet[x] : cpu[e].suspend_cpu /\ InLoop(cpu[e]) /\ Halted(cpu[e]) /\ cpu[e].cell = x
    <3>1. RootHalted(c) /\ x \in cells /\ \A e \in CpuSet[x] : cpu[e].suspend_cpu
      BY <2>0, <2>1, <2>2, Zenon DEF Phase, StopOK, AllSuspended
    <3>2. CpuSet[x] \in SUBSET Cpu /\ CpuSet[x] # {}
      BY CpuSetAssumption
    <3>3. \A e \in CpuSet[x] : InLoop(cpu[e])
      BY <2>0, <2>1, <3>1, <3>2, Zenon DEF IInv, EventsOK
    <3>4. \A e \in CpuSet[x] : cpu[e].cell = x
      BY <2>0, <2>1, <3>1, <3>2, Zenon DEF IInv, OwnersOK, Razing, Parking
    <3> QED BY <3>1, <3>2, <3>3, <3>4, Zenon DEF Halted
  <2>5. /\ f \in [Cpu -> PerCpu] /\ f[c] = cpu[c]
        /\ \A e \in Cpu : Similar(cpu[e], f[e]) /\ Sound(f[e]) /\ f[e].cpu_on_entry = cpu[e].cpu_on_entry
    <3>1. CASE x \in loadable
      <4>1. NONE \notin Cell
        BY CellAssumption
      <4>2. f = config_commit(c, NONE)
        BY <3>1
      <4> HIDE DEF f
      <4>3. /\ config_commit(c, NONE) \in [Cpu -> PerCpu] /\ config_commit(c, NONE)[c] = cpu[c]
            /\ \A e \in Cpu : /\ Similar(cpu[e], config_commit(c, NONE)[e])
                              /\ Sound(config_commit(c, NONE)[e])
                              /\ config_commit(c, NONE)[e].cpu_on_entry = cpu[e].cpu_on_entry
        BY <2>4, <4>1, <1>CommitEffect, Zenon
      <4> QED BY <4>2, <4>3
    <3>2. CASE x \notin loadable
      BY <3>2 DEF IInv, TypeOK, SoundOK, Similar
    <3> QED BY <3>1, <3>2
  <2> HIDE DEF f
  <2>6. ASSUME NEW e \in Cpu
        PROVE  /\ cpu'[e] \in PerCpu /\ Similar(cpu[e], cpu'[e]) /\ Sound(cpu'[e])
               /\ e \in CpuSet[x] => cpu'[e].cpu_on_entry \in {x, INVALID}
               /\ e \notin CpuSet[x] => cpu'[e].cpu_on_entry = cpu[e].cpu_on_entry
               /\ e = c => cpu'[e] = cpu[e]
    <3>1. CASE e \in CpuSet[x]
      <4> DEFINE y == Entry(x, e)
      <4>1. cpu'[e] = [f[e] EXCEPT !.cpu_on_entry = y]
        BY <2>3, <3>1
      <4>2. Halted(f[e]) /\ InLoop(f[e]) /\ f[e].suspend_cpu /\ f[e] \in PerCpu /\ Sound(f[e]) /\ Similar(cpu[e], f[e])
        BY <2>4, <2>5, <3>1, <1>SimilarFacts, Zenon
      <4>3. y \in {x, INVALID} /\ y \in Cell \cup {ROOT, INVALID}
        BY DEF Entry
      <4> HIDE DEF y
      <4>4. cpu'[e] \in PerCpu /\ Sound(cpu'[e]) /\ Similar(f[e], cpu'[e]) /\ cpu'[e].cpu_on_entry = y
        BY <4>1, <4>2, <4>3, <1>EntryRecord
      <4>5. Similar(cpu[e], cpu'[e])
        BY <4>2, <4>4, Zenon DEF Similar
      <4> QED BY <2>1, <2>2, <3>1, <4>3, <4>4, <4>5, Zenon
    <3>2. CASE e \notin CpuSet[x]
      <4>1. cpu'[e] = f[e]
        BY <2>3, <3>2
      <4> QED BY <2>5, <3>2, <4>1, Zenon
    <3> QED BY <3>1, <3>2, Zenon
  <2>7. \A e \in Cpu : /\ cpu'[e].cell = cpu[e].cell /\ (Halted(cpu'[e]) <=> Halted(cpu[e]))
                       /\ cpu'[e].suspend_cpu = cpu[e].suspend_cpu
    BY <2>6, <1>SimilarFacts, Zenon
  <2>8. cpu' \in [Cpu -> PerCpu] /\ SoundOK' /\ cpu'[c] = cpu[c] /\ \A e \in Cpu : Similar(cpu[e], cpu'[e])
    <3>1. cpu' = [e \in Cpu |-> cpu'[e]]
      BY <2>3
    <3> QED BY <2>6, <3>1 DEF SoundOK
  <2>9. Goes(c, "reset", CpuSet[x]) /\ mgr'[c].task = "start" /\ "reset" \in HypSteps /\ "start" \in Tasks
    BY <2>0, <2>3, <2>4, GotoEffect, Zenon DEF HypSteps, Tasks
  <2>10. mgr'[c].step = "reset" /\ mgr'[c].todo = CpuSet[x] /\ mgr'[c].cell = x /\ cpu'[c].pc = "hyp"
    BY <2>0, <2>2, <2>8, <2>9 DEF Goes
  <2>11. \A z : ~Razing(z) /\ ~Building(z)
    BY <2>0, <2>1 DEF Razing, Building, Parking
  <2>12. OwnersOK'
    <3>1. \A z \in cells : \A d \in CpuSet[z] : d \in Cpu
      BY CpuSetAssumption DEF IInv, TypeOK
    <3> QED BY <2>0, <2>7, <2>11, <3>1, Zenon DEF IInv, OwnersOK
  <2>13. EntriesOK'
    <3>1. \A e \in Cpu : cpu'[e].cell = ROOT => cpu'[e].cpu_on_entry \in {ROOT, INVALID}
      <4> SUFFICES ASSUME NEW e \in Cpu, cpu'[e].cell = ROOT
                   PROVE  cpu'[e].cpu_on_entry \in {ROOT, INVALID}
        OBVIOUS
      <4>1. cpu[e].cell = ROOT
        BY <2>7
      <4>2. e \notin CpuSet[x]
        BY <2>4, <4>1, CellAssumption
      <4>3. cpu[e].cpu_on_entry \in {ROOT, INVALID}
        BY <2>11, <4>1, Zenon DEF IInv, EntriesOK
      <4> QED BY <2>6, <4>2, <4>3, Zenon
    <3> QED BY <3>1 DEF EntriesOK
  <2>14. LoadableOK'
    BY <2>3, <2>7, CpuSetAssumption, Zenon DEF IInv, TypeOK, LoadableOK
  <2>15. cells' \subseteq Cell /\ loadable' \subseteq cells' /\ cell_state' \in [Cell -> CellStates]
    BY <2>0, <2>3 DEF IInv, TypeOK, CellStates
  <2>16. StopOK(c)'
    <3>1. AllSuspended(CpuSet[x])'
      BY <2>4, <2>7, Zenon DEF AllSuspended
    <3>2. \A d \in CpuSet[x] : cpu'[d].cpu_on_entry \in {x, INVALID}
      BY <2>4, <2>6, Zenon
    <3>3. x \in cells' \ loadable'
      BY <2>0, <2>3, <2>4
    <3> QED BY <2>4, <2>9, <2>10, <3>1, <3>2, <3>3, Zenon DEF StopOK, AllSuspended
  <2>17. BeginOK(c)' /\ ParkOK(c)' /\ ParkedOK(c)' /\ InformOK(c)' /\ OnlineOK(c)'
    BY <2>10, Zenon DEF BeginOK, ParkOK, ParkedOK, InformOK, OnlineOK, Parking
  <2>18. c \notin CpuSet[x]
    BY <2>1, <2>2
  <2> QED BY <2>0, <2>4, <2>8, <2>9, <2>12, <2>13, <2>14, <2>15, <2>16, <2>17, <2>18, <1>RecordStep, Zenon

\* cell_create fails in a unit's cell_init with the entries of the CPUs
\* already cleared.
<1>CheckedRefused.
  ASSUME Checked(c), mgr[c].task = "create", Finish(c, TRUE),
         cpu' = [d \in Cpu |-> IF d \in CpuSet[mgr[c].cell] THEN HandBack(cpu[d]) ELSE cpu[d]]
  PROVE  IInv'
  <2> USE <1>CheckedRefused
  <2>0. /\ cpu[c].pc = "hyp" /\ mgr[c].step = "suspend_root" /\ mgr[c].todo = {}
        /\ UNCHANGED <<cells, loadable, cell_state, offlined, jailhouse_lock>>
    BY Zenon DEF Checked, Done, At, cellVars, driverVars
  <2>1. /\ jailhouse_lock = {c} /\ Phase(c) /\ mgr[c].cell \in Cell
        /\ CpuSet[mgr[c].cell] \in SUBSET Cpu /\ c \notin CpuSet[mgr[c].cell]
    BY <2>0, Single, CpuSetAssumption, Zenon DEF Phase, ManagerCpu
  <2>2. PICK x \in Cell : x = mgr[c].cell
    BY <2>1
  <2>3. x \notin cells /\ \A e \in CpuSet[x] : cpu[e].cell = ROOT /\ cpu[e].suspend_cpu /\ Halted(cpu[e])
    <3>1. x \notin cells /\ \A e \in CpuSet[x] : cpu[e].cell = ROOT
      BY <2>0, <2>1, <2>2, Zenon DEF Phase, BeginOK, InRoot
    <3>2. \A e \in CpuSet[x] : cpu[e].suspend_cpu
      BY <2>0, <2>1, <2>2, <3>1, Zenon DEF Phase, BeginOK
    <3>3. \A e \in CpuSet[x] : Halted(cpu[e])
      BY <2>0, <2>1, <2>2, <3>2, Zenon DEF IInv, EventsOK, Halted
    <3> QED BY <3>1, <3>2, <3>3
  <2>4. ASSUME NEW e \in Cpu
        PROVE  /\ cpu'[e] \in PerCpu /\ Similar(cpu[e], cpu'[e]) /\ Sound(cpu'[e])
               /\ e \in CpuSet[x] => cpu'[e].cpu_on_entry = INVALID
               /\ e \notin CpuSet[x] => cpu'[e].cpu_on_entry = cpu[e].cpu_on_entry
               /\ e = c => cpu'[e] = cpu[e]
    <3>0. cpu[e] \in PerCpu /\ Sound(cpu[e])
      BY Zenon DEF IInv, TypeOK, SoundOK
    <3>1. CASE e \in CpuSet[x]
      <4>1. cpu'[e] = [cpu[e] EXCEPT !.cpu_on_entry = INVALID]
        BY <2>2, <3>1 DEF HandBack
      <4>2. cpu'[e] \in PerCpu /\ Sound(cpu'[e]) /\ Similar(cpu[e], cpu'[e]) /\ cpu'[e].cpu_on_entry = INVALID
        BY <2>3, <3>0, <3>1, <4>1, <1>EntryRecord
      <4> QED BY <2>1, <2>2, <3>1, <4>2, Zenon
    <3>2. CASE e \notin CpuSet[x]
      <4>1. cpu'[e] = cpu[e]
        BY <2>2, <3>2
      <4> QED BY <3>0, <3>2, <4>1, Zenon DEF Similar
    <3> QED BY <3>1, <3>2, Zenon
  <2>5. \A e \in Cpu : cpu'[e].cell = cpu[e].cell /\ (Halted(cpu'[e]) <=> Halted(cpu[e]))
    BY <2>4, <1>SimilarFacts, Zenon
  <2>6. cpu' \in [Cpu -> PerCpu] /\ SoundOK' /\ cpu'[c] = cpu[c] /\ \A e \in Cpu : Similar(cpu[e], cpu'[e])
    <3>1. cpu' = [e \in Cpu |-> cpu'[e]]
      OBVIOUS
    <3> QED BY <2>4, <3>1, Zenon DEF SoundOK
  <2>7. OwnersOK' /\ EntriesOK'
    <3>1. OwnersSame
      BY <2>4, <2>5, Zenon DEF OwnersSame
    <3>2. BusyKept
      BY <2>0, <2>1, Zenon DEF BusyKept, Building, Razing, Parking
    <3> QED BY <2>0, <3>1, <3>2, OwnersKept DEF IInv, TypeOK
  <2>8. LoadableOK'
    BY <2>0, <2>5, CpuSetAssumption, Zenon DEF IInv, TypeOK, LoadableOK
  <2>9. cells' \subseteq Cell /\ loadable' \subseteq cells' /\ cell_state' \in [Cell -> CellStates]
    BY <2>0, Zenon DEF IInv, TypeOK
  <2> DEFINE todo == RootCpus \ {c}
  <2>10. todo \in SUBSET Cpu /\ c \notin todo /\ "resume" \in HypSteps /\ TRUE \in BOOLEAN
    BY DEF RootCpus, HypSteps
  <2>11. Goes(c, "resume", todo) /\ mgr'[c].task = "create"
    BY <2>10, FinishEffect, Zenon
  <2>12. mgr'[c].step = "resume" /\ mgr'[c].todo = todo /\ cpu'[c].pc = "hyp" /\ mgr'[c].task \in Tasks /\ mgr'[c].cell = x
    BY <2>0, <2>2, <2>6, <2>11, Zenon DEF Goes, Tasks
  <2>13. BeginOK(c)' /\ StopOK(c)' /\ ParkOK(c)' /\ ParkedOK(c)' /\ InformOK(c)'
    BY <2>12, Zenon DEF BeginOK, StopOK, ParkOK, ParkedOK, InformOK, Parking
  <2>14. InRoot(mgr[c].todo)'
    BY <2>5, <2>12 DEF InRoot, RootCpus
  <2>15. Back(c, CpuSet[mgr[c].cell])'
    <3>1. \A e \in CpuSet[x] : cpu'[e].cell = ROOT
      BY <2>1, <2>2, <2>3, <2>5, Zenon
    <3> QED BY <2>0, <2>3, <2>11, <2>12, <3>1, Zenon DEF Back, InRoot
  <2>16. OnlineOK(c)'
    BY <2>12, <2>14, <2>15, Zenon DEF OnlineOK
  <2> QED BY <2>0, <2>6, <2>7, <2>8, <2>9, <2>10, <2>11, <2>12, <2>13, <2>16, <1>RecordStep, Zenon

<1>Refused. CASE Checked(c) /\ cpu' # cpu
  <2>1. /\ mgr[c].task = "create" /\ Finish(c, TRUE)
        /\ cpu' = [d \in Cpu |-> IF d \in CpuSet[mgr[c].cell] THEN HandBack(cpu[d]) ELSE cpu[d]]
    BY <1>Refused, Zenon DEF Checked
  <2> QED BY <1>Refused, <2>1, <1>CheckedRefused, Zenon
<1> QED BY <1>Created, <1>Destroyed, <1>SetLoadable, <1>CellStart, <1>Refused
=============================================================================
