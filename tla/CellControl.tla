----------------------------- MODULE CellControl -----------------------------
(***************************************************************************)
(* Cell management and CPU control.  The root cell's driver                *)
(* (driver/cell.c) creates, loads, starts and destroys cells with          *)
(* hypercalls (hypervisor/control.c), one at a time under its mutex; the   *)
(* CPU that issues the hypercall suspends, parks, resets and resumes the   *)
(* others through flags in their per_cpu structures and an SGI             *)
(* (hypervisor/arch/arm-common/control.c); guests switch CPUs on and off   *)
(* with PSCI calls (hypervisor/arch/arm-common/psci.c).                    *)
(*                                                                         *)
(* A step is one critical section of a control_lock, one unlocked access   *)
(* that another CPU can observe, or a stretch of code nobody can observe.  *)
(* What arch_park_cpu does to the memory token is in FixedPriority.        *)
(***************************************************************************)
EXTENDS Naturals

CONSTANTS
  Cpu,      \* CPUs, numbered
  Cell,     \* cells the root cell may create
  CpuSet,   \* CpuSet[x]: the CPUs of cell x in its configuration
  Passive,  \* cells with JAILHOUSE_CELL_PASSIVE_COMMREG
  Timed,    \* cells with a msg_reply_timeout
  Command,  \* Command[x]: the commands given for cell x
  Hotplug,  \* CPUs the root cell's kernel switches on and off on its own
  Mixed     \* whether it does so, and cells do, while a command runs

VARIABLES
  cpu,             \* cpu[c]: the per_cpu structure and where the CPU is
  mgr,             \* mgr[c]: the management command the CPU is working on
  cells,           \* cells that exist
  cell_state,      \* comm_region.cell_state of each cell
  loadable,        \* cells whose memory the root cell can access
  offlined,        \* offlined_cpus of the driver
  jailhouse_lock   \* CPUs whose command holds the driver's mutex

vars == <<cpu, mgr, cells, cell_state, loadable, offlined, jailhouse_lock>>
cellVars == <<cells, cell_state, loadable>>
driverVars == <<offlined, jailhouse_lock>>

ROOT == "root"
PARKING == "parking"
INVALID == "invalid"
NONE == "none"

ASSUME CellAssumption == Cell \cap {ROOT, PARKING, INVALID, NONE} = {}
ASSUME CpuAssumption == Cpu \subseteq Nat
ASSUME CpuSetAssumption == CpuSet \in [Cell -> (SUBSET Cpu) \ {{}}]
ASSUME CommandAssumption == \A x \in Cell : Command[x] \subseteq {"start", "load", "destroy"}

\* first_cpu, and next_cpu when those before it are done: CPUs are taken in the
\* order of their numbers.
first_cpu(S) == CHOOSE c \in S : \A d \in S : c <= d

CellStates == {"running", "running_locked", "shut_down", "failed"}

\* The CPUs that per_cpu()->cell assigns to the root cell: its cpu_set.
RootCpus == {c \in Cpu : cpu[c].cell = ROOT}

\* The CPU is in cell x, or idles in PARKING with an empty address space; it
\* executes code there as long as no SGI is pending.
In(c, x) == cpu[c].pc = "guest" /\ cpu[c].mm = x
Runs(c, x) == In(c, x) /\ ~cpu[c].sgi

-----------------------------------------------------------------------------
Idle == [step |-> "idle", task |-> NONE, cell |-> NONE,
         todo |-> {}, inform |-> {}, online |-> FALSE]

Init ==
  /\ cpu = [c \in Cpu |->
              [suspend_cpu |-> FALSE, cpu_suspended |-> FALSE, park |-> FALSE,
               reset |-> FALSE, wait_for_poweron |-> FALSE, cpu_on_entry |-> ROOT,
               flush_vcpu_caches |-> FALSE, failed |-> FALSE, cell |-> ROOT,
               sgi |-> FALSE, pc |-> "guest", mm |-> ROOT]]
  /\ mgr = [c \in Cpu |-> Idle]
  /\ cells = {}
  /\ cell_state = [x \in Cell |-> "shut_down"]
  /\ loadable = {}
  /\ offlined = {}
  /\ jailhouse_lock = {}

-----------------------------------------------------------------------------
(* The target's side: SGI_EVENT and check_events. *)

\* Faulty variants of the definitions below carry a suffix that names the
\* fault; no specification uses them.
enter_cpu_off_park_kept(r) == [r EXCEPT !.wait_for_poweron = TRUE]

enter_cpu_off(r) == [r EXCEPT !.park = FALSE, !.wait_for_poweron = TRUE]

\* arm_cpu_park: the CPU ends in the parking loop.  arm_paging_vcpu_init
\* drops the translations of the cell.
arm_cpu_park(r) == [enter_cpu_off(r) EXCEPT !.pc = "guest", !.mm = PARKING]

\* arm_cpu_reset: the CPU enters the cell it belongs to at the given entry.
arm_cpu_reset(r) == [r EXCEPT !.pc = "guest", !.mm = r.cell]

SeeSuspend(r) ==
  [r EXCEPT !.cpu_suspended = r.cpu_suspended \/ r.suspend_cpu, !.pc = "spin"]

\* The SGI arrives; check_events takes the lock for the first time.
TakeEvent(c) ==
  /\ cpu[c].pc = "guest"
  /\ cpu[c].sgi
  /\ cpu' = [cpu EXCEPT ![c] = SeeSuspend([@ EXCEPT !.sgi = FALSE])]

\* The busy-wait without the lock ends.
SpinEnds(c) ==
  /\ cpu[c].pc = "spin"
  /\ ~cpu[c].suspend_cpu
  /\ cpu' = [cpu EXCEPT ![c].pc = "relock"]

\* flush_vcpu_caches is served before the CPU leaves.
FlushVcpu(r) == [r EXCEPT !.flush_vcpu_caches = FALSE]

\* The second critical section once the CPU is no longer suspended: a park
\* request takes precedence over a reset request, which then stays pending.
\* A CPU that waits for power-on is parked again whatever woke it up.
Resumed(r) ==
  LET awake == [r EXCEPT !.cpu_suspended = FALSE] IN
    IF r.park
      THEN [enter_cpu_off(awake) EXCEPT !.pc = "off"]
    ELSE IF r.reset /\ r.cpu_on_entry # INVALID
      THEN [awake EXCEPT !.reset = FALSE, !.wait_for_poweron = FALSE, !.pc = "boot"]
    ELSE IF r.reset
      THEN [enter_cpu_off(awake) EXCEPT !.reset = FALSE, !.pc = "off"]
    ELSE [awake EXCEPT !.pc = IF r.wait_for_poweron THEN "off" ELSE "guest"]

CheckEvents(c) ==
  /\ cpu[c].pc = "relock"
  /\ cpu' = [cpu EXCEPT ![c] = IF @.suspend_cpu THEN SeeSuspend(@)
                                                ELSE FlushVcpu(Resumed(@))]

\* After the lock is released.
LeaveEvents(c) ==
  /\ cpu[c].pc \in {"off", "boot"}
  /\ cpu' = [cpu EXCEPT ![c] = IF @.pc = "off" THEN arm_cpu_park(@) ELSE arm_cpu_reset(@)]

HandleEvent(c) ==
  /\ TakeEvent(c) \/ SpinEnds(c) \/ CheckEvents(c) \/ LeaveEvents(c)
  /\ UNCHANGED <<mgr, cellVars, driverVars>>

-----------------------------------------------------------------------------
(* The guests: PSCI calls, crashes and the communication region. *)

\* psci_emulate_cpu_on: the kick follows once the lock is released.
psci_emulate_cpu_on(c, d) ==
  IF cpu[d].wait_for_poweron
    THEN [cpu EXCEPT ![d].cpu_on_entry = cpu[c].cell, ![d].reset = TRUE, ![c].pc = "cpu_on"]
    ELSE cpu

\* No CPU is on its way to on-line; the kernel switches on one at a time.
HotplugIdle ==
  \A d \in RootCpus :
    /\ cpu[d].pc \notin {"boot", "cpu_on"} /\ ~cpu[d].sgi /\ mgr[d].step # "await"
    /\ cpu[d].reset => Runs(d, PARKING)
    /\ cpu[d].pc \in {"spin", "relock"} => cpu[d].cpu_suspended

\* A CPU switches on another one of its cell; mgr[c].todo keeps the target.
GuestCpuOn(c, d) ==
  /\ \E x \in Cell \cup {ROOT} : Runs(c, x) /\ (x = ROOT => d \in Hotplug /\ HotplugIdle)
  /\ mgr[c] = Idle
  /\ Mixed \/ jailhouse_lock = {}
  /\ c # d /\ cpu[d].cell = cpu[c].cell
  /\ cpu[d].wait_for_poweron
  /\ cpu' = psci_emulate_cpu_on(c, d)
  /\ mgr' = [mgr EXCEPT ![c].todo = {d}]
  /\ UNCHANGED <<cellVars, driverVars>>

KickOn(c) ==
  /\ cpu[c].pc = "cpu_on"
  /\ cpu' = [cpu EXCEPT ![first_cpu(mgr[c].todo)].sgi = TRUE, ![c].pc = "guest"]
  /\ mgr' = [mgr EXCEPT ![c] = IF @.step = "online" THEN [@ EXCEPT !.step = "await"] ELSE Idle]
  /\ UNCHANGED <<cellVars, driverVars>>

\* PSCI CPU_OFF; the root cell keeps a CPU that runs the driver.
GuestCpuOff(c) ==
  /\ \/ \E x \in Cell : Runs(c, x)
     \/ c \in Hotplug /\ HotplugIdle /\ (Mixed \/ jailhouse_lock = {})
        /\ Runs(c, ROOT) /\ \E d \in Cpu \ {c} : Runs(d, ROOT)
  /\ mgr[c] = Idle
  /\ cpu' = [cpu EXCEPT ![c] = arm_cpu_park(@)]
  /\ UNCHANGED <<mgr, cellVars, driverVars>>

\* panic_park: the cell has failed when all its CPUs have.
panic_park(c) ==
  \E x \in Cell :
    /\ Runs(c, x)
    /\ cpu' = [cpu EXCEPT ![c] = arm_cpu_park([@ EXCEPT !.failed = TRUE])]
    /\ cell_state' = IF \A d \in CpuSet[x] \ {c} : cpu[d].failed
                       THEN [cell_state EXCEPT ![x] = "failed"] ELSE cell_state
    /\ UNCHANGED <<mgr, cells, loadable, driverVars>>

\* A cell that uses its communication region publishes a state there.
SetState(x) ==
  /\ x \in cells \ Passive
  /\ \E c \in Cpu : Runs(c, x)
  /\ \E s \in CellStates : cell_state' = [cell_state EXCEPT ![x] = s]
  /\ UNCHANGED <<cpu, mgr, cells, loadable, driverVars>>

-----------------------------------------------------------------------------
(* The driver's commands. *)

\* The CPU enters the hypervisor for command m and starts with cell_suspend
\* of the root cell.
Hypercall(c, m) ==
  /\ mgr' = [mgr EXCEPT ![c] = [m EXCEPT !.step = "suspend_root", !.todo = RootCpus \ {c}]]
  /\ cpu' = [cpu EXCEPT ![c].pc = "hyp"]

\* The CPU is free to run a command, and so is the mutex.
LockIsFree(c) ==
  /\ Runs(c, ROOT) /\ mgr[c] = Idle
  /\ jailhouse_lock = {}
  /\ Mixed \/ HotplugIdle

\* jailhouse_cmd_cell_create up to the first cpu_down.  The command runs on
\* a CPU that it does not take away.
CmdCellCreate(c, x) ==
  /\ LockIsFree(c)
  /\ x \notin cells
  /\ CpuSet[x] \subseteq RootCpus \ {c}
  /\ mgr' = [mgr EXCEPT ![c] = [@ EXCEPT !.step = "offline", !.task = "create",
                                         !.cell = x, !.todo = CpuSet[x]]]
  /\ jailhouse_lock' = jailhouse_lock \cup {c}
  /\ UNCHANGED <<cpu, cellVars, offlined>>

\* cpu_down of the next CPU, which powers itself off, unless it is off-line;
\* the kernel does not overlap it with switching on another CPU.
CpuDown(c) ==
  /\ Runs(c, ROOT)
  /\ HotplugIdle
  /\ mgr[c].step = "offline" /\ mgr[c].todo # {}
  /\ LET d == first_cpu(mgr[c].todo) IN
       /\ \/ Runs(d, ROOT) /\ mgr[d] = Idle
             /\ cpu' = [cpu EXCEPT ![d] = arm_cpu_park(@)]
             /\ offlined' = offlined \cup {d}
          \/ cpu[d].mm = PARKING /\ UNCHANGED <<cpu, offlined>>
       /\ mgr' = [mgr EXCEPT ![c].todo = @ \ {d}]
  /\ UNCHANGED <<cellVars, jailhouse_lock>>

\* cpu_down fails: error_cpu_online.
CpuDownFails(c) ==
  /\ Runs(c, ROOT)
  /\ mgr[c].step = "offline" /\ mgr[c].todo # {}
  /\ mgr' = [mgr EXCEPT ![c].step = "online", ![c].todo = CpuSet[mgr[c].cell]]
  /\ UNCHANGED <<cpu, cellVars, driverVars>>

CallCreate(c) ==
  /\ Runs(c, ROOT)
  /\ mgr[c].step = "offline" /\ mgr[c].todo = {}
  /\ Hypercall(c, mgr[c])
  /\ UNCHANGED <<cellVars, driverVars>>

\* jailhouse_cmd_cell_start, _load and _destroy.
CmdCell(c, task, x) ==
  /\ LockIsFree(c)
  /\ x \in cells
  /\ Hypercall(c, [Idle EXCEPT !.task = task, !.cell = x])
  /\ jailhouse_lock' = jailhouse_lock \cup {c}
  /\ UNCHANGED <<cellVars, offlined>>

\* cpu_up of the next CPU, of those the driver took off-line (cell_destroy)
\* or of those not on-line (error path of cell_create).
CpuUp(c) ==
  /\ Runs(c, ROOT)
  /\ mgr[c].step = "online" /\ mgr[c].todo # {}
  /\ LET d == first_cpu(mgr[c].todo)
         wanted == IF mgr[c].task = "create" THEN cpu[d].mm # ROOT ELSE d \in offlined
     IN IF wanted /\ cpu[d].wait_for_poweron
          THEN cpu' = psci_emulate_cpu_on(c, d) /\ UNCHANGED <<mgr, offlined>>
          ELSE /\ mgr' = [mgr EXCEPT ![c].todo = @ \ {d}]
               /\ offlined' = IF mgr[c].task = "destroy" THEN offlined \ {d} ELSE offlined
               /\ UNCHANGED cpu
  /\ UNCHANGED <<cellVars, jailhouse_lock>>

\* The kernel waits until the CPU is on-line; it gives up long after the
\* hypervisor has nothing left to do for that CPU.
AwaitCpu(c) ==
  /\ Runs(c, ROOT)
  /\ mgr[c].step = "await"
  /\ LET d == first_cpu(mgr[c].todo)
         up == Runs(d, ROOT)
     IN /\ up \/ Runs(d, PARKING)
        /\ mgr' = [mgr EXCEPT ![c].step = "online", ![c].todo = @ \ {d}]
        /\ offlined' = IF up \/ mgr[c].task = "destroy" THEN offlined \ {d} ELSE offlined
  /\ UNCHANGED <<cpu, cellVars, jailhouse_lock>>

Unlock(c) ==
  /\ Runs(c, ROOT)
  /\ mgr[c].step = "online" /\ mgr[c].todo = {}
  /\ mgr' = [mgr EXCEPT ![c] = Idle]
  /\ jailhouse_lock' = jailhouse_lock \ {c}
  /\ UNCHANGED <<cpu, cellVars, offlined>>

Driver(c) ==
  \/ \E x \in Cell : CmdCellCreate(c, x) \/ \E task \in Command[x] : CmdCell(c, task, x)
  \/ CpuDown(c) \/ CpuDownFails(c) \/ CallCreate(c)
  \/ CpuUp(c) \/ AwaitCpu(c) \/ Unlock(c)

-----------------------------------------------------------------------------
(* The hypercalls: suspending, resuming, exchanging messages. *)

\* The manager goes on in the hypervisor with step s over the CPUs in todo.
Goto(c, s, todo) == mgr' = [mgr EXCEPT ![c].step = s, ![c].todo = todo]

At(c, s) == cpu[c].pc = "hyp" /\ mgr[c].step = s
Done(c, s) == At(c, s) /\ mgr[c].todo = {}

\* cell_resume of the root cell, then the return to the driver, which brings
\* the CPUs of the cell on-line again if the flag says so.
Finish(c, online) ==
  mgr' = [mgr EXCEPT ![c] = [@ EXCEPT !.step = "resume", !.todo = RootCpus \ {c},
                                      !.online = online]]

SuspendSteps == {"suspend_root", "suspend_cell", "timeout_request", "timeout_info"}

NeedsKick(d) == ~cpu[d].cpu_suspended

\* cell_suspend, one CPU: arch_suspend_cpu up to the unlock...
SuspendCpu(c) ==
  /\ \E s \in SuspendSteps : At(c, s)
  /\ mgr[c].todo # {}
  /\ LET d == first_cpu(mgr[c].todo) IN
       IF NeedsKick(d)
         THEN /\ cpu' = [cpu EXCEPT ![d].suspend_cpu = TRUE, ![c].pc = "kick"]
              /\ UNCHANGED mgr
         ELSE /\ cpu' = [cpu EXCEPT ![d].suspend_cpu = TRUE]
              /\ mgr' = [mgr EXCEPT ![c].todo = @ \ {d}]
  /\ UNCHANGED <<cellVars, driverVars>>

\* ... the kick ...
Kick(c) ==
  /\ cpu[c].pc = "kick"
  /\ cpu' = [cpu EXCEPT ![first_cpu(mgr[c].todo)].sgi = TRUE, ![c].pc = "wait"]
  /\ UNCHANGED <<mgr, cellVars, driverVars>>

\* ... and the wait for the target.
WaitSuspended_not(c) == cpu[c].pc = "wait"
WaitSuspended(c) == cpu[c].pc = "wait" /\ cpu[first_cpu(mgr[c].todo)].cpu_suspended

Suspended(c) ==
  /\ WaitSuspended(c)
  /\ cpu' = [cpu EXCEPT ![c].pc = "hyp"]
  /\ mgr' = [mgr EXCEPT ![c].todo = @ \ {first_cpu(@)}]
  /\ UNCHANGED <<cellVars, driverVars>>

\* cell_resume, one CPU.
ResumeCpu(c) ==
  /\ At(c, "resume") /\ mgr[c].todo # {}
  /\ cpu' = [cpu EXCEPT ![first_cpu(mgr[c].todo)].suspend_cpu = FALSE]
  /\ mgr' = [mgr EXCEPT ![c].todo = @ \ {first_cpu(@)}]
  /\ UNCHANGED <<cellVars, driverVars>>

Return(c) ==
  /\ Done(c, "resume")
  /\ cpu' = [cpu EXCEPT ![c].pc = "guest"]
  /\ Goto(c, "online", IF mgr[c].online THEN CpuSet[mgr[c].cell] ELSE {})
  /\ UNCHANGED <<cellVars, driverVars>>

\* cell_exchange_message returns true without a reply of the cell.
NoReplyNeeded(x) == x \in Passive \/ cell_state[x] \in {"shut_down", "failed"}

\* The cell may answer anything while one of its CPUs runs.
Replies(x) == x \notin Passive /\ \E d \in Cpu : Runs(d, x)

\* The next cell in the list of cells.
NextCell(s) == CHOOSE x \in s : TRUE

\* No reply in time: the CPUs of the cell are suspended, and stay so.
TimesOut(c, s) ==
  LET x == IF s = "timeout_request" THEN mgr[c].cell ELSE NextCell(mgr[c].inform) IN
    /\ x \in Timed /\ ~NoReplyNeeded(x)
    /\ Goto(c, s, CpuSet[x])

cell_reconfig_ok(excluded) ==
  \A x \in cells \ {excluded} : cell_state[x] # "running_locked"

HandBack_entry_kept(r) == r
\* arch_cell_destroy: the CPU goes back without an entry.
HandBack(r) == [r EXCEPT !.cpu_on_entry = INVALID]

\* The checks of cell_create, and of cell_management_prologue before the
\* message.  Creation may run out of memory, or a unit refuse the cell, in
\* which case arch_cell_destroy undoes arch_cell_create.
Checked(c) ==
  /\ Done(c, "suspend_root")
  /\ LET task == mgr[c].task IN
       \/ /\ \/ task = "create" /\ cell_reconfig_ok(NONE) /\ Goto(c, "park", CpuSet[mgr[c].cell])
             \/ task = "create" /\ Finish(c, TRUE)
             \/ task = "destroy" /\ cell_reconfig_ok(mgr[c].cell) /\ Goto(c, "request", {})
             \/ task = "destroy" /\ ~cell_reconfig_ok(mgr[c].cell) /\ Finish(c, FALSE)
             \/ task \in {"start", "load"} /\ Goto(c, "request", {})
          /\ UNCHANGED cpu
       \/ /\ task = "create" /\ cell_reconfig_ok(NONE) /\ Finish(c, TRUE)
          /\ cpu' = [d \in Cpu |-> IF d \in CpuSet[mgr[c].cell] THEN HandBack(cpu[d]) ELSE cpu[d]]
  /\ UNCHANGED <<cellVars, driverVars>>

ShutdownRequest_asked_again(c) ==
  /\ At(c, "request")
  /\ LET x == mgr[c].cell IN
       \/ NoReplyNeeded(x) /\ Goto(c, "suspend_cell", CpuSet[x])
       \/ Replies(x) /\ UNCHANGED mgr
       \/ ~Replies(x) /\ TimesOut(c, "timeout_request")
  /\ UNCHANGED <<cpu, cellVars, driverVars>>

\* cell_shutdown_ok, then cell_suspend of the cell.
ShutdownRequest(c) ==
  /\ At(c, "request")
  /\ LET x == mgr[c].cell IN
       \/ (NoReplyNeeded(x) \/ Replies(x)) /\ Goto(c, "suspend_cell", CpuSet[x])
       \/ Replies(x) /\ Finish(c, FALSE)
       \/ TimesOut(c, "timeout_request")
  /\ UNCHANGED <<cpu, cellVars, driverVars>>

\* cell_reconfig_completed, one cell: the answer does not matter.
ReconfigCompleted(c) ==
  /\ At(c, "reconfig") /\ mgr[c].inform # {}
  /\ LET x == NextCell(mgr[c].inform) IN
       \/ /\ NoReplyNeeded(x) \/ Replies(x)
          /\ mgr' = [mgr EXCEPT ![c].inform = @ \ {x}]
       \/ TimesOut(c, "timeout_info")
  /\ UNCHANGED <<cpu, cellVars, driverVars>>

TimedOut(c) ==
  /\ \/ /\ Done(c, "timeout_request")
        /\ cell_state' = [cell_state EXCEPT ![mgr[c].cell] = "failed"]
        /\ Goto(c, "suspend_cell", CpuSet[mgr[c].cell])
     \/ /\ Done(c, "timeout_info")
        /\ cell_state' = [cell_state EXCEPT ![NextCell(mgr[c].inform)] = "failed"]
        /\ mgr' = [mgr EXCEPT ![c].step = "reconfig", ![c].inform = @ \ {NextCell(@)}]
  /\ UNCHANGED <<cpu, cells, loadable, driverVars>>

ReconfigDone(c) ==
  /\ Done(c, "reconfig") /\ mgr[c].inform = {}
  /\ Finish(c, mgr[c].task = "destroy")
  /\ UNCHANGED <<cpu, cellVars, driverVars>>

-----------------------------------------------------------------------------
(* The hypercalls: what they do to the cell. *)

\* config_commit: the CPUs of the root cell and of the cell that comes or
\* goes have to drop their translations; the manager does so at once.
config_commit(c, x) ==
  [d \in Cpu |-> IF d # c /\ (cpu[d].cell = ROOT \/ (x \in Cell /\ d \in CpuSet[x]))
                   THEN [cpu[d] EXCEPT !.flush_vcpu_caches = TRUE] ELSE cpu[d]]

Park(r) == [r EXCEPT !.park = TRUE, !.suspend_cpu = FALSE]

\* arch_park_cpu of the next CPU; its new owner is recorded afterwards.
arch_park_cpu(c) ==
  /\ At(c, "park") /\ mgr[c].todo # {}
  /\ LET d == first_cpu(mgr[c].todo) IN
       IF mgr[c].task = "load"
         THEN /\ cpu' = [cpu EXCEPT ![d] = Park([@ EXCEPT !.failed = FALSE])]
              /\ Goto(c, "park", mgr[c].todo \ {d})
         ELSE /\ cpu' = [cpu EXCEPT ![d] = Park(@)]
              /\ Goto(c, "assign", mgr[c].todo)
  /\ UNCHANGED <<cellVars, driverVars>>

AssignCpu(c) ==
  /\ At(c, "assign")
  /\ LET d == first_cpu(mgr[c].todo) IN
       /\ cpu' = IF mgr[c].task = "create"
                   THEN [cpu EXCEPT ![d].cell = mgr[c].cell]
                   ELSE [cpu EXCEPT ![d].cell = ROOT, ![d].failed = FALSE]
       /\ Goto(c, "park", mgr[c].todo \ {d})
  /\ UNCHANGED <<cellVars, driverVars>>

\* cell_create: the memory moves to the cell and the cell is linked ...
Created(c) ==
  /\ Done(c, "park") /\ mgr[c].task = "create"
  /\ LET x == mgr[c].cell IN
       /\ cpu' = config_commit(c, x)
       /\ cells' = cells \cup {x}
       /\ cell_state' = [cell_state EXCEPT ![x] = "shut_down"]
       /\ mgr' = [mgr EXCEPT ![c].step = "reconfig", ![c].inform = cells']
  /\ UNCHANGED <<loadable, driverVars>>

\* ... or mapping fails, and cell_destroy_internal parks the CPUs again.
CreateFails(c) ==
  /\ Done(c, "park") /\ mgr[c].task = "create"
  /\ mgr' = [mgr EXCEPT ![c] = [@ EXCEPT !.task = "undo", !.todo = CpuSet[mgr[c].cell]]]
  /\ UNCHANGED <<cpu, cellVars, driverVars>>

Unlinked(x) == loadable \ {x}

\* The rest of cell_destroy_internal, with arch_cell_destroy, and of
\* cell_destroy.
Destroyed(c) ==
  /\ Done(c, "park") /\ mgr[c].task \in {"destroy", "undo"}
  /\ LET x == mgr[c].cell
         committed == config_commit(c, x)
     IN /\ cpu' = [d \in Cpu |-> IF d \in CpuSet[x]
                                   THEN HandBack(committed[d]) ELSE committed[d]]
        /\ cells' = cells \ {x}
        /\ loadable' = Unlinked(x)
        /\ IF mgr[c].task = "destroy"
             THEN mgr' = [mgr EXCEPT ![c].step = "reconfig", ![c].inform = cells']
             ELSE mgr' = [mgr EXCEPT ![c] = [@ EXCEPT !.step = "resume", !.task = "create",
                                               !.todo = RootCpus \ {c}, !.online = TRUE]]
  /\ UNCHANGED <<cell_state, driverVars>>

\* cell_set_loadable after the CPUs are parked; mapping the memory into the
\* root cell may fail.
SetLoadable(c) ==
  /\ Done(c, "park") /\ mgr[c].task = "load"
  /\ LET x == mgr[c].cell IN
       IF x \in loadable
         THEN UNCHANGED <<cpu, loadable, cell_state>>
         ELSE /\ loadable' = loadable \cup {x}
              /\ cell_state' = [cell_state EXCEPT ![x] = "shut_down"]
              /\ cpu' \in {cpu, config_commit(c, NONE)}
  /\ Finish(c, FALSE)
  /\ UNCHANGED <<cells, driverVars>>

Entry_but_first(x, d) == IF d = first_cpu(CpuSet[x]) THEN INVALID ELSE x

\* arch_cell_reset: only the first CPU of the cell starts.
Entry(x, d) == IF d = first_cpu(CpuSet[x]) THEN x ELSE INVALID

\* cell_start once the cell is suspended: the loadable memory leaves the root
\* cell, the communication region is cleared, the entries are set.
CellStart(c) ==
  /\ Done(c, "suspend_cell") /\ mgr[c].task = "start"
  /\ LET x == mgr[c].cell
         unmapped == IF x \in loadable THEN config_commit(c, NONE) ELSE cpu
     IN /\ cpu' = [d \in Cpu |-> IF d \in CpuSet[x]
                                   THEN [unmapped[d] EXCEPT !.cpu_on_entry = Entry(x, d)]
                                   ELSE unmapped[d]]
        /\ loadable' = loadable \ {x}
        /\ cell_state' = [cell_state EXCEPT ![x] = "running"]
        /\ Goto(c, "reset", CpuSet[x])
  /\ UNCHANGED <<cells, driverVars>>

\* Unmapping fails: only the root cell is resumed.
CellStartFails(c) ==
  /\ Done(c, "suspend_cell") /\ mgr[c].task = "start"
  /\ mgr[c].cell \in loadable
  /\ Finish(c, FALSE)
  /\ UNCHANGED <<cpu, cellVars, driverVars>>

\* arch_reset_cpu of the next CPU; the root cell is resumed after the last.
arch_reset_cpu(c) ==
  /\ At(c, "reset")
  /\ LET d == first_cpu(mgr[c].todo) IN
       /\ cpu' = [cpu EXCEPT ![d] = [@ EXCEPT !.failed = FALSE, !.reset = TRUE,
                                              !.suspend_cpu = FALSE]]
       /\ IF mgr[c].todo = {d} THEN Finish(c, FALSE) ELSE Goto(c, "reset", mgr[c].todo \ {d})
  /\ UNCHANGED <<cellVars, driverVars>>

\* cell_set_loadable and cell_destroy go on to park the suspended CPUs.
ParkCell(c) ==
  /\ Done(c, "suspend_cell") /\ mgr[c].task \in {"load", "destroy"}
  /\ Goto(c, "park", CpuSet[mgr[c].cell])
  /\ UNCHANGED <<cpu, cellVars, driverVars>>

Manage(c) ==
  \/ SuspendCpu(c) \/ Kick(c) \/ Suspended(c) \/ ResumeCpu(c) \/ Return(c)
  \/ Checked(c) \/ ShutdownRequest(c) \/ ReconfigCompleted(c) \/ TimedOut(c) \/ ReconfigDone(c)
  \/ arch_park_cpu(c) \/ AssignCpu(c) \/ Created(c) \/ CreateFails(c) \/ Destroyed(c)
  \/ SetLoadable(c) \/ CellStart(c) \/ CellStartFails(c) \/ arch_reset_cpu(c)
  \/ ParkCell(c)

Guest(c) ==
  \/ \E d \in Cpu : GuestCpuOn(c, d)
  \/ GuestCpuOff(c)
  \/ panic_park(c)

Next ==
  \/ \E c \in Cpu : HandleEvent(c) \/ KickOn(c) \/ Guest(c) \/ Driver(c) \/ Manage(c)
  \/ \E x \in Cell : SetState(x)

\* The manager waits for a cell that has no timeout.
WaitsForReply(c) ==
  LET Waits(x) == x \notin Timed /\ ~NoReplyNeeded(x) IN
    \/ At(c, "request") /\ Waits(mgr[c].cell)
    \/ At(c, "reconfig") /\ mgr[c].inform # {} /\ Waits(NextCell(mgr[c].inform))

\* What a CPU does without waiting for the user, a cell or another CPU.
Proceed(c) ==
  \/ HandleEvent(c) \/ KickOn(c)
  \/ Manage(c) /\ ~WaitsForReply(c)
  \/ CpuDown(c) \/ CallCreate(c) \/ CpuUp(c) \/ AwaitCpu(c) \/ Unlock(c)

\* A CPU in the hypervisor keeps running, an SGI is taken, and the kernel of
\* the root cell goes on with a command it has begun.  Nothing is assumed of
\* the cells.
Fairness == \A c \in Cpu : WF_vars(Proceed(c))

Spec == Init /\ [][Next]_vars
FairSpec == Spec /\ Fairness

-----------------------------------------------------------------------------
\* struct per_cpu, and where the CPU is.
PerCpu ==
  [suspend_cpu : BOOLEAN, cpu_suspended : BOOLEAN, park : BOOLEAN, reset : BOOLEAN,
   wait_for_poweron : BOOLEAN, cpu_on_entry : Cell \cup {ROOT, INVALID},
   flush_vcpu_caches : BOOLEAN, failed : BOOLEAN, cell : Cell \cup {ROOT}, sgi : BOOLEAN,
   pc : {"guest", "spin", "relock", "off", "boot", "cpu_on", "hyp", "kick", "wait"},
   mm : Cell \cup {ROOT, PARKING}]

\* The types of the variables; only an existing cell is loadable.
TypeOK ==
  /\ cpu \in [Cpu -> PerCpu]
  /\ cells \subseteq Cell /\ loadable \subseteq cells
  /\ cell_state \in [Cell -> CellStates]
  /\ offlined \subseteq Cpu
  /\ jailhouse_lock \subseteq Cpu

BeingSuspended(d) == \E c \in Cpu : cpu[c].pc \in {"kick", "wait"} /\ first_cpu(mgr[c].todo) = d

\* Once arch_suspend_cpu has returned, and until the CPU is resumed, the CPU
\* is in the busy-wait of check_events: it executes no cell code, also when
\* arch_suspend_cpu found cpu_suspended still set from the time before.
SuspendedIsStopped ==
  \A d \in Cpu : cpu[d].suspend_cpu /\ ~BeingSuspended(d) =>
    cpu[d].cpu_suspended /\ cpu[d].pc \in {"spin", "relock"}

\* A CPU that executes cell code executes code of the cell that owns it, and
\* that cell exists: no CPU is left behind in a cell that lost it, although
\* arch_park_cpu does not wait for the CPU to leave.
RunsOwnCell ==
  \A c \in Cpu : cpu[c].pc = "guest" /\ cpu[c].mm # PARKING =>
    cpu[c].mm = cpu[c].cell /\ cpu[c].cell \in cells \cup {ROOT}

\* check_events starts a CPU only at an entry that its current cell has set,
\* never at one left over from a cell the CPU belonged to before.
BootsOwnEntry == \A c \in Cpu : cpu[c].pc = "boot" => cpu[c].cpu_on_entry = cpu[c].cell

\* No CPU executes cell code between a change of its cell's memory map
\* (config_commit) and the flush of its translations.
NoStaleTranslations ==
  \A c \in Cpu, x \in Cell \cup {ROOT} : In(c, x) => ~cpu[c].flush_vcpu_caches

\* While the root cell can write the memory of a cell, no CPU executes in
\* that cell, whatever commands preceded cell_set_loadable.
LoadableIsStopped == \A x \in loadable : \A c \in Cpu : ~In(c, x)

\* check_events never waits for the end of a suspension that it has not
\* acknowledged: the manager would wait for cpu_suspended, and the CPU for the
\* manager.
NoMissedSuspend ==
  \A d \in Cpu : cpu[d].pc = "spin" /\ cpu[d].suspend_cpu => cpu[d].cpu_suspended

\* The handshake of a suspension: a suspended CPU stands still, and a CPU that
\* stands still because of a suspension has said so.
SuspensionHolds == SuspendedIsStopped /\ NoMissedSuspend

\* A CPU executes cell code only of the cell that owns it, from an entry that
\* this cell has set, with the memory map the cell has now, and not while the
\* root cell may write to it; whatever commands come while it reacts to the
\* one before.
ExecutesOwnCell ==
  TypeOK /\ RunsOwnCell /\ BootsOwnEntry /\ NoStaleTranslations /\ LoadableIsStopped

\* A CPU that the driver switches on after destroying its cell does not end
\* up parked with the request lost.
CpusComeBack ==
  \A c \in Cpu : mgr[c].step = "await" /\ mgr[c].task = "destroy" =>
    ~Runs(first_cpu(mgr[c].todo), PARKING)

\* Every management command ends and releases the driver's mutex: no two CPUs
\* wait for each other, and every suspended CPU answers.
CommandsFinish == jailhouse_lock # {} ~> jailhouse_lock = {}

\* The first CPU of a cell that is started executes the cell, unless the cell
\* fails or the next command for it comes first.  The CPU must have served
\* the last park request before it is suspended for the start.
StartedRuns ==
  \A x \in {y \in Cell : "start" \in Command[y]} :
    (\E c \in Cpu : /\ At(c, "reset") /\ mgr[c].cell = x /\ mgr[c].todo = CpuSet[x]
                    /\ ~cpu[first_cpu(CpuSet[x])].park) ~>
      \/ In(first_cpu(CpuSet[x]), x)
      \/ cell_state[x] = "failed"
      \/ \E c \in Cpu : mgr[c].cell = x /\ mgr[c].step = "suspend_root"
=============================================================================
