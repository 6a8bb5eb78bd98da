------------------------- MODULE CellControlProofs -------------------------
(***************************************************************************)
(* Proofs about CellControl, for any number of CPUs and cells: what a      *)
(* manager command relies on while the CPUs it suspends, parks and resets  *)
(* react in their own time.                                                *)
(***************************************************************************)
EXTENDS CellControlSteps, WellFoundedInduction

-----------------------------------------------------------------------------

\* Steps of the manager that leave the other CPUs alone.
LEMMA GotoKeeps ==
  ASSUME IInv, NEW c \in Cpu, cpu[c].pc = "hyp",
         NEW s \in HypSteps, s # "resume", NEW todo \in SUBSET Cpu, Goes(c, s, todo),
         UNCHANGED <<cpu, cells, loadable, jailhouse_lock, offlined>>,
         cell_state' \in [Cell -> CellStates], BusyKept,
         mgr'[c].task \in Tasks, c \notin todo,
         BeginOK(c)' /\ StopOK(c)' /\ ParkOK(c)' /\ ParkedOK(c)' /\ InformOK(c)' /\ OnlineOK(c)'
  PROVE  IInv'
<1>1. jailhouse_lock = {c} /\ Phase(c) /\ mgr[c].step # "idle" /\ mgr[c].step # "await"
  BY Single, Zenon DEF Phase, ManagerCpu, HypSteps, SuspendSteps
<1>2. TypeOK'
  BY DEF IInv, TypeOK
<1>3. Phase(c)'
  BY <1>1, Zenon DEF Phase, ManagerCpu, Goes
<1>4. mgr' \in [Cpu -> Manager] /\ mgr'[c].step # "idle" /\ \A e \in Cpu : e # c => mgr'[e] = mgr[e]
  BY Zenon DEF Goes, HypSteps, SuspendSteps
<1>5. cpu'[c] = [cpu[c] EXCEPT !.pc = cpu'[c].pc]
  BY DEF IInv, TypeOK, PerCpu
<1>6. RootAwakeOK'
  BY <1>1, Zenon DEF RootAwakeOK, Goes
<1> QED BY <1>1, <1>2, <1>3, <1>4, <1>5, <1>6, ManagerMoves

\* After cell_suspend(root): the checks of cell_create and
\* cell_management_prologue, except the one that fails with the CPUs handed
\* back.
LEMMA CheckedKeeps ==
  ASSUME IInv, NEW c \in Cpu, Checked(c), UNCHANGED cpu
  PROVE  IInv'
<1> DEFINE x == mgr[c].cell
<1>1. /\ cpu[c].pc = "hyp" /\ mgr[c].step = "suspend_root" /\ mgr[c].todo = {}
      /\ UNCHANGED <<cells, loadable, jailhouse_lock, offlined, cell_state>>
      /\ cell_state' \in [Cell -> CellStates]
  BY Zenon DEF Checked, Done, At, cellVars, driverVars, IInv, TypeOK
<1>2. Phase(c) /\ jailhouse_lock = {c}
  BY <1>1, Single
<1>3. x \in Cell /\ CpuSet[x] \in SUBSET Cpu /\ c \notin CpuSet[x] /\ mgr[c].task \in Tasks
  BY <1>2, CpuSetAssumption, Zenon DEF Phase, ManagerCpu
<1>4. \A d \in Cpu : d # c /\ cpu[d].cell = ROOT => cpu[d].suspend_cpu /\ Halted(cpu[d])
  BY <1>1, <1>2, Zenon DEF Phase, BeginOK, IInv, EventsOK, Halted
<1>5. mgr[c].task = "create" => x \notin cells /\ InRoot(CpuSet[x])
  BY <1>1, <1>2 DEF Phase, BeginOK
<1>6. mgr[c].task # "create" => x \in cells
  BY <1>1, <1>2 DEF Phase, BeginOK
<1>7. ~Parking(c)
  BY <1>1 DEF Parking
<1>8. BusyKept
  BY <1>2, <1>7, Zenon DEF BusyKept, Building, Razing
<1>9. CASE mgr[c].task = "create" /\ Goto(c, "park", CpuSet[x])
  <2>1. Goes(c, "park", CpuSet[x]) /\ mgr'[c].task = "create"
    BY <1>3, <1>9, GotoEffect DEF HypSteps
  <2>2. BeginOK(c)' /\ StopOK(c)' /\ InformOK(c)' /\ OnlineOK(c)'
    BY <2>1, <1>1, Zenon DEF Goes, BeginOK, StopOK, InformOK, OnlineOK
  <2>5. \A d \in CpuSet[x] : cpu[d].cpu_on_entry \in {ROOT, INVALID}
    BY <1>2, <1>3, <1>5, <1>7, <1>9 DEF IInv, EntriesOK, Razing, InRoot
  <2>3. ParkOK(c)'
    BY <2>1, <2>5, <1>1, <1>3, <1>4, <1>5, <1>9, Zenon DEF Goes, ParkOK, Parking, RootHalted, Owner, InRoot
  <2>4. ParkedOK(c)'
    BY <2>1, <1>1, <1>3, <1>4, <1>5, <1>9, Zenon DEF Goes, ParkedOK, Parking, InRoot, AllSuspended, Rest
  <2> QED BY <1>1, <1>3, <1>8, <2>1, <2>2, <2>3, <2>4, GotoKeeps, Zenon DEF HypSteps, Tasks
<1>10. CASE mgr[c].task = "create" /\ Finish(c, TRUE)
  <2>1. Back(c, CpuSet[x])
    BY <1>5, <1>10, Zenon DEF Back
  <2> QED BY <1>1, <1>7, <1>10, <2>1, FinishKeeps, Zenon
<1>11. CASE mgr[c].task = "destroy" /\ Finish(c, FALSE)
  BY <1>1, <1>7, <1>11, FinishKeeps, Zenon
<1>12. CASE mgr[c].task \in {"start", "load", "destroy"} /\ Goto(c, "request", {})
  <2>1. Goes(c, "request", {}) /\ mgr'[c].task = mgr[c].task
    BY <1>3, <1>12, GotoEffect DEF HypSteps
  <2>2. BeginOK(c)' /\ ParkOK(c)' /\ ParkedOK(c)' /\ InformOK(c)' /\ OnlineOK(c)'
    BY <2>1, <1>1, Zenon DEF Goes, BeginOK, ParkOK, ParkedOK, InformOK, OnlineOK, Parking
  <2>3. StopOK(c)'
    BY <2>1, <1>1, <1>4, <1>6, <1>12, Zenon DEF Goes, StopOK, RootHalted
  <2> QED BY <1>1, <1>3, <1>8, <2>1, <2>2, <2>3, GotoKeeps DEF HypSteps, Tasks
<1> QED BY <1>9, <1>10, <1>11, <1>12, Zenon DEF Checked

\* Asking a cell to shut down, telling the cells about the new configuration,
\* and the steps after the answer or the timeout keep the invariant.
LEMMA InformsKeep ==
  ASSUME IInv, NEW c \in Cpu, 
         \/ ShutdownRequest(c) \/ ParkCell(c) \/ CellStartFails(c)
         \/ ReconfigCompleted(c) \/ TimedOut(c) \/ ReconfigDone(c)
  PROVE  IInv'

\* While a cell is asked to shut down and suspended, the root cell stands
\* still and the cell exists.
<1>StopFacts.
  ASSUME cpu[c].pc = "hyp",
         mgr[c].step \in {"request", "timeout_request", "suspend_cell"}
  PROVE  /\ jailhouse_lock = {c}
         /\ mgr[c].cell \in Cell /\ CpuSet[mgr[c].cell] \in SUBSET Cpu /\ c \notin CpuSet[mgr[c].cell]
         /\ mgr[c].task \in {"start", "load", "destroy"} /\ mgr[c].cell \in cells /\ RootHalted(c)
         /\ ~Parking(c)
  <2> USE <1>StopFacts
  <2>1. jailhouse_lock = {c} /\ Phase(c)
    BY Single
  <2> QED BY <2>1, CpuSetAssumption, Zenon DEF Phase, ManagerCpu, StopOK, Parking

\* The manager goes on to wait for the cell's answer or to suspend the cell.
<1>ToCell.
  ASSUME cpu[c].pc = "hyp",
         mgr[c].step \in {"request", "timeout_request", "suspend_cell"},
         NEW s \in {"timeout_request", "suspend_cell"}, Goto(c, s, CpuSet[mgr[c].cell]),
         UNCHANGED <<cpu, cells, loadable, jailhouse_lock, offlined>>,
         cell_state' \in [Cell -> CellStates]
  PROVE  IInv'
  <2> USE <1>ToCell
  <2>1. /\ jailhouse_lock = {c}
        /\ mgr[c].cell \in Cell /\ CpuSet[mgr[c].cell] \in SUBSET Cpu /\ c \notin CpuSet[mgr[c].cell]
        /\ mgr[c].task \in {"start", "load", "destroy"} /\ mgr[c].cell \in cells /\ RootHalted(c)
        /\ ~Parking(c)
    BY <1>StopFacts, Zenon
  <2>2. s \in HypSteps
    BY Zenon DEF HypSteps, SuspendSteps
  <2>3. Goes(c, s, CpuSet[mgr[c].cell]) /\ mgr'[c].task = mgr[c].task
    BY <2>1, <2>2, GotoEffect, Zenon
  <2>4. BeginOK(c)' /\ ParkOK(c)' /\ ParkedOK(c)' /\ InformOK(c)' /\ OnlineOK(c)'
    BY <2>3, Zenon DEF Goes, BeginOK, ParkOK, ParkedOK, InformOK, OnlineOK, Parking
  <2>5. StopOK(c)'
    BY <2>1, <2>3, Zenon DEF Goes, StopOK, RootHalted, AllSuspended
  <2>6. BusyKept
    BY <2>1, Zenon DEF BusyKept, Building, Razing
  <2> QED BY <2>1, <2>2, <2>3, <2>4, <2>5, <2>6, GotoKeeps, Zenon DEF Tasks

\* cell_shutdown_ok: the cell agrees, refuses, is not asked, or does not reply
\* in time.
<1>ShutdownRequest. CASE ShutdownRequest(c)
  <2> USE <1>ShutdownRequest
  <2>1. /\ cpu[c].pc = "hyp" /\ mgr[c].step = "request"
        /\ UNCHANGED <<cpu, cells, loadable, jailhouse_lock, offlined, cell_state>>
        /\ cell_state' \in [Cell -> CellStates]
    BY Zenon DEF ShutdownRequest, At, cellVars, driverVars, IInv, TypeOK
  <2>2. CASE Goto(c, "suspend_cell", CpuSet[mgr[c].cell]) \/ TimesOut(c, "timeout_request")
    BY <2>1, <2>2, <1>ToCell, Zenon DEF TimesOut
  <2>3. CASE Finish(c, FALSE)
    BY <2>1, <2>3, FinishKeeps, Zenon DEF Parking
  <2> QED BY <2>2, <2>3, Zenon DEF ShutdownRequest

\* cell_set_loadable and cell_destroy begin to park the CPUs only after all of
\* them are suspended, so that ParkOK holds.
<1>ParkCell. CASE ParkCell(c)
  <2> USE <1>ParkCell
  <2> DEFINE x == mgr[c].cell
  <2>1. /\ cpu[c].pc = "hyp" /\ mgr[c].step = "suspend_cell" /\ mgr[c].todo = {}
        /\ mgr[c].task \in {"load", "destroy"} /\ Goto(c, "park", CpuSet[x])
        /\ UNCHANGED <<cpu, cells, loadable, jailhouse_lock, offlined, cell_state>>
        /\ cell_state' \in [Cell -> CellStates]
    BY Zenon DEF ParkCell, Done, At, cellVars, driverVars, IInv, TypeOK
  <2>2. /\ jailhouse_lock = {c} /\ x \in Cell /\ CpuSet[x] \in SUBSET Cpu /\ c \notin CpuSet[x]
        /\ x \in cells /\ RootHalted(c) /\ ~Parking(c)
    BY <2>1, <1>StopFacts, Zenon
  <2>3. Goes(c, "park", CpuSet[x]) /\ mgr'[c].task = mgr[c].task
    BY <2>1, <2>2, GotoEffect, Zenon DEF HypSteps
  <2>4. \A d \in CpuSet[x] : cpu[d].suspend_cpu /\ Halted(cpu[d]) /\ cpu[d].cell = x
    <3>1. \A d \in CpuSet[x] : cpu[d].suspend_cpu
      BY <2>1, Single, Zenon DEF Phase, StopOK, AllSuspended
    <3>2. \A d \in CpuSet[x] : Halted(cpu[d])
      BY <3>1, <2>1, <2>2, Zenon DEF IInv, EventsOK, Halted
    <3>3. \A d \in CpuSet[x] : cpu[d].cell = x
      BY <2>2, Zenon DEF IInv, OwnersOK, Razing
    <3> QED BY <3>1, <3>2, <3>3, Zenon
  <2>5. BeginOK(c)' /\ StopOK(c)' /\ InformOK(c)' /\ OnlineOK(c)'
    BY <2>1, <2>3, Zenon DEF Goes, BeginOK, StopOK, InformOK, OnlineOK
  <2>6. ParkOK(c)'
    BY <2>1, <2>2, <2>3, <2>4, Zenon DEF Goes, ParkOK, Parking, RootHalted, Owner
  <2>7. ParkedOK(c)'
    BY <2>1, <2>3, <2>4, Zenon DEF Goes, ParkedOK, Parking, AllSuspended, AllDropped, Rest
  <2>8. BusyKept
    BY <2>2, Zenon DEF BusyKept, Building, Razing
  <2> QED BY <2>1, <2>2, <2>3, <2>5, <2>6, <2>7, <2>8, GotoKeeps, Zenon DEF Tasks, HypSteps

\* cell_start fails to take the loadable memory away from the root cell: only
\* the root cell is resumed.
<1>CellStartFails. CASE CellStartFails(c)
  <2> USE <1>CellStartFails
  <2>1. /\ cpu[c].pc = "hyp" /\ mgr[c].step = "suspend_cell" /\ Finish(c, FALSE)
        /\ UNCHANGED <<cpu, cells, loadable, jailhouse_lock, offlined, cell_state>>
        /\ cell_state' \in [Cell -> CellStates]
    BY Zenon DEF CellStartFails, Done, At, cellVars, driverVars, IInv, TypeOK
  <2> QED BY <2>1, FinishKeeps, Zenon DEF Parking

\* While cell_reconfig_completed is sent, the next cell to be told exists.
<1>InformFacts.
  ASSUME cpu[c].pc = "hyp", mgr[c].step \in {"reconfig", "timeout_info"}
  PROVE  /\ jailhouse_lock = {c} /\ mgr[c] \in Manager /\ ~Parking(c) /\ BusyKept
         /\ mgr[c].cell \in Cell /\ mgr[c].task \in {"create", "destroy"} /\ mgr[c].inform \subseteq cells
         /\ mgr[c].task = "destroy" => Back(c, CpuSet[mgr[c].cell])
         /\ \A x \in cells : CpuSet[x] \in SUBSET Cpu /\ c \notin CpuSet[x]
  <2> USE <1>InformFacts
  <2>1. jailhouse_lock = {c} /\ Phase(c) /\ mgr[c] \in Manager
    BY Single, Zenon DEF IInv, OneManager
  <2>2. ~Parking(c)
    BY Zenon DEF Parking
  <2>3. \A x \in cells : CpuSet[x] \in SUBSET Cpu /\ c \notin CpuSet[x]
    BY <2>1, <2>2, CpuSetAssumption, CellAssumption, Zenon
       DEF IInv, OwnersOK, Razing, TypeOK, Phase, ManagerCpu
  <2>4. BusyKept
    BY <2>1, <2>2, Zenon DEF BusyKept, Building, Razing
  <2> QED BY <2>1, <2>2, <2>3, <2>4, Zenon DEF Phase, ManagerCpu, InformOK

\* The manager goes on to another cell or waits for one.
<1>Inform.
  ASSUME cpu[c].pc = "hyp", mgr[c].step \in {"reconfig", "timeout_info"},
         NEW s \in {"reconfig", "timeout_info"}, NEW todo \in SUBSET Cpu, Goes(c, s, todo),
         mgr'[c].task = mgr[c].task, mgr'[c].inform \subseteq mgr[c].inform, c \notin todo,
         s = "timeout_info" => mgr'[c].inform # {} /\ todo \subseteq CpuSet[NextCell(mgr'[c].inform)],
         UNCHANGED <<cpu, cells, loadable, jailhouse_lock, offlined>>,
         cell_state' \in [Cell -> CellStates]
  PROVE  IInv'
  <2> USE <1>Inform
  <2>1. /\ jailhouse_lock = {c} /\ mgr[c] \in Manager /\ ~Parking(c) /\ BusyKept
        /\ mgr[c].cell \in Cell /\ mgr[c].task \in {"create", "destroy"} /\ mgr[c].inform \subseteq cells
        /\ mgr[c].task = "destroy" => Back(c, CpuSet[mgr[c].cell])
    BY <1>InformFacts, Zenon
  <2>2. BeginOK(c)' /\ StopOK(c)' /\ ParkOK(c)' /\ ParkedOK(c)' /\ OnlineOK(c)'
    BY Zenon DEF Goes, BeginOK, StopOK, ParkOK, ParkedOK, OnlineOK, Parking
  <2>3. InformOK(c)'
    <3>1. mgr[c].task = "destroy" => Back(c, CpuSet[mgr[c].cell])'
      BY <2>1, Zenon DEF Goes, Back, AllDropped, InRoot
    <3> QED BY <2>1, <3>1, Zenon DEF Goes, InformOK
  <2> QED BY <2>1, <2>2, <2>3, GotoKeeps, Zenon DEF Tasks, HypSteps, SuspendSteps

\* cell_reconfig_completed to one cell, which answers, is not asked, or does
\* not reply in time.
<1>ReconfigCompleted. CASE ReconfigCompleted(c)
  <2> USE <1>ReconfigCompleted
  <2> DEFINE x == NextCell(mgr[c].inform)
  <2>1. /\ cpu[c].pc = "hyp" /\ mgr[c].step = "reconfig" /\ mgr[c].inform # {}
        /\ UNCHANGED <<cpu, cells, loadable, jailhouse_lock, offlined, cell_state>>
        /\ cell_state' \in [Cell -> CellStates]
    BY DEF ReconfigCompleted, At, cellVars, driverVars, IInv, TypeOK
  <2>2. x \in mgr[c].inform
    BY <2>1, Zenon DEF NextCell
  <2>3. /\ jailhouse_lock = {c} /\ mgr[c] \in Manager
        /\ mgr[c].inform \subseteq cells
        /\ \A y \in cells : CpuSet[y] \in SUBSET Cpu /\ c \notin CpuSet[y]
    BY <2>1, <1>InformFacts, Zenon
  <2>4. c \notin mgr[c].todo
    BY <2>1, Single, Zenon DEF Phase, ManagerCpu
  <2>5. CASE mgr' = [mgr EXCEPT ![c].inform = @ \ {x}]
    <3>1. /\ \A e \in Cpu : e # c => mgr'[e] = mgr[e]
          /\ mgr'[c] = [mgr[c] EXCEPT !.inform = @ \ {x}]
      BY <2>5 DEF IInv, OneManager
    <3>2. mgr'[c] \in Manager
      BY <2>3, <3>1 DEF Manager
    <3>3. mgr' \in [Cpu -> Manager]
      BY <2>5, <3>1, <3>2 DEF IInv, OneManager
    <3>4. Goes(c, "reconfig", mgr[c].todo) /\ mgr'[c].task = mgr[c].task
          /\ mgr'[c].inform \subseteq mgr[c].inform
      BY <2>1, <2>3, <3>1, <3>3 DEF Goes, Manager
    <3>5. mgr[c].todo \in SUBSET Cpu
      BY <2>3 DEF Manager
    <3> QED BY <2>1, <2>4, <3>4, <3>5, <1>Inform, Zenon
  <2>6. CASE TimesOut(c, "timeout_info")
    <3>1. Goto(c, "timeout_info", CpuSet[x])
      BY <2>6 DEF TimesOut
    <3>2. CpuSet[x] \in SUBSET Cpu /\ c \notin CpuSet[x]
      BY <2>2, <2>3, Zenon
    <3>3. Goes(c, "timeout_info", CpuSet[x]) /\ mgr'[c].task = mgr[c].task /\ mgr'[c].inform = mgr[c].inform
      BY <3>1, <3>2, GotoEffect, Zenon DEF HypSteps, SuspendSteps
    <3> QED BY <2>1, <3>2, <3>3, <1>Inform, Zenon
  <2> QED BY <2>5, <2>6 DEF ReconfigCompleted

\* After a timeout: the cell has failed, and its CPUs stay suspended.
<1>TimedOut. CASE TimedOut(c)
  <2> USE <1>TimedOut
  <2>1. /\ cpu[c].pc = "hyp" /\ mgr[c].todo = {}
        /\ UNCHANGED <<cpu, cells, loadable, jailhouse_lock, offlined>>
    BY DEF TimedOut, Done, At, driverVars
  <2>2. cell_state' \in [Cell -> CellStates]
    BY DEF TimedOut, IInv, TypeOK, CellStates
  <2>3. CASE mgr[c].step = "timeout_request" /\ Goto(c, "suspend_cell", CpuSet[mgr[c].cell])
    BY <2>1, <2>2, <2>3, <1>ToCell, Zenon
  <2>4. CASE /\ mgr[c].step = "timeout_info"
             /\ mgr' = [mgr EXCEPT ![c].step = "reconfig", ![c].inform = @ \ {NextCell(@)}]
    <3>1. mgr[c] \in Manager /\ mgr \in [Cpu -> Manager]
      BY DEF IInv, OneManager
    <3>2. /\ \A e \in Cpu : e # c => mgr'[e] = mgr[e]
          /\ mgr'[c] = [mgr[c] EXCEPT !.step = "reconfig", !.inform = @ \ {NextCell(@)}]
      BY <2>4, <3>1 DEF Manager
    <3>3. mgr'[c] \in Manager
      BY <3>1, <3>2, Zenon DEF Manager, HypSteps
    <3>4. mgr' \in [Cpu -> Manager]
      BY <2>4, <3>1, <3>2, <3>3
    <3>5. Goes(c, "reconfig", {}) /\ mgr'[c].task = mgr[c].task
          /\ mgr'[c].inform \subseteq mgr[c].inform
      BY <2>1, <3>1, <3>2, <3>4 DEF Goes, Manager
    <3> QED BY <2>1, <2>2, <2>4, <3>5, <1>Inform, Zenon
  <2> QED BY <2>3, <2>4 DEF TimedOut, Done, At

\* Every cell has been told; the hypercall ends.
<1>ReconfigDone. CASE ReconfigDone(c)
  <2> USE <1>ReconfigDone
  <2>1. /\ cpu[c].pc = "hyp" /\ mgr[c].step = "reconfig" /\ Finish(c, mgr[c].task = "destroy")
        /\ UNCHANGED <<cpu, cells, loadable, jailhouse_lock, offlined, cell_state>>
        /\ cell_state' \in [Cell -> CellStates]
    BY Zenon DEF ReconfigDone, Done, At, cellVars, driverVars, IInv, TypeOK
  <2>2. mgr[c].task = "destroy" => Back(c, CpuSet[mgr[c].cell])
    BY <2>1, <1>InformFacts, Zenon
  <2>3. (mgr[c].task = "destroy") \in BOOLEAN
    OBVIOUS
  <2> QED BY <2>1, <2>2, <2>3, FinishKeeps, Zenon DEF Parking

<1> QED BY <1>ShutdownRequest, <1>ParkCell, <1>CellStartFails, <1>ReconfigCompleted, <1>TimedOut, <1>ReconfigDone

\* cell_create fails to map the memory after the CPUs were handed over:
\* cell_destroy_internal begins to park them again.
LEMMA CreateFailsKeeps ==
  ASSUME IInv, NEW c \in Cpu, CreateFails(c)
  PROVE  IInv'
<1> DEFINE x == mgr[c].cell
<1>1. /\ cpu[c].pc = "hyp" /\ mgr[c].step = "park" /\ mgr[c].todo = {} /\ mgr[c].task = "create"
      /\ mgr' = [mgr EXCEPT ![c] = [@ EXCEPT !.task = "undo", !.todo = CpuSet[x]]]
      /\ UNCHANGED <<cpu, cells, loadable, jailhouse_lock, offlined, cell_state>>
      /\ cell_state' \in [Cell -> CellStates]
  BY DEF CreateFails, Done, At, cellVars, driverVars, IInv, TypeOK
<1>2. jailhouse_lock = {c} /\ Phase(c) /\ mgr[c] \in Manager /\ mgr \in [Cpu -> Manager]
  BY <1>1, Single DEF IInv, OneManager
<1>3. x \in Cell /\ CpuSet[x] \in SUBSET Cpu /\ c \notin CpuSet[x]
  BY <1>2, CpuSetAssumption, Zenon DEF Phase, ManagerCpu
<1>4. /\ \A e \in Cpu : e # c => mgr'[e] = mgr[e]
      /\ mgr'[c] = [mgr[c] EXCEPT !.task = "undo", !.todo = CpuSet[x]]
  BY <1>1, <1>2
<1>5. mgr'[c] \in Manager
  BY <1>2, <1>3, <1>4, Zenon DEF Manager, Tasks
<1>6. mgr' \in [Cpu -> Manager]
  BY <1>1, <1>2, <1>4, <1>5
<1>7. Goes(c, "park", CpuSet[x]) /\ mgr'[c].task = "undo"
  BY <1>1, <1>2, <1>4, <1>6 DEF Goes, Manager
<1>8. BeginOK(c)' /\ StopOK(c)' /\ InformOK(c)' /\ OnlineOK(c)' /\ ParkedOK(c)'
  BY <1>1, <1>7 DEF Goes, BeginOK, StopOK, InformOK, OnlineOK, ParkedOK
<1>9. ParkOK(c)'
  BY <1>1, <1>2, <1>3, <1>7 DEF Phase, Goes, ParkOK, Parking, RootHalted, Owner
<1>10. BusyKept
  BY <1>1, <1>2, <1>7 DEF BusyKept, Building, Razing, Goes, Parking
<1> QED BY <1>1, <1>3, <1>7, <1>8, <1>9, <1>10, GotoKeeps, Zenon DEF Tasks, HypSteps

\* The hypercall returns to the driver, which switches CPUs on again if they
\* are back in the root cell.
LEMMA ReturnKeeps ==
  ASSUME IInv, NEW c \in Cpu, Return(c)
  PROVE  IInv'
<1> DEFINE x == mgr[c].cell
           todo == IF mgr[c].online THEN CpuSet[x] ELSE {}
<1>1. /\ cpu[c].pc = "hyp" /\ mgr[c].step = "resume" /\ mgr[c].todo = {}
      /\ cpu' = [cpu EXCEPT ![c].pc = "guest"] /\ Goto(c, "online", todo)
      /\ UNCHANGED <<cells, loadable, jailhouse_lock, offlined, cell_state>>
  BY DEF Return, Done, At, cellVars, driverVars
<1>2. jailhouse_lock = {c} /\ Phase(c) /\ cpu[c] \in PerCpu /\ cpu \in [Cpu -> PerCpu]
  BY <1>1, Single DEF IInv, TypeOK
<1>3. x \in Cell /\ todo \in SUBSET CpuSet[x] /\ todo \in SUBSET Cpu /\ c \notin todo
  BY <1>2, CpuSetAssumption, Zenon DEF Phase, ManagerCpu
<1>4. /\ \A e \in Cpu : e # c => cpu'[e] = cpu[e]
      /\ cpu'[c] = [cpu[c] EXCEPT !.pc = "guest"]
  BY <1>1, <1>2
<1>5. cpu'[c] \in PerCpu
  BY <1>2, <1>4, UpdateTypes, Zenon DEF PcSet
<1>6. TypeOK'
  <2>1. cpu' \in [Cpu -> PerCpu]
    BY <1>1, <1>2, <1>4, <1>5
  <2> QED BY <1>1, <2>1 DEF IInv, TypeOK
<1>7. Goes(c, "online", todo) /\ mgr'[c].task = mgr[c].task
  BY <1>1, <1>3, GotoEffect DEF DriverSteps
<1>8. /\ cpu'[c].pc = "guest" /\ cpu'[c].cell = cpu[c].cell /\ cpu'[c].mm = cpu[c].mm
      /\ cpu'[c].suspend_cpu = cpu[c].suspend_cpu /\ cpu'[c].sgi = cpu[c].sgi
  BY <1>2, <1>4 DEF PerCpu
<1>9. ManagerCpu(c)'
  BY <1>2, <1>3, <1>7, <1>8, Zenon DEF Phase, ManagerCpu, Goes, DriverSteps
<1>10. BeginOK(c)' /\ StopOK(c)' /\ ParkOK(c)' /\ ParkedOK(c)' /\ InformOK(c)'
  BY <1>7, Zenon DEF Goes, BeginOK, StopOK, ParkOK, ParkedOK, InformOK, Parking
<1>11. todo # {} => Back(c, mgr[c].todo)'
  BY <1>1, <1>2, <1>3, <1>4, <1>7 DEF Phase, OnlineOK, Goes, Back, AllDropped, InRoot
<1>12. OnlineOK(c)'
  BY <1>3, <1>7, <1>8, <1>11, Zenon DEF Goes, OnlineOK
<1>13. BusyKept
  BY <1>1, <1>2 DEF BusyKept, Building, Razing, Parking
<1>14. Phase(c)'
  BY <1>9, <1>10, <1>12 DEF Phase
<1>15. mgr' \in [Cpu -> Manager] /\ mgr'[c].step # "idle" /\ \A e \in Cpu : e # c => mgr'[e] = mgr[e]
  BY <1>7 DEF Goes
<1>16. RootAwakeOK'
  BY <1>1, <1>2, <1>4, <1>8 DEF IInv, RootAwakeOK
<1> QED BY <1>1, <1>2, <1>4, <1>6, <1>8, <1>13, <1>14, <1>15, <1>16, ManagerMoves

-----------------------------------------------------------------------------

\* The beginning of a command and of its hypercall keep the invariant.
LEMMA HypercallsKeep ==
  ASSUME IInv, ~Mixed, NEW c \in Cpu,
         \/ \E x \in Cell : CmdCellCreate(c, x) \/ \E task \in Command[x] : CmdCell(c, task, x)
         \/ CallCreate(c)
  PROVE  IInv'

\* When a command begins no other one runs, no CPU of the root cell is
\* suspended and none is being woken.
<1>FreeFacts.
  ASSUME LockIsFree(c)
  PROVE  /\ jailhouse_lock = {} /\ mgr[c] = Idle
         /\ cpu[c].pc = "guest" /\ cpu[c].mm = ROOT /\ cpu[c].cell = ROOT
         /\ ~cpu[c].sgi /\ ~cpu[c].suspend_cpu
         /\ \A d \in Cpu : /\ ~Woken(cpu[d]) /\ ~(cpu[d].sgi /\ cpu[d].suspend_cpu)
                           /\ cpu[d].suspend_cpu => InLoop(cpu[d])
                           /\ cpu[d].pc # "cpu_on"
         /\ BusyKept
  <2> USE <1>FreeFacts
  <2>1. /\ jailhouse_lock = {} /\ mgr[c] = Idle /\ HotplugIdle
        /\ cpu[c].pc = "guest" /\ cpu[c].mm = ROOT /\ ~cpu[c].sgi
    BY DEF LockIsFree, Runs, In
  <2>2. \A d \in Cpu : ~(cpu[d].sgi /\ cpu[d].suspend_cpu) /\ (cpu[d].suspend_cpu => InLoop(cpu[d]))
    BY <2>1, Zenon DEF IInv, EventsOK
  <2>3. \A d \in Cpu : ~Woken(cpu[d])
    BY <2>1, Zenon DEF IInv, EventsOK, HotplugIdle, RootCpus, Woken, InLoop
  <2>4. \A d \in Cpu : cpu[d].pc # "cpu_on"
    <3> SUFFICES ASSUME NEW d \in Cpu, cpu[d].pc = "cpu_on"
                 PROVE  FALSE
      OBVIOUS
    <3>1. mgr[d].step = "idle"
      BY <2>1 DEF IInv, OneManager
    <3>2. cpu[d].cell = ROOT
      BY <3>1 DEF IInv, IdleOK
    <3> QED BY <2>1, <3>2 DEF HotplugIdle, RootCpus
  <2>5. cpu[c].cell = ROOT
    BY <2>1 DEF IInv, SoundOK, Sound, Parked, InLoop, ROOT, PARKING
  <2>6. ~cpu[c].suspend_cpu
    BY <2>1, <2>2 DEF InLoop
  <2>7. BusyKept
    BY <2>1 DEF BusyKept, Building, Razing
  <2> QED BY <2>1, <2>2, <2>3, <2>4, <2>5, <2>6, <2>7, Zenon

\* jailhouse_cmd_cell_create begins.
<1>CmdCellCreate.
  ASSUME NEW x \in Cell, CmdCellCreate(c, x)
  PROVE  IInv'
  <2> USE <1>CmdCellCreate
  <2>1. /\ LockIsFree(c) /\ x \notin cells /\ CpuSet[x] \subseteq RootCpus \ {c}
        /\ mgr' = [mgr EXCEPT ![c] = [@ EXCEPT !.step = "offline", !.task = "create",
                                               !.cell = x, !.todo = CpuSet[x]]]
        /\ jailhouse_lock' = jailhouse_lock \cup {c}
        /\ UNCHANGED <<cpu, cells, cell_state, loadable, offlined>>
    BY Zenon DEF CmdCellCreate, cellVars
  <2>2. /\ jailhouse_lock = {} /\ mgr[c] = Idle
        /\ cpu[c].pc = "guest" /\ cpu[c].mm = ROOT /\ cpu[c].cell = ROOT
        /\ ~cpu[c].sgi /\ ~cpu[c].suspend_cpu
        /\ \A d \in Cpu : /\ ~Woken(cpu[d]) /\ ~(cpu[d].sgi /\ cpu[d].suspend_cpu)
                          /\ cpu[d].suspend_cpu => InLoop(cpu[d])
                          /\ cpu[d].pc # "cpu_on"
        /\ BusyKept
    BY <2>1, <1>FreeFacts
  <2>3. mgr \in [Cpu -> Manager] /\ mgr[c] \in Manager /\ CpuSet[x] \in SUBSET Cpu
    BY CpuSetAssumption DEF IInv, OneManager
  <2>4. /\ \A e \in Cpu : e # c => mgr'[e] = mgr[e]
        /\ mgr'[c] = [mgr[c] EXCEPT !.step = "offline", !.task = "create", !.cell = x, !.todo = CpuSet[x]]
    BY <2>1, <2>3
  <2>5. mgr'[c] \in Manager
    BY <2>3, <2>4, Zenon DEF Manager, DriverSteps, Tasks
  <2>6. mgr' \in [Cpu -> Manager]
    BY <2>1, <2>3, <2>4, <2>5
  <2>7. mgr'[c].step = "offline" /\ mgr'[c].task = "create" /\ mgr'[c].cell = x /\ mgr'[c].todo = CpuSet[x]
    BY <2>3, <2>4 DEF Manager
  <2>8. TypeOK'
    BY <2>1 DEF IInv, TypeOK
  <2>9. cpu'[c] = [cpu[c] EXCEPT !.pc = cpu'[c].pc]
    BY <2>1 DEF IInv, TypeOK, PerCpu
  <2>10. ManagerCpu(c)'
    BY <2>1, <2>2, <2>7 DEF ManagerCpu, DriverSteps, Tasks, RootCpus
  <2>11. BeginOK(c)'
    BY <2>1, <2>7 DEF BeginOK, InRoot, RootCpus
  <2>12. StopOK(c)' /\ ParkOK(c)' /\ ParkedOK(c)' /\ InformOK(c)' /\ OnlineOK(c)'
    BY <2>1, <2>2, <2>7 DEF StopOK, ParkOK, ParkedOK, InformOK, OnlineOK, Parking
  <2>13. PhaseOK' /\ jailhouse_lock' = {c}
    BY <2>1, <2>2, <2>10, <2>11, <2>12 DEF PhaseOK, Phase
  <2>14. RootAwakeOK'
    BY <2>1, <2>2 DEF IInv, RootAwakeOK
  <2> QED BY <2>1, <2>2, <2>4, <2>6, <2>7, <2>8, <2>9, <2>13, <2>14, CalmStep

\* Entering the hypervisor for a command: cell_suspend(root) is about to begin
\* with every other CPU of the root cell.
<1>HypercallEffect.
  ASSUME NEW m \in Manager, Hypercall(c, m)
  PROVE  /\ mgr' \in [Cpu -> Manager]
         /\ \A e \in Cpu : e # c => mgr'[e] = mgr[e] /\ cpu'[e] = cpu[e]
         /\ mgr'[c].step = "suspend_root" /\ mgr'[c].todo = RootCpus \ {c}
         /\ mgr'[c].task = m.task /\ mgr'[c].cell = m.cell
         /\ cpu' \in [Cpu -> PerCpu] /\ cpu'[c] = [cpu[c] EXCEPT !.pc = "hyp"] /\ cpu'[c].pc = "hyp"
         /\ cpu'[c].cell = cpu[c].cell /\ cpu'[c].mm = cpu[c].mm
         /\ cpu'[c].suspend_cpu = cpu[c].suspend_cpu /\ cpu'[c].sgi = cpu[c].sgi
  <2> USE <1>HypercallEffect
  <2>1. mgr \in [Cpu -> Manager] /\ cpu \in [Cpu -> PerCpu] /\ cpu[c] \in PerCpu
        /\ RootCpus \ {c} \in SUBSET Cpu
    BY DEF IInv, OneManager, TypeOK, RootCpus
  <2>2. /\ \A e \in Cpu : e # c => mgr'[e] = mgr[e] /\ cpu'[e] = cpu[e]
        /\ mgr'[c] = [m EXCEPT !.step = "suspend_root", !.todo = RootCpus \ {c}]
        /\ cpu'[c] = [cpu[c] EXCEPT !.pc = "hyp"]
    BY <2>1 DEF Hypercall
  <2>3. mgr'[c] \in Manager
    BY <2>1, <2>2, Zenon DEF Manager, HypSteps, SuspendSteps
  <2>4. cpu'[c] \in PerCpu
    BY <2>1, <2>2, UpdateTypes, Zenon DEF PcSet
  <2>5. mgr' \in [Cpu -> Manager] /\ cpu' \in [Cpu -> PerCpu]
    BY <2>1, <2>2, <2>3, <2>4 DEF Hypercall
  <2>6. /\ mgr'[c].step = "suspend_root" /\ mgr'[c].todo = RootCpus \ {c}
        /\ mgr'[c].task = m.task /\ mgr'[c].cell = m.cell
    BY <2>2 DEF Manager
  <2>7. /\ cpu'[c].pc = "hyp" /\ cpu'[c].cell = cpu[c].cell /\ cpu'[c].mm = cpu[c].mm
        /\ cpu'[c].suspend_cpu = cpu[c].suspend_cpu /\ cpu'[c].sgi = cpu[c].sgi
    BY <2>1, <2>2 DEF PerCpu
  <2> QED BY <2>2, <2>5, <2>6, <2>7

\* jailhouse_cmd_cell_start, _load and _destroy enter the hypervisor.
<1>CmdCell.
  ASSUME NEW x \in Cell, NEW task \in Command[x], CmdCell(c, task, x)
  PROVE  IInv'
  <2> USE <1>CmdCell
  <2> DEFINE m == [Idle EXCEPT !.task = task, !.cell = x]
  <2>1. /\ LockIsFree(c) /\ x \in cells /\ Hypercall(c, m)
        /\ jailhouse_lock' = jailhouse_lock \cup {c}
        /\ UNCHANGED <<cells, cell_state, loadable, offlined>>
    BY Zenon DEF CmdCell, cellVars
  <2>2. /\ jailhouse_lock = {} /\ mgr[c] = Idle
        /\ cpu[c].pc = "guest" /\ cpu[c].mm = ROOT /\ cpu[c].cell = ROOT
        /\ ~cpu[c].sgi /\ ~cpu[c].suspend_cpu
        /\ \A d \in Cpu : /\ ~Woken(cpu[d]) /\ ~(cpu[d].sgi /\ cpu[d].suspend_cpu)
                          /\ cpu[d].suspend_cpu => InLoop(cpu[d])
                          /\ cpu[d].pc # "cpu_on"
        /\ BusyKept
    BY <2>1, <1>FreeFacts
  <2>3. task \in {"start", "load", "destroy"}
    BY CommandAssumption
  <2>4. m \in Manager /\ m.task = task /\ m.cell = x
    BY <2>3, Zenon DEF Idle, Manager, Tasks
  <2> HIDE DEF m
  <2>5. /\ mgr' \in [Cpu -> Manager]
        /\ \A e \in Cpu : e # c => mgr'[e] = mgr[e] /\ cpu'[e] = cpu[e]
        /\ mgr'[c].step = "suspend_root" /\ mgr'[c].todo = RootCpus \ {c}
        /\ mgr'[c].task = task /\ mgr'[c].cell = x
        /\ cpu' \in [Cpu -> PerCpu] /\ cpu'[c] = [cpu[c] EXCEPT !.pc = "hyp"] /\ cpu'[c].pc = "hyp"
        /\ cpu'[c].cell = cpu[c].cell /\ cpu'[c].mm = cpu[c].mm
        /\ cpu'[c].suspend_cpu = cpu[c].suspend_cpu /\ cpu'[c].sgi = cpu[c].sgi
    BY <2>1, <2>4, <1>HypercallEffect
  <2>6. TypeOK'
    BY <2>1, <2>5 DEF IInv, TypeOK
  <2>7. c \notin CpuSet[x]
    BY <2>1, <2>2, CellAssumption, Zenon DEF IInv, OwnersOK, Razing
  <2>8. ManagerCpu(c)'
    BY <2>2, <2>3, <2>5, <2>7 DEF ManagerCpu, HypSteps, SuspendSteps, Tasks
  <2>9. BeginOK(c)'
    BY <2>1, <2>3, <2>5 DEF BeginOK, InRoot, RootCpus
  <2>10. StopOK(c)' /\ ParkOK(c)' /\ ParkedOK(c)' /\ InformOK(c)' /\ OnlineOK(c)'
    BY <2>5 DEF StopOK, ParkOK, ParkedOK, InformOK, OnlineOK, Parking
  <2>11. PhaseOK' /\ jailhouse_lock' = {c}
    BY <2>1, <2>2, <2>8, <2>9, <2>10, Zenon DEF PhaseOK, Phase
  <2>12. RootAwakeOK'
    BY <2>2, <2>5, Zenon DEF IInv, RootAwakeOK
  <2> QED BY <2>1, <2>2, <2>5, <2>6, <2>11, <2>12, CalmStep, Zenon

\* jailhouse_cmd_cell_create enters the hypervisor after the last cpu_down.
<1>CallCreate. CASE CallCreate(c)
  <2> USE <1>CallCreate
  <2>1. /\ cpu[c].pc = "guest" /\ mgr[c].step = "offline" /\ Hypercall(c, mgr[c])
        /\ UNCHANGED <<cells, cell_state, loadable, offlined, jailhouse_lock>>
    BY DEF CallCreate, Runs, In, cellVars, driverVars
  <2>2. jailhouse_lock = {c} /\ Phase(c) /\ mgr[c] \in Manager
    BY <2>1, Single DEF IInv, OneManager
  <2>3. /\ mgr' \in [Cpu -> Manager]
        /\ \A e \in Cpu : e # c => mgr'[e] = mgr[e] /\ cpu'[e] = cpu[e]
        /\ mgr'[c].step = "suspend_root" /\ mgr'[c].todo = RootCpus \ {c}
        /\ mgr'[c].task = mgr[c].task /\ mgr'[c].cell = mgr[c].cell
        /\ cpu' \in [Cpu -> PerCpu] /\ cpu'[c] = [cpu[c] EXCEPT !.pc = "hyp"] /\ cpu'[c].pc = "hyp"
        /\ cpu'[c].cell = cpu[c].cell /\ cpu'[c].mm = cpu[c].mm
        /\ cpu'[c].suspend_cpu = cpu[c].suspend_cpu /\ cpu'[c].sgi = cpu[c].sgi
    BY <2>1, <2>2, <1>HypercallEffect
  <2>4. TypeOK'
    BY <2>1, <2>3 DEF IInv, TypeOK
  <2>5. ManagerCpu(c)'
    BY <2>2, <2>3 DEF Phase, ManagerCpu, HypSteps, SuspendSteps
  <2>6. BeginOK(c)'
    <3>1. mgr[c].task = "create" /\ mgr[c].cell \notin cells /\ InRoot(CpuSet[mgr[c].cell])
      BY <2>1, <2>2, Zenon DEF Phase, BeginOK
    <3>2. \A d \in Cpu : cpu'[d].cell = cpu[d].cell
      BY <2>3, Zenon
    <3>3. mgr[c].cell \in Cell /\ CpuSet[mgr[c].cell] \subseteq Cpu
      BY <2>2, CpuSetAssumption, Zenon DEF Phase, ManagerCpu
    <3> QED BY <2>1, <2>3, <3>1, <3>2, <3>3 DEF BeginOK, InRoot, RootCpus
  <2>7. StopOK(c)' /\ ParkOK(c)' /\ ParkedOK(c)' /\ InformOK(c)' /\ OnlineOK(c)'
    BY <2>3 DEF StopOK, ParkOK, ParkedOK, InformOK, OnlineOK, Parking
  <2>8. BusyKept
    BY <2>1, <2>2 DEF BusyKept, Building, Razing, Parking
  <2>9. Phase(c)'
    BY <2>5, <2>6, <2>7 DEF Phase
  <2>10. RootAwakeOK'
    BY <2>1, <2>2, <2>3 DEF RootAwakeOK, HypSteps, SuspendSteps
  <2> QED BY <2>1, <2>2, <2>3, <2>4, <2>8, <2>9, <2>10, ManagerMoves, Zenon

<1> QED BY <1>CmdCellCreate, <1>CmdCell, <1>CallCreate

\* The command ends.
LEMMA UnlockKeeps ==
  ASSUME IInv, NEW c \in Cpu, Unlock(c)
  PROVE  IInv'
<1>1. /\ cpu[c].pc = "guest" /\ mgr[c].step = "online"
      /\ mgr' = [mgr EXCEPT ![c] = Idle] /\ jailhouse_lock' = jailhouse_lock \ {c}
      /\ UNCHANGED <<cpu, cells, cell_state, loadable, offlined>>
  BY DEF Unlock, Runs, In, cellVars
<1>2. jailhouse_lock = {c} /\ Phase(c) /\ mgr \in [Cpu -> Manager]
  BY <1>1, Single DEF IInv, OneManager
<1>3. Idle \in Manager /\ Idle.step = "idle"
  BY DEF Idle, Manager
<1>4. mgr' \in [Cpu -> Manager] /\ mgr'[c] = Idle /\ \A e \in Cpu : e # c => mgr'[e] = mgr[e]
  BY <1>1, <1>2, <1>3
<1>5. cpu[c].mm = ROOT /\ ~cpu[c].sgi /\ ~cpu[c].suspend_cpu
  BY <1>2, Zenon DEF Phase, ManagerCpu
<1>6. \A d \in Cpu : /\ ~Woken(cpu[d]) /\ ~(cpu[d].sgi /\ cpu[d].suspend_cpu)
                     /\ cpu[d].suspend_cpu => InLoop(cpu[d])
  BY <1>1, <1>2 DEF IInv, EventsOK
<1>7. \A e \in Cpu : e # c => cpu[e].pc # "cpu_on"
  BY <1>2 DEF IInv, IdleOK, OneManager
<1>8. TypeOK' /\ jailhouse_lock' = {}
  BY <1>1, <1>2 DEF IInv, TypeOK
<1>9. PhaseOK'
  BY <1>8 DEF PhaseOK
<1>10. cpu'[c] = [cpu[c] EXCEPT !.pc = cpu'[c].pc]
  BY <1>1 DEF IInv, TypeOK, PerCpu
<1>11. BusyKept
  BY <1>1, <1>2 DEF BusyKept, Building, Razing, Parking
<1>12. RootAwakeOK'
  BY <1>1, <1>2 DEF IInv, RootAwakeOK, HypSteps, SuspendSteps
<1> QED BY <1>1, <1>2, <1>3, <1>4, <1>5, <1>6, <1>7, <1>8, <1>9, <1>10, <1>11, <1>12, CalmStep

\* Every cell has one CPU, as in each Erika configuration (configs/arm64): no
\* CPU of a cell switches on another one, so only the root cell's CPUs are
\* ever woken by a CPU_ON.
SingleCpuCells == \A x \in Cell : \A c, d \in CpuSet[x] : c = d

\* psci_emulate_cpu_on on a CPU of the root cell.
OnRecord(r) == [r EXCEPT !.cpu_on_entry = ROOT, !.reset = TRUE]

\* Switching CPUs off and on, by the driver and by a guest, keeps the
\* invariant.
LEMMA HotplugKeeps ==
  ASSUME IInv, CpusOrdered, ~Mixed, SingleCpuCells, NEW c \in Cpu,
         \/ CpuDown(c) \/ CpuDownFails(c) \/ CpuUp(c) \/ AwaitCpu(c)
         \/ \E d \in Cpu : GuestCpuOn(c, d)
  PROVE  IInv'

\* The driver runs a command on a CPU of the root cell that nobody suspends.
<1>DriverFacts.
  ASSUME mgr[c].step \in DriverSteps, cpu[c].pc # "cpu_on"
  PROVE  /\ jailhouse_lock = {c} /\ mgr[c] \in Manager /\ mgr \in [Cpu -> Manager]
         /\ cpu[c].pc = "guest" /\ Phase(c) /\ BusyKept
         /\ mgr[c].cell \in Cell /\ mgr[c].task \in Tasks /\ CpuSet[mgr[c].cell] \in SUBSET Cpu
         /\ c \notin CpuSet[mgr[c].cell] /\ c \notin mgr[c].todo
  <2> USE <1>DriverFacts
  <2>1. jailhouse_lock = {c} /\ Phase(c) /\ mgr[c] \in Manager /\ mgr \in [Cpu -> Manager]
    BY Single DEF IInv, OneManager, DriverSteps
  <2>2. cpu[c].pc = "guest"
    BY <2>1, Zenon DEF Phase, ManagerCpu, DriverSteps, HypSteps, SuspendSteps
  <2>3. BusyKept
    BY <2>1 DEF BusyKept, Building, Razing, Parking, DriverSteps
  <2> QED BY <2>1, <2>2, <2>3, CpuSetAssumption, Zenon DEF Phase, ManagerCpu

\* A step of the driver that only changes the manager's record.
<1>Driver.
  ASSUME mgr[c].step \in DriverSteps, cpu[c].pc # "cpu_on",
         NEW todo \in SUBSET CpuSet[mgr[c].cell], Goes(c, "online", todo),
         mgr'[c].task = mgr[c].task,
         UNCHANGED <<cpu, cells, cell_state, loadable, jailhouse_lock>>, offlined' \subseteq Cpu,
         mgr[c].step = "await" => ~Woken(cpu[Target(c)]),
         todo # {} => Back(c, mgr[c].todo)'
  PROVE  IInv'
  <2> USE <1>Driver
  <2>1. /\ jailhouse_lock = {c} /\ cpu[c].pc = "guest" /\ Phase(c) /\ BusyKept
        /\ c \notin CpuSet[mgr[c].cell]
    BY <1>DriverFacts, Zenon
  <2>2. TypeOK'
    BY Zenon DEF IInv, TypeOK
  <2>3. ManagerCpu(c)'
    BY <2>1, Zenon DEF Phase, ManagerCpu, Goes, DriverSteps
  <2>4. BeginOK(c)' /\ StopOK(c)' /\ ParkOK(c)' /\ ParkedOK(c)' /\ InformOK(c)'
    BY Zenon DEF Goes, BeginOK, StopOK, ParkOK, ParkedOK, InformOK, Parking
  <2>5. OnlineOK(c)'
    BY <2>1, Zenon DEF Goes, OnlineOK
  <2>6. mgr' \in [Cpu -> Manager] /\ mgr'[c].step # "idle" /\ \A e \in Cpu : e # c => mgr'[e] = mgr[e]
    BY Zenon DEF Goes
  <2>7. cpu'[c] = [cpu[c] EXCEPT !.pc = cpu'[c].pc]
    BY DEF IInv, TypeOK, PerCpu
  <2>8. Phase(c)'
    BY <2>3, <2>4, <2>5, Zenon DEF Phase
  <2>9. RootAwakeOK'
    BY <2>1, Zenon DEF IInv, RootAwakeOK, DriverSteps, HypSteps, SuspendSteps
  <2> QED BY <2>1, <2>2, <2>6, <2>7, <2>8, <2>9, ManagerMoves

\* cpu_down fails: the driver switches the CPUs on again.
<1>CpuDownFails. CASE CpuDownFails(c)
  <2> USE <1>CpuDownFails
  <2> DEFINE todo == CpuSet[mgr[c].cell]
  <2>1. /\ cpu[c].pc # "cpu_on" /\ mgr[c].step = "offline"
        /\ Goto(c, "online", todo)
        /\ UNCHANGED <<cpu, cells, cell_state, loadable, offlined, jailhouse_lock>>
    BY DEF CpuDownFails, Goto, Runs, In, cellVars, driverVars
  <2>2. mgr[c].step \in DriverSteps
    BY <2>1 DEF DriverSteps
  <2>3. Phase(c) /\ todo \in SUBSET Cpu
    BY <2>1, <2>2, <1>DriverFacts, Zenon
  <2>4. Goes(c, "online", todo) /\ mgr'[c].task = mgr[c].task
    BY <2>1, <2>3, GotoEffect, Zenon DEF DriverSteps
  <2>5. Back(c, mgr[c].todo)'
    BY <2>1, <2>3, <2>4, Zenon DEF Phase, BeginOK, Goes, Back, InRoot
  <2>6. offlined' \subseteq Cpu
    BY <2>1, Zenon DEF IInv, TypeOK
  <2> QED BY <2>1, <2>2, <2>4, <2>5, <2>6, <1>Driver

\* The driver is done with one CPU.
<1>NextCpu.
  ASSUME mgr[c].step \in {"online", "await"}, cpu[c].pc # "cpu_on",
         mgr[c].todo # {}, mgr[c].step = "await" => ~Woken(cpu[Target(c)]),
         mgr' = [mgr EXCEPT ![c].step = "online", ![c].todo = @ \ {Target(c)}],
         UNCHANGED <<cpu, cells, cell_state, loadable, jailhouse_lock>>, offlined' \subseteq Cpu
  PROVE  IInv'
  <2> USE <1>NextCpu
  <2> DEFINE todo == mgr[c].todo \ {Target(c)}
  <2>1. mgr[c].step \in DriverSteps
    BY DEF DriverSteps
  <2>2. Phase(c) /\ CpuSet[mgr[c].cell] \in SUBSET Cpu /\ mgr[c] \in Manager
    BY <2>1, <1>DriverFacts
  <2>3. todo \in SUBSET CpuSet[mgr[c].cell] /\ todo \in SUBSET Cpu
    BY <2>2 DEF Phase, OnlineOK
  <2>4. Goto(c, "online", todo)
    BY <2>2 DEF Goto, IInv, OneManager, Manager
  <2>5. Goes(c, "online", todo) /\ mgr'[c].task = mgr[c].task
    BY <2>3, <2>4, GotoEffect, Zenon DEF DriverSteps
  <2>6. Back(c, mgr[c].todo)
    BY <2>2 DEF Phase, OnlineOK
  <2>7. Back(c, mgr[c].todo)'
    BY <2>5, <2>6 DEF Goes, Back, InRoot, AllDropped
  <2> QED BY <2>1, <2>3, <2>5, <2>7, <1>Driver, Zenon

\* The kernel sees the CPU on-line, or gives up.
<1>AwaitCpu. CASE AwaitCpu(c)
  <2> USE <1>AwaitCpu
  <2>1. /\ cpu[c].pc # "cpu_on" /\ mgr[c].step = "await"
        /\ Runs(Target(c), ROOT) \/ Runs(Target(c), PARKING)
        /\ mgr' = [mgr EXCEPT ![c].step = "online", ![c].todo = @ \ {Target(c)}]
        /\ UNCHANGED <<cpu, cells, cell_state, loadable, jailhouse_lock>>
        /\ offlined' \in {offlined, offlined \ {Target(c)}}
    BY DEF AwaitCpu, Runs, In, cellVars, Target
  <2>2. ~Woken(cpu[Target(c)])
    BY <2>1 DEF Runs, In, Woken, InLoop
  <2>3. mgr[c].todo # {}
    BY <2>1, Single DEF Phase, OnlineOK
  <2>4. offlined' \subseteq Cpu
    BY <2>1 DEF IInv, TypeOK
  <2> QED BY <2>1, <2>2, <2>3, <2>4, <1>NextCpu

\* cpu_down of a CPU of the root cell, before the hypercall.
<1>CpuDown. CASE CpuDown(c)
  <2> USE <1>CpuDown
  <2> DEFINE d == first_cpu(mgr[c].todo)
  <2>1. /\ cpu[c].pc = "guest" /\ mgr[c].step = "offline" /\ mgr[c].todo # {}
        /\ \/ Runs(d, ROOT) /\ cpu' = [cpu EXCEPT ![d] = arm_cpu_park(@)]
              /\ offlined' = offlined \cup {d}
           \/ UNCHANGED <<cpu, offlined>>
        /\ mgr' = [mgr EXCEPT ![c].todo = @ \ {d}]
        /\ UNCHANGED <<cells, cell_state, loadable, jailhouse_lock>>
    BY DEF CpuDown, Runs, In, cellVars
  <2>2. /\ jailhouse_lock = {c} /\ mgr[c] \in Manager /\ mgr \in [Cpu -> Manager]
        /\ Phase(c) /\ BusyKept /\ c \notin mgr[c].todo
        /\ CpuSet[mgr[c].cell] \in SUBSET Cpu
    BY <2>1, <1>DriverFacts DEF DriverSteps
  <2>3. d \in mgr[c].todo /\ d \in Cpu /\ d # c /\ cpu \in [Cpu -> PerCpu]
    BY <2>1, <2>2, FirstIn DEF Manager, IInv, TypeOK
  <2>4. /\ \A e \in Cpu : e # c => mgr'[e] = mgr[e]
        /\ mgr'[c] = [mgr[c] EXCEPT !.todo = @ \ {d}]
    BY <2>1, <2>2 DEF Manager
  <2>5. mgr'[c] \in Manager
    BY <2>2, <2>4 DEF Manager
  <2>6. /\ mgr' \in [Cpu -> Manager]
        /\ mgr'[c].step = "offline" /\ mgr'[c].task = mgr[c].task /\ mgr'[c].cell = mgr[c].cell
        /\ mgr'[c].todo = mgr[c].todo \ {d}
    BY <2>1, <2>2, <2>4, <2>5 DEF Manager
  <2>7. \A e \in Cpu : ~Woken(cpu[e]) /\ ~(cpu[e].sgi /\ cpu[e].suspend_cpu)
                       /\ (cpu[e].suspend_cpu => InLoop(cpu[e]))
    BY <2>1, <2>2 DEF IInv, EventsOK
  <2>8. cpu'[d] = cpu[d] \/ EventKeeps(cpu[d], cpu'[d])
    <3>1. CASE Runs(d, ROOT) /\ cpu' = [cpu EXCEPT ![d] = arm_cpu_park(@)]
      <4>1. cpu'[d] = arm_cpu_park(cpu[d]) /\ cpu[d] \in PerCpu /\ Sound(cpu[d])
        BY <2>3, <3>1, Zenon DEF IInv, SoundOK
      <4>2. cpu[d].pc = "guest" /\ cpu[d].mm # PARKING /\ ~cpu[d].sgi /\ TRUE \in BOOLEAN
        BY <3>1 DEF Runs, In, ROOT, PARKING
      <4> QED BY <4>1, <4>2, OffRecord, Zenon
    <3> QED BY <2>1, <3>1
  <2>9. \A e \in Cpu : e # d => cpu'[e] = cpu[e]
    BY <2>1, <2>3
  <2>10. /\ cpu'[d] \in PerCpu /\ Sound(cpu'[d])
         /\ cpu'[d].cell = cpu[d].cell /\ cpu'[d].cpu_on_entry = cpu[d].cpu_on_entry
         /\ cpu'[d].suspend_cpu = cpu[d].suspend_cpu
         /\ cpu[d].pc \notin {"hyp", "kick", "wait", "cpu_on"} => cpu'[d].pc \notin {"hyp", "kick", "wait", "cpu_on"}
         /\ Halted(cpu[d]) => Halted(cpu'[d])
         /\ ~Woken(cpu'[d]) /\ ~(cpu'[d].sgi /\ cpu'[d].suspend_cpu)
         /\ cpu'[d].suspend_cpu => InLoop(cpu'[d])
    BY <2>3, <2>7, <2>8, Zenon DEF EventKeeps, IInv, SoundOK
  <2>11. TypeOK'
    <3>1. cpu' \in [Cpu -> PerCpu]
      BY <2>1, <2>3, <2>10
    <3>2. offlined' \subseteq Cpu
      BY <2>1, <2>3 DEF IInv, TypeOK
    <3> QED BY <2>1, <3>1, <3>2 DEF IInv, TypeOK
  <2>12. SoundOK'
    BY <2>9, <2>10, Zenon DEF IInv, SoundOK
  <2>13. OneManager'
    BY <2>1, <2>2, <2>4, <2>6 DEF IInv, OneManager
  <2>14. IdleOK'
    BY <2>1, <2>2, <2>3, <2>4, <2>6, <2>9, <2>10, SMTT(30) DEF IInv, IdleOK, OneManager
  <2>15. OwnersOK' /\ EntriesOK'
    <3>1. OwnersSame
      BY <2>9, <2>10, Zenon DEF OwnersSame
    <3> QED BY <2>1, <2>2, <3>1, OwnersKept DEF IInv, TypeOK
  <2>16. EventsOK'
    BY <2>7, <2>9, <2>10, Zenon DEF EventsOK
  <2>17. LoadableOK'
    BY <2>1, <2>9, <2>10, CpuSetAssumption DEF IInv, LoadableOK, TypeOK
  <2>18. ManagerCpu(c)'
    BY <2>2, <2>3, <2>6, <2>9, <2>1 DEF Phase, ManagerCpu, DriverSteps
  <2>19. BeginOK(c)'
    BY <2>1, <2>2, <2>6, <2>9, <2>10, SMTT(30) DEF Phase, BeginOK, InRoot
  <2>20. StopOK(c)' /\ ParkOK(c)' /\ ParkedOK(c)' /\ InformOK(c)' /\ OnlineOK(c)'
    BY <2>1, <2>3, <2>6, <2>9 DEF StopOK, ParkOK, ParkedOK, InformOK, OnlineOK, Parking
  <2>21. PhaseOK'
    BY <2>1, <2>2, <2>18, <2>19, <2>20 DEF PhaseOK, Phase
  <2>22. RootAwakeOK'
    BY <2>1, <2>2, <2>9, <2>10, SMTT(30) DEF IInv, RootAwakeOK, HypSteps, SuspendSteps
  <2> QED BY <2>11, <2>12, <2>13, <2>14, <2>15, <2>16, <2>17, <2>21, <2>22 DEF IInv

\* The request leaves the target sound, parked if it was, and asked for.
<1>OnRecordFacts.
  ASSUME NEW r \in PerCpu, Sound(r), r.cell = ROOT
  PROVE  LET s == OnRecord(r) IN
         /\ s \in PerCpu
         /\ Sound(s)
         /\ s.cell = ROOT /\ s.cpu_on_entry = ROOT /\ s.suspend_cpu = r.suspend_cpu
         /\ s.pc = r.pc /\ s.sgi = r.sgi /\ s.mm = r.mm
         /\ Woken(s) <=> Woken(r)
         /\ Halted(s) <=> Halted(r)
         /\ InLoop(s) <=> InLoop(r)
         /\ Dropped(s) <=> Dropped(r)
         /\ Asked(s)
  <2> USE <1>OnRecordFacts
  <2> DEFINE s == OnRecord(r)
  <2>1. s \in PerCpu
    BY Zenon DEF OnRecord, PerCpu
  <2>2. /\ s.cell = ROOT /\ s.cpu_on_entry = ROOT /\ s.suspend_cpu = r.suspend_cpu
        /\ s.pc = r.pc /\ s.sgi = r.sgi /\ s.mm = r.mm /\ s.park = r.park
        /\ s.cpu_suspended = r.cpu_suspended /\ s.flush_vcpu_caches = r.flush_vcpu_caches
        /\ s.reset
    BY DEF OnRecord, PerCpu
  <2> HIDE DEF s
  <2>3. Sound(s)
    <3>1. r.pc = "boot" => r.cpu_on_entry = r.cell
      BY DEF Sound
    <3> QED BY <2>2, Zenon DEF Sound, InLoop, Running, Parked
  <2>4. /\ Woken(s) <=> Woken(r)
        /\ Halted(s) <=> Halted(r)
        /\ InLoop(s) <=> InLoop(r)
        /\ Dropped(s) <=> Dropped(r)
        /\ Asked(s)
    BY <2>2 DEF Woken, Halted, InLoop, Dropped, Asked, Parked
  <2> QED BY <2>1, <2>2, <2>3, <2>4, Zenon DEF s

\* The CPU c asks for d, both of the root cell; the kick is still to come.
<1>AsksRecord.
  ASSUME NEW d \in Cpu, c # d, cpu[c].pc = "guest", cpu[c].mm = ROOT,
         cpu[c].cell = ROOT, cpu[d].cell = ROOT, cpu[d].wait_for_poweron,
         ~cpu[c].sgi, ~cpu[c].suspend_cpu, cells' = cells,
         cpu' = psci_emulate_cpu_on(c, d), BusyKept
  PROVE  /\ cpu' \in [Cpu -> PerCpu]
         /\ \A e \in Cpu : e # c /\ e # d => cpu'[e] = cpu[e]
         /\ cpu'[d] = OnRecord(cpu[d])
         /\ cpu'[c] = [cpu[c] EXCEPT !.pc = "cpu_on"] /\ cpu'[c].pc = "cpu_on"
         /\ cpu'[c].mm = ROOT /\ cpu'[c].cell = ROOT /\ ~cpu'[c].sgi /\ ~cpu'[c].suspend_cpu
         /\ SoundOK' /\ OwnersOK' /\ EntriesOK'
         /\ \A e \in Cpu : /\ cpu'[e].cell = cpu[e].cell
                           /\ cpu'[e].suspend_cpu = cpu[e].suspend_cpu
                           /\ cpu'[e].sgi = cpu[e].sgi
                           /\ e # c => cpu'[e].pc = cpu[e].pc /\ cpu'[e].mm = cpu[e].mm
                           /\ Woken(cpu'[e]) <=> Woken(cpu[e])
                           /\ Halted(cpu'[e]) <=> Halted(cpu[e])
                           /\ Dropped(cpu'[e]) <=> Dropped(cpu[e])
                           /\ InLoop(cpu'[e]) <=> InLoop(cpu[e])
         /\ Asked(cpu'[d])
  <2> USE <1>AsksRecord
  <2>1. cpu \in [Cpu -> PerCpu] /\ cpu[c] \in PerCpu /\ cpu[d] \in PerCpu /\ Sound(cpu[c]) /\ Sound(cpu[d])
    BY Zenon DEF IInv, TypeOK, SoundOK
  <2>2. cpu' = [cpu EXCEPT ![d].cpu_on_entry = ROOT, ![d].reset = TRUE, ![c].pc = "cpu_on"]
    BY DEF psci_emulate_cpu_on
  <2>3. /\ \A e \in Cpu : e # c /\ e # d => cpu'[e] = cpu[e]
        /\ cpu'[d] = OnRecord(cpu[d])
        /\ cpu'[c] = [cpu[c] EXCEPT !.pc = "cpu_on"]
    BY <2>1, <2>2 DEF OnRecord, PerCpu
  <2>4. cpu'[c] \in PerCpu
    BY <2>1, <2>3, UpdateTypes, Zenon DEF PcSet
  <2>5. /\ cpu'[d] \in PerCpu /\ Sound(cpu'[d])
        /\ cpu'[d].cell = ROOT /\ cpu'[d].cpu_on_entry = ROOT /\ cpu'[d].suspend_cpu = cpu[d].suspend_cpu
        /\ cpu'[d].pc = cpu[d].pc /\ cpu'[d].sgi = cpu[d].sgi /\ cpu'[d].mm = cpu[d].mm
        /\ Woken(cpu'[d]) <=> Woken(cpu[d])
        /\ Halted(cpu'[d]) <=> Halted(cpu[d])
        /\ InLoop(cpu'[d]) <=> InLoop(cpu[d])
        /\ Dropped(cpu'[d]) <=> Dropped(cpu[d])
        /\ Asked(cpu'[d])
    BY <2>1, <2>3, <1>OnRecordFacts
  <2>6. cpu' \in [Cpu -> PerCpu]
    BY <2>1, <2>2, <2>3, <2>4, <2>5
  <2>7. /\ cpu'[c].pc = "cpu_on" /\ cpu'[c].mm = ROOT /\ cpu'[c].cell = ROOT
        /\ cpu'[c].suspend_cpu = cpu[c].suspend_cpu /\ cpu'[c].sgi = cpu[c].sgi
        /\ cpu'[c].cpu_on_entry = cpu[c].cpu_on_entry /\ cpu'[c].park = cpu[c].park
        /\ cpu'[c].cpu_suspended = cpu[c].cpu_suspended
        /\ cpu'[c].flush_vcpu_caches = cpu[c].flush_vcpu_caches
    BY <2>1, <2>3 DEF PerCpu
  <2>8. /\ Woken(cpu'[c]) <=> Woken(cpu[c])
        /\ Halted(cpu'[c]) <=> Halted(cpu[c])
        /\ Dropped(cpu'[c]) <=> Dropped(cpu[c])
        /\ InLoop(cpu'[c]) <=> InLoop(cpu[c])
    BY <2>7, Zenon DEF Woken, Halted, Dropped, InLoop, Parked, ROOT, PARKING
  <2>9. Sound(cpu'[c])
    BY <2>1, <2>7, Zenon DEF Sound, InLoop, Running, Parked, ROOT, PARKING
  <2>10. SoundOK'
    BY <2>3, <2>5, <2>9 DEF IInv, SoundOK
  <2>11. OwnersSame
    <3> SUFFICES ASSUME NEW e \in Cpu
                 PROVE  /\ cpu'[e].cell = cpu[e].cell
                        /\ cpu'[e].cpu_on_entry = cpu[e].cpu_on_entry \/ cpu'[e].cpu_on_entry \in {ROOT, INVALID}
      BY Zenon DEF OwnersSame
    <3>1. CASE e = c
      BY <2>7, <3>1, Zenon
    <3>2. CASE e = d
      BY <2>5, <3>2, Zenon
    <3> QED BY <2>3, <3>1, <3>2
  <2>12. OwnersOK' /\ EntriesOK'
    BY <2>11, OwnersKept, Zenon DEF IInv, TypeOK
  <2>13. ASSUME NEW e \in Cpu
         PROVE  /\ cpu'[e].cell = cpu[e].cell
                /\ cpu'[e].suspend_cpu = cpu[e].suspend_cpu
                /\ cpu'[e].sgi = cpu[e].sgi
                /\ e # c => cpu'[e].pc = cpu[e].pc /\ cpu'[e].mm = cpu[e].mm
                /\ Woken(cpu'[e]) <=> Woken(cpu[e])
                /\ Halted(cpu'[e]) <=> Halted(cpu[e])
                /\ Dropped(cpu'[e]) <=> Dropped(cpu[e])
                /\ InLoop(cpu'[e]) <=> InLoop(cpu[e])
    <3>1. CASE e = c
      BY <2>7, <2>8, <3>1, Zenon
    <3>2. CASE e = d
      BY <2>5, <3>2, Zenon
    <3> QED BY <2>3, <3>1, <3>2
  <2>14. ~cpu'[c].sgi /\ ~cpu'[c].suspend_cpu
    BY <2>7, Zenon
  <2> QED BY <2>3, <2>5, <2>6, <2>7, <2>10, <2>12, <2>13, <2>14

\* cpu_up in the driver's commands: the request, or a CPU that needs none.
<1>CpuUp. CASE CpuUp(c)
  <2> USE <1>CpuUp
  <2> DEFINE d == first_cpu(mgr[c].todo)
  <2>1. /\ cpu[c].pc = "guest" /\ cpu[c].mm = ROOT /\ mgr[c].step = "online" /\ mgr[c].todo # {}
        /\ UNCHANGED <<cells, cell_state, loadable, jailhouse_lock>>
    BY DEF CpuUp, Runs, In, cellVars
  <2>2. /\ jailhouse_lock = {c} /\ mgr[c] \in Manager /\ mgr \in [Cpu -> Manager]
        /\ Phase(c) /\ BusyKept /\ c \notin mgr[c].todo
        /\ CpuSet[mgr[c].cell] \in SUBSET Cpu
    BY <2>1, <1>DriverFacts DEF DriverSteps
  <2>3. d \in mgr[c].todo /\ d \in Cpu /\ d # c /\ d = Target(c)
    <3>1. mgr[c].todo \in SUBSET Cpu
      BY <2>2 DEF Manager
    <3>2. d \in mgr[c].todo
      BY <2>1, <3>1, FirstIn
    <3> QED BY <2>2, <3>1, <3>2 DEF Target
  <2>4. CASE /\ mgr' = [mgr EXCEPT ![c].todo = @ \ {d}]
             /\ offlined' \in {offlined, offlined \ {d}}
             /\ UNCHANGED cpu
    <3>1. mgr' = [mgr EXCEPT ![c].step = "online", ![c].todo = @ \ {Target(c)}]
      <4>1. [mgr[c] EXCEPT !.todo = @ \ {d}] = [mgr[c] EXCEPT !.step = "online", !.todo = @ \ {Target(c)}]
        BY <2>1, <2>2, <2>3, Zenon DEF Manager
      <4> QED BY <2>2, <2>4, <4>1, Zenon
    <3>2. offlined' \subseteq Cpu
      BY <2>4 DEF IInv, TypeOK
    <3> QED BY <2>1, <2>4, <3>1, <3>2, <1>NextCpu, Zenon
  <2>5. CASE cpu[d].wait_for_poweron /\ cpu' = psci_emulate_cpu_on(c, d) /\ UNCHANGED <<mgr, offlined>>
    <3>1. Back(c, mgr[c].todo) /\ cpu[d].cell = ROOT
      BY <2>1, <2>2, <2>3, Zenon DEF Phase, OnlineOK, Back, InRoot
    <3>2. cpu[c].cell = ROOT /\ ~cpu[c].sgi /\ ~cpu[c].suspend_cpu
      BY <2>2, Zenon DEF Phase, ManagerCpu
    <3>20. cells' = cells /\ cpu[d].wait_for_poweron /\ cpu' = psci_emulate_cpu_on(c, d)
      BY <2>1, <2>5
    <3>21. cpu[c].pc = "guest" /\ cpu[c].mm = ROOT /\ BusyKept /\ d \in Cpu /\ d # c
      BY <2>1, <2>2, <2>3
    <3> HIDE DEF d
    <3>3. /\ cpu' \in [Cpu -> PerCpu]
          /\ cpu'[c].pc = "cpu_on" /\ cpu'[c].mm = ROOT
          /\ SoundOK' /\ OwnersOK' /\ EntriesOK'
          /\ \A e \in Cpu : /\ cpu'[e].cell = cpu[e].cell
                            /\ cpu'[e].suspend_cpu = cpu[e].suspend_cpu
                            /\ cpu'[e].sgi = cpu[e].sgi
                            /\ e # c => cpu'[e].pc = cpu[e].pc
                            /\ Woken(cpu'[e]) <=> Woken(cpu[e])
                            /\ Halted(cpu'[e]) <=> Halted(cpu[e])
                            /\ Dropped(cpu'[e]) <=> Dropped(cpu[e])
                            /\ InLoop(cpu'[e]) <=> InLoop(cpu[e])
          /\ Asked(cpu'[d])
      BY <3>20, <3>21, <3>1, <3>2, <1>AsksRecord, ZenonT(60)
    <3>4. TypeOK' /\ OneManager'
      BY <2>1, <2>5, <3>3, Zenon DEF IInv, TypeOK, OneManager
    <3>5. IdleOK'
      BY <2>1, <2>2, <2>5, <3>3, Zenon DEF IInv, IdleOK, OneManager
    <3>6. EventsOK'
      BY <2>1, <2>2, <2>5, <3>3, Zenon DEF IInv, EventsOK, Target
    <3>7. RootAwakeOK' /\ LoadableOK'
      BY <2>1, <2>5, <3>3, CpuSetAssumption, Zenon DEF IInv, RootAwakeOK, LoadableOK, TypeOK
    <3>8. ManagerCpu(c)'
      BY <2>1, <2>2, <2>5, <3>2, <3>3, Zenon DEF Phase, ManagerCpu
    <3>9. BeginOK(c)' /\ StopOK(c)' /\ ParkOK(c)' /\ ParkedOK(c)' /\ InformOK(c)'
      BY <2>1, <2>5, Zenon DEF BeginOK, StopOK, ParkOK, ParkedOK, InformOK, Parking
    <3>10. Back(c, mgr[c].todo)'
      <4>1. \A e \in mgr[c].todo : e \in Cpu
        BY <2>2, Zenon DEF Manager
      <4>2. InRoot(mgr[c].todo)'
        BY <2>5, <3>1, <3>3, <4>1, Zenon DEF Back, InRoot
      <4>3. mgr[c].task = "destroy" => \A e \in mgr[c].todo : Dropped(cpu'[e])
        BY <2>1, <3>1, <3>3, <4>1, Zenon DEF Back, AllDropped
      <4> QED BY <2>1, <2>5, <3>1, <4>2, <4>3, Zenon DEF Back, AllDropped
    <3>11. OnlineOK(c)'
      BY <2>1, <2>2, <2>3, <2>5, <3>3, <3>10, Zenon DEF Phase, OnlineOK, Target
    <3>12. PhaseOK'
      BY <2>1, <2>2, <3>8, <3>9, <3>11, Zenon DEF PhaseOK, Phase
    <3> QED BY <3>3, <3>4, <3>5, <3>6, <3>7, <3>12, Zenon DEF IInv
  <2> QED BY <2>4, <2>5 DEF CpuUp

\* PSCI CPU_ON by the root cell's kernel; a cell with one CPU has nobody to
\* switch on.
<1>GuestCpuOn.
  ASSUME NEW d \in Cpu, GuestCpuOn(c, d)
  PROVE  IInv'
  <2> USE <1>GuestCpuOn
  <2>1. PICK x \in Cell \cup {ROOT} : Runs(c, x)
    BY DEF GuestCpuOn
  <2>2. /\ mgr[c] = Idle /\ jailhouse_lock = {} /\ c # d /\ cpu[d].cell = cpu[c].cell
        /\ cpu[d].wait_for_poweron /\ cpu' = psci_emulate_cpu_on(c, d)
        /\ mgr' = [mgr EXCEPT ![c].todo = {d}]
        /\ UNCHANGED <<cells, cell_state, loadable, offlined, jailhouse_lock>>
    BY DEF GuestCpuOn, cellVars, driverVars
  <2>3. cpu[c].pc = "guest" /\ cpu[c].mm = x /\ ~cpu[c].sgi /\ cpu[c].cell = x
    BY <2>1, CellAssumption, Zenon DEF Runs, In, IInv, SoundOK, Sound, Parked, InLoop, ROOT, PARKING
  <2>4. x = ROOT
    BY <2>2, <2>3 DEF SingleCpuCells, IInv, OwnersOK
  <2>5. ~cpu[c].suspend_cpu
    BY <2>2, <2>3 DEF IInv, EventsOK, InLoop
  <2>6. BusyKept
    BY <2>2 DEF BusyKept, Building, Razing
  <2>7. /\ cpu' \in [Cpu -> PerCpu]
        /\ cpu'[c].pc = "cpu_on" /\ cpu'[c].mm = ROOT
        /\ SoundOK' /\ OwnersOK' /\ EntriesOK'
        /\ \A e \in Cpu : /\ cpu'[e].cell = cpu[e].cell
                          /\ cpu'[e].suspend_cpu = cpu[e].suspend_cpu
                          /\ cpu'[e].sgi = cpu[e].sgi
                          /\ e # c => cpu'[e].pc = cpu[e].pc /\ cpu'[e].mm = cpu[e].mm
                          /\ Woken(cpu'[e]) <=> Woken(cpu[e])
                          /\ Halted(cpu'[e]) <=> Halted(cpu[e])
                          /\ InLoop(cpu'[e]) <=> InLoop(cpu[e])
    BY <2>2, <2>3, <2>4, <2>5, <2>6, <1>AsksRecord, ZenonT(60)
  <2>8. mgr \in [Cpu -> Manager] /\ Idle \in Manager
    BY Zenon DEF IInv, OneManager, Idle, Manager
  <2>9. /\ \A e \in Cpu : e # c => mgr'[e] = mgr[e]
        /\ mgr'[c] = [Idle EXCEPT !.todo = {d}]
    BY <2>2, <2>8
  <2>10. mgr'[c] \in Manager /\ mgr'[c].step = "idle" /\ mgr'[c].todo = {d}
    <3>1. {d} \in SUBSET Cpu
      OBVIOUS
    <3>2. \A S \in SUBSET Cpu : [Idle EXCEPT !.todo = S] \in Manager
      BY <2>8 DEF Manager
    <3>3. [Idle EXCEPT !.todo = {d}].step = "idle" /\ [Idle EXCEPT !.todo = {d}].todo = {d}
      BY DEF Idle
    <3> QED BY <2>9, <3>1, <3>2, <3>3
  <2>11. mgr' \in [Cpu -> Manager]
    BY <2>2, <2>8, <2>9, <2>10
  <2>12. TypeOK'
    BY <2>2, <2>7 DEF IInv, TypeOK
  <2>13. OneManager'
    BY <2>2, <2>9, <2>10, <2>11 DEF IInv, OneManager
  <2>14. IdleOK'
    BY <2>2, <2>3, <2>4, <2>7, <2>9, <2>10 DEF IInv, IdleOK
  <2>15. EventsOK' /\ RootAwakeOK'
    BY <2>2, <2>7 DEF IInv, EventsOK, RootAwakeOK
  <2>16. LoadableOK'
    BY <2>2, <2>7, CpuSetAssumption DEF IInv, LoadableOK, TypeOK
  <2>17. PhaseOK'
    BY <2>2 DEF PhaseOK
  <2> QED BY <2>7, <2>12, <2>13, <2>14, <2>15, <2>16, <2>17, Zenon DEF IInv

<1> QED BY <1>CpuDown, <1>CpuDownFails, <1>CpuUp, <1>AwaitCpu, <1>GuestCpuOn

-----------------------------------------------------------------------------

\* Steps that change at most what a cell publishes in its communication
\* region.
LEMMA StateKeeps ==
  ASSUME IInv, UNCHANGED <<cpu, mgr, cells, loadable, offlined, jailhouse_lock>>,
         cell_state' \in [Cell -> CellStates]
  PROVE  IInv'
<1>1. TypeOK'
  BY DEF IInv, TypeOK
<1>2. SoundOK' /\ OneManager' /\ IdleOK'
  BY Zenon DEF IInv, SoundOK, OneManager, IdleOK
<1>3. EventsOK' /\ RootAwakeOK' /\ LoadableOK'
  BY Zenon DEF IInv, EventsOK, RootAwakeOK, LoadableOK, Target
<1>4. OwnersOK' /\ EntriesOK'
  BY ZenonT(60) DEF IInv, OwnersOK, EntriesOK, Building, Razing, Parking
<1>5. ASSUME NEW c \in jailhouse_lock PROVE Phase(c)'
  <2>1. Phase(c)
    BY DEF IInv, PhaseOK
  <2>2. ManagerCpu(c)' /\ BeginOK(c)' /\ StopOK(c)'
    BY <2>1, Zenon DEF Phase, ManagerCpu, BeginOK, StopOK, InRoot, AllSuspended, RootHalted, Target
  <2>3. ParkOK(c)'
    BY <2>1, Zenon DEF Phase, ParkOK, Parking, RootHalted
  <2>4. ParkedOK(c)'
    BY <2>1, Zenon DEF Phase, ParkedOK, Parking, AllSuspended, AllDropped, Rest, Target
  <2>5. \A S : Back(c, S) => Back(c, S)'
    BY Zenon DEF Back, InRoot, AllDropped, Target
  <2>6. InformOK(c)' /\ OnlineOK(c)'
    BY <2>1, <2>5, Zenon DEF Phase, InformOK, OnlineOK, InRoot, Target
  <2> QED BY <2>2, <2>3, <2>4, <2>6 DEF Phase
<1> QED BY <1>1, <1>2, <1>3, <1>4, <1>5 DEF IInv, PhaseOK

\* The invariant holds when the root cell runs on all CPUs, after the
\* hypervisor was enabled.
LEMMA InitInv == Init => IInv
<1> SUFFICES ASSUME Init PROVE IInv
  OBVIOUS
<1>1. Idle \in Manager /\ Idle.step = "idle"
  BY DEF Idle, Manager
<1>2. ASSUME NEW d \in Cpu
      PROVE  /\ cpu[d] \in PerCpu /\ Sound(cpu[d])
             /\ ~cpu[d].sgi /\ ~cpu[d].suspend_cpu /\ ~InLoop(cpu[d])
             /\ cpu[d].cell = ROOT /\ cpu[d].cpu_on_entry = ROOT /\ cpu[d].pc = "guest"
  <2>1. cpu[d] = [suspend_cpu |-> FALSE, cpu_suspended |-> FALSE, park |-> FALSE,
                  reset |-> FALSE, wait_for_poweron |-> FALSE, cpu_on_entry |-> ROOT,
                  flush_vcpu_caches |-> FALSE, failed |-> FALSE, cell |-> ROOT,
                  sgi |-> FALSE, pc |-> "guest", mm |-> ROOT]
    BY DEF Init
  <2>2. cpu[d] \in PerCpu
    BY <2>1, SMTT(30) DEF PerCpu
  <2>3. /\ ~cpu[d].sgi /\ ~cpu[d].suspend_cpu /\ ~cpu[d].cpu_suspended /\ ~cpu[d].park
        /\ ~cpu[d].flush_vcpu_caches /\ cpu[d].cell = ROOT /\ cpu[d].cpu_on_entry = ROOT
        /\ cpu[d].pc = "guest" /\ cpu[d].mm = ROOT
    BY <2>1, SMTT(30)
  <2>4. ~InLoop(cpu[d])
    BY <2>3 DEF InLoop
  <2> QED BY <2>2, <2>3, <2>4, Zenon DEF Sound
<1>3. TypeOK
  BY <1>2, Zenon DEF Init, TypeOK, CellStates
<1>4. SoundOK /\ OneManager /\ IdleOK
  BY <1>1, <1>2, Zenon DEF Init, SoundOK, OneManager, IdleOK
<1>5. EventsOK /\ RootAwakeOK
  BY <1>2 DEF EventsOK, RootAwakeOK, Woken
<1>6. OwnersOK /\ EntriesOK /\ LoadableOK /\ PhaseOK
  BY <1>2, CellAssumption, Zenon DEF Init, OwnersOK, EntriesOK, LoadableOK, PhaseOK
<1> QED BY <1>3, <1>4, <1>5, <1>6 DEF IInv

\* CPU numbers are natural numbers, so every list of CPUs has a first one.
LEMMA CpusAreOrdered == CpusOrdered
<1> SUFFICES ASSUME NEW S \in SUBSET Cpu, S # {}
             PROVE  first_cpu(S) \in S
  BY DEF CpusOrdered
<1>1. PICK c \in S : \A d \in S : ~(<<d, c>> \in OpToRel(<, Nat))
  BY CpuAssumption, NatLessThanWellFounded, WFMin, Zenon
<1>2. \A d \in S : ~(d < c)
  BY <1>1, CpuAssumption, Zenon DEF OpToRel
<1>3. \A d \in S : c <= d
  BY <1>2, CpuAssumption
<1> QED BY <1>3, Zenon DEF first_cpu

\* Every step of a hypercall keeps the invariant.
LEMMA ManageKeeps ==
  ASSUME IInv, NEW c \in Cpu, Manage(c)
  PROVE  IInv'
<1>1. CASE SuspendCpu(c) \/ Kick(c) \/ Suspended(c)
  BY <1>1, SuspendKeeps, CpusAreOrdered
<1>2. CASE ResumeCpu(c) \/ Return(c) \/ CreateFails(c)
  BY <1>2, ResumeKeeps, ReturnKeeps, CreateFailsKeeps, CpusAreOrdered
<1>3. CASE arch_park_cpu(c) \/ AssignCpu(c) \/ arch_reset_cpu(c)
  BY <1>3, HandOverKeeps, ResetKeeps, CpusAreOrdered
<1>4. CASE Checked(c)
  BY <1>4, CheckedKeeps, CommitKeeps
<1>5. CASE Created(c) \/ Destroyed(c) \/ SetLoadable(c) \/ CellStart(c)
  BY <1>5, CommitKeeps
<1>6. CASE \/ ShutdownRequest(c) \/ ParkCell(c) \/ CellStartFails(c)
           \/ ReconfigCompleted(c) \/ TimedOut(c) \/ ReconfigDone(c)
  BY <1>6, InformsKeep
<1> QED BY <1>1, <1>2, <1>3, <1>4, <1>5, <1>6 DEF Manage

\* Every step of the driver's commands keeps the invariant.
LEMMA CommandKeeps ==
  ASSUME IInv, ~Mixed, SingleCpuCells, NEW c \in Cpu, Driver(c)
  PROVE  IInv'
<1>1. CASE \/ \E x \in Cell : CmdCellCreate(c, x) \/ \E task \in Command[x] : CmdCell(c, task, x)
           \/ CallCreate(c)
  BY <1>1, HypercallsKeep
<1>2. CASE CpuDown(c) \/ CpuDownFails(c) \/ CpuUp(c) \/ AwaitCpu(c)
  BY <1>2, HotplugKeeps, CpusAreOrdered
<1>3. CASE Unlock(c)
  BY <1>3, UnlockKeeps
<1> QED BY <1>1, <1>2, <1>3 DEF Driver

\* Every PSCI call and every crash of a guest keeps the invariant.
LEMMA GuestKeeps ==
  ASSUME IInv, ~Mixed, SingleCpuCells, NEW c \in Cpu, Guest(c)
  PROVE  IInv'
BY HotplugKeeps, OffKeeps, CpusAreOrdered DEF Guest

\* Every step keeps the invariant.
LEMMA NextKeeps ==
  ASSUME IInv, ~Mixed, SingleCpuCells, [Next]_vars
  PROVE  IInv'
<1>1. ASSUME NEW c \in Cpu, HandleEvent(c) PROVE IInv'
  BY <1>1, EventsKeep, CpusAreOrdered
<1>2. ASSUME NEW c \in Cpu, KickOn(c) PROVE IInv'
  BY <1>2, SuspendKeeps, CpusAreOrdered
<1>3. ASSUME NEW c \in Cpu, Guest(c) PROVE IInv'
  BY <1>3, GuestKeeps
<1>4. ASSUME NEW c \in Cpu, Driver(c) PROVE IInv'
  BY <1>4, CommandKeeps
<1>5. ASSUME NEW c \in Cpu, Manage(c) PROVE IInv'
  BY <1>5, ManageKeeps
<1>6. ASSUME NEW x \in Cell, SetState(x) PROVE IInv'
  <2>1. /\ UNCHANGED <<cpu, mgr, cells, loadable, offlined, jailhouse_lock>>
        /\ \E s \in CellStates : cell_state' = [cell_state EXCEPT ![x] = s]
    BY <1>6, Zenon DEF SetState, driverVars
  <2>2. cell_state' \in [Cell -> CellStates]
    BY <2>1 DEF IInv, TypeOK
  <2> QED BY <2>1, <2>2, StateKeeps
<1>7. CASE UNCHANGED vars
  <2>1. /\ UNCHANGED <<cpu, mgr, cells, loadable, offlined, jailhouse_lock>>
        /\ cell_state' \in [Cell -> CellStates]
    BY <1>7 DEF vars, IInv, TypeOK
  <2> QED BY <2>1, StateKeeps
<1> QED BY <1>1, <1>2, <1>3, <1>4, <1>5, <1>6, <1>7 DEF Next

(***************************************************************************)
(* The invariant holds at all times, for any number of CPUs and of cells   *)
(* with one CPU each (which may even be the same CPU at different times),  *)
(* any commands in any order, and any hotplug of the root cell's kernel    *)
(* that does not overlap a command.                                        *)
(***************************************************************************)
THEOREM Invariance == ASSUME ~Mixed, SingleCpuCells PROVE Spec => []IInv
<1>1. IInv /\ [Next]_vars => IInv'
  BY NextKeeps
<1> QED BY <1>1, InitInv, PTL DEF Spec

-----------------------------------------------------------------------------

(***************************************************************************)
(* arch_suspend_cpu keeps its promise: from its return to the resumption,  *)
(* the CPU is in the busy-wait of check_events and has acknowledged the    *)
(* suspension; and check_events never waits for the end of a suspension it *)
(* has not acknowledged.  The short cut for a CPU whose cpu_suspended is   *)
(* still set, and the SGI of a suspension that comes while the CPU is      *)
(* leaving check_events, are safe.                                         *)
(***************************************************************************)
THEOREM SuspensionSafe == ASSUME ~Mixed, SingleCpuCells PROVE Spec => []SuspensionHolds
<1>1. IInv => SuspensionHolds
  <2> SUFFICES ASSUME IInv PROVE SuspensionHolds
    OBVIOUS
  <2>1. ASSUME NEW d \in Cpu, cpu[d].suspend_cpu, ~BeingSuspended(d)
        PROVE  cpu[d].cpu_suspended /\ cpu[d].pc \in {"spin", "relock"}
    <3>1. \A c \in jailhouse_lock : c \in Cpu /\ ~(cpu[c].pc \in {"kick", "wait"} /\ Target(c) = d)
      BY <2>1, Zenon DEF BeingSuspended, Target, IInv, TypeOK
    <3>2. InLoop(cpu[d])
      BY <2>1, <3>1, Zenon DEF IInv, EventsOK
    <3> QED BY <2>1, <3>2, Zenon DEF IInv, SoundOK, Sound, InLoop
  <2>2. ASSUME NEW d \in Cpu, cpu[d].pc = "spin", cpu[d].suspend_cpu PROVE cpu[d].cpu_suspended
    BY <2>2, Zenon DEF IInv, SoundOK, Sound, InLoop
  <2> QED BY <2>1, <2>2 DEF SuspensionHolds, SuspendedIsStopped, NoMissedSuspend
<1> QED BY <1>1, Invariance, PTL

(***************************************************************************)
(* A CPU executes only code of the cell that owns it and that exists, from *)
(* an entry this cell has set, with the current memory map, and not in a   *)
(* cell the root cell may write to; although arch_park_cpu does not wait   *)
(* for the CPU and the next command may begin before the CPU has reacted.  *)
(***************************************************************************)
THEOREM ExecutionSafe == ASSUME ~Mixed, SingleCpuCells PROVE Spec => []ExecutesOwnCell
<1>1. IInv => ExecutesOwnCell
  <2> SUFFICES ASSUME IInv PROVE ExecutesOwnCell
    OBVIOUS
  <2>1. ASSUME NEW c \in Cpu, cpu[c].pc = "guest", cpu[c].mm # PARKING
        PROVE  /\ Running(cpu[c]) /\ ~Halted(cpu[c]) /\ cpu[c].mm = cpu[c].cell
               /\ cpu[c].cell \in cells \cup {ROOT} /\ ~cpu[c].flush_vcpu_caches
    <3>1. Running(cpu[c]) /\ ~Halted(cpu[c]) /\ ~Parked(cpu[c])
      BY <2>1 DEF Running, Halted, Parked, InLoop
    <3>2. cpu[c].mm = cpu[c].cell /\ ~cpu[c].flush_vcpu_caches
      BY <2>1, <3>1, Zenon DEF IInv, SoundOK, Sound
    <3>3. cpu[c].cell \in Cell \cup {ROOT}
      BY DEF IInv, TypeOK, PerCpu
    <3>4. ASSUME NEW x \in Cell, cpu[c].cell = x PROVE x \in cells
      <4>1. c \in CpuSet[x] /\ (x \in cells \/ Building(x))
        BY <3>4 DEF IInv, OwnersOK
      <4>2. ASSUME NEW m \in jailhouse_lock, mgr[m].cell = x, Parking(m) PROVE FALSE
        BY <3>1, <4>1, <4>2, Zenon DEF IInv, PhaseOK, Phase, ParkOK
      <4> QED BY <4>1, <4>2, Zenon DEF Building
    <3> QED BY <3>1, <3>2, <3>3, <3>4
  <2>2. RunsOwnCell
    BY <2>1, Zenon DEF RunsOwnCell
  <2>3. BootsOwnEntry
    BY DEF IInv, SoundOK, Sound, BootsOwnEntry
  <2>4. PARKING \notin Cell \cup {ROOT}
    BY CellAssumption DEF PARKING, ROOT
  <2>5. NoStaleTranslations
    BY <2>1, <2>4 DEF NoStaleTranslations, In
  <2>6. LoadableIsStopped
    <3> SUFFICES ASSUME NEW x \in loadable, NEW c \in Cpu, In(c, x) PROVE FALSE
      BY DEF LoadableIsStopped
    <3>1. x \in Cell
      BY DEF IInv, TypeOK
    <3>2. cpu[c].cell = x /\ ~Halted(cpu[c])
      BY <2>1, <2>4, <3>1 DEF In
    <3>3. c \in CpuSet[x]
      BY <3>1, <3>2, Zenon DEF IInv, OwnersOK
    <3> QED BY <3>2, <3>3 DEF IInv, LoadableOK
  <2> QED BY <2>2, <2>3, <2>5, <2>6 DEF ExecutesOwnCell, IInv
<1> QED BY <1>1, Invariance, PTL

(***************************************************************************)
(* A CPU that the driver switches on after cell_destroy never ends up in   *)
(* the parking loop with the request lost: the park request of             *)
(* cell_destroy, which takes precedence over the reset request of PSCI     *)
(* CPU_ON, is served before or leaves the latter pending.                  *)
(***************************************************************************)
THEOREM ReturnSafe == ASSUME ~Mixed, SingleCpuCells PROVE Spec => []CpusComeBack
<1>1. IInv => CpusComeBack
  <2> SUFFICES ASSUME IInv, NEW c \in Cpu, mgr[c].step = "await", mgr[c].task = "destroy"
               PROVE  ~Runs(Target(c), PARKING)
    BY DEF CpusComeBack, Target
  <2>1. c \in jailhouse_lock
    BY DEF IInv, OneManager
  <2>2. ComingUp(cpu[Target(c)])
    BY <2>1, Zenon DEF IInv, PhaseOK, Phase, OnlineOK
  <2> QED BY <2>2 DEF ComingUp, Runs, In, InLoop, PARKING, ROOT
<1> QED BY <1>1, Invariance, PTL
=============================================================================
