------------------------- MODULE MemoryCentricProofs -------------------------
(***************************************************************************)
(* Proofs about the composition of the arbitration with the clients, for   *)
(* every set of cells that fits memory_requests and for both orders of     *)
(* presenting two pending SGIs.  What the arbitration itself guarantees is *)
(* taken from FixedPriorityProofs.                                         *)
(***************************************************************************)
EXTENDS MemoryCentric, TLAPS

Arb == INSTANCE FixedPriorityProofs

Sgis(c) == irq[c] \cup ({active[c]} \ {"none"})
Owns(c) == token_owner = c
Requests(c) == memory_requests[c] # 0
OwnerRequests == token_owner \in Cpu => Requests(token_owner)

(***************************************************************************)
(* What a client believes, the SGIs it has yet to serve and the record of  *)
(* the hypervisor, together.  A client with an ENDED to serve has lost the *)
(* token, and may have ended its memory phase all the same.                *)
(***************************************************************************)
UpToDate(c) ==
  /\ mem_arbit_status[c] = "NONE" => ~Requests(c)
  /\ mem_arbit_status[c] = "REQUESTED" => Requests(c) /\ ~Owns(c)
  /\ mem_arbit_status[c] = "ACQUIRED" => Requests(c) /\ Owns(c)

ToStart(c) == mem_arbit_status[c] = "REQUESTED" /\ Requests(c) /\ Owns(c)

ToStop(c) ==
  /\ ~Owns(c)
  /\ \/ mem_arbit_status[c] = "ACQUIRED" /\ Requests(c)
     \/ mem_arbit_status[c] = "NONE" /\ ~Requests(c)

InStep(c) ==
  \/ Sgis(c) = {} /\ UpToDate(c)
  \/ Sgis(c) = {"STARTED"} /\ active[c] \notin irq[c] /\ ToStart(c)
  \/ Sgis(c) = {"ENDED"} /\ active[c] \notin irq[c] /\ ToStop(c)

\* The inductive invariant.
IInv ==
  /\ TypeOK
  /\ Arb!IInv
  /\ cell_id = [c \in Cpu |-> c]
  /\ ~overtaken => \A c \in Cpu : InStep(c)

-----------------------------------------------------------------------------
\* The value for a free token is no CPU.
LEMMA Constants == FP!TOKEN_FREE = 255 /\ FP!TOKEN_FREE \notin Cpu
  BY CellAssumption DEF FP!TOKEN_FREE, FP!MAX_CPUS

\* What the proof needs of the arbitration's invariant.
LEMMA Records == Arb!IInv => OwnerRequests /\ FP!TypeOK
  BY Constants DEF OwnerRequests, Requests, Arb!IInv, Arb!TypeOK, Arb!TokenConsistent,
     Arb!TOKEN_FREE, Arb!TOKEN_NULL_PRIORITY, Arb!ROOT, Arb!MAX_CELL_ID, FP!TypeOK, FP!TOKEN_FREE,
     FP!ROOT, FP!MAX_CELL_ID

\* The same of the next state.
LEMMA RecordsNext == Arb!IInv' => OwnerRequests' /\ FP!TypeOK'
  BY Records, PTL

\* The assumptions of FixedPriority hold of the instance, so its theorems do.
LEMMA ArbitrationFits ==
  /\ Cpu \subseteq 0..(Arb!MAX_CPUS - 1)
  /\ UIntMod \in Nat /\ UIntMod > Arb!MAX_PRIORITY + Arb!MAX_CELL_ID
  BY CellAssumption, UIntAssumption DEF Arb!MAX_CPUS, FP!MAX_CPUS, FP!MAX_PRIORITY,
     FP!MAX_CELL_ID, Arb!MAX_PRIORITY, Arb!MAX_CELL_ID

\* After the cells have been started nobody requests the token.
LEMMA InitIInv == Init => IInv
  <1> SUFFICES ASSUME Init PROVE IInv
    OBVIOUS
  <1>1. Arb!IInv
    BY CellAssumption, Constants
       DEF Init, Arb!IInv, Arb!TypeOK, Arb!DistinctIds, Arb!PrioritiesInRange, Arb!RequestsOfLiveCells,
       Arb!TokenConsistent, Arb!OwnerIsHighest, Arb!GuestsInformed,
       Arb!Priority, Arb!TOKEN_FREE, Arb!TOKEN_NULL_PRIORITY, Arb!ROOT, Arb!MAX_CELL_ID,
       Arb!MAX_PRIORITY, FP!TOKEN_FREE, FP!TOKEN_NULL_PRIORITY, FP!MAX_CPUS
  <1>2. TypeOK
    <2>1. FP!TypeOK
      BY CellAssumption DEF Init, FP!TypeOK, FP!TOKEN_FREE, FP!TOKEN_NULL_PRIORITY, FP!ROOT,
         FP!MAX_CELL_ID, FP!MAX_CPUS
    <2>2. overtaken \in BOOLEAN
      BY Zenon DEF Init
    <2>3. /\ mem_arbit_status \in [Cpu -> {"NONE", "REQUESTED", "ACQUIRED"}]
          /\ irq \in [Cpu -> SUBSET TokenIrq]
          /\ active \in [Cpu -> {"none"} \cup TokenIrq]
      BY DEF Init, TokenIrq
    <2> QED BY <2>1, <2>2, <2>3 DEF TypeOK
  <1>3. \A c \in Cpu : InStep(c)
    BY DEF Init, InStep, Sgis, UpToDate, Requests
  <1> QED BY <1>1, <1>2, <1>3 DEF IInv, Init

-----------------------------------------------------------------------------
\* The two hypercalls are steps of the arbitration.
LEMMA HypercallKeepsRecords ==
  ASSUME IInv, NEW c \in Cpu, FP!BeginMemPhase(c) \/ FP!EndMemPhase(c)
  PROVE  Arb!IInv' /\ FP!TypeOK' /\ cell_id' = cell_id
  <1>1. Arb!IInv BY DEF IInv
  <1>2. CASE FP!BeginMemPhase(c)
    <2>1. Arb!BeginMemPhase(c)
      BY <1>2 DEF FP!BeginMemPhase, Arb!BeginMemPhase, FP!request_memory, Arb!request_memory,
         FP!TakesToken, Arb!TakesToken, FP!Revoked, Arb!Revoked, FP!Priority, Arb!Priority,
         FP!AfterSgi, Arb!AfterSgi, FP!ROOT, Arb!ROOT, FP!TOKEN_FREE, Arb!TOKEN_FREE, FP!ENDED,
         Arb!ENDED, FP!STARTED, Arb!STARTED, FP!MAX_PRIORITY, Arb!MAX_PRIORITY
    <2>2. Arb!IInv' BY <1>1, <2>1, ArbitrationFits, Arb!BeginKeeps
    <2> QED BY <2>2, <1>2, RecordsNext DEF FP!BeginMemPhase
  <1>3. CASE FP!EndMemPhase(c)
    <2>1. Arb!EndMemPhase(c)
      BY <1>3 DEF FP!EndMemPhase, Arb!EndMemPhase, FP!disable_memory_request,
         Arb!disable_memory_request, FP!Without, Arb!Without, FP!NextOwner, Arb!NextOwner,
         FP!Candidates, Arb!Candidates, FP!IsFirstCpu, Arb!IsFirstCpu, FP!ToldAfterDisable,
         Arb!ToldAfterDisable, FP!AfterSgi, Arb!AfterSgi, FP!ROOT, Arb!ROOT, FP!TOKEN_FREE,
         Arb!TOKEN_FREE, FP!TOKEN_NULL_PRIORITY, Arb!TOKEN_NULL_PRIORITY, FP!ENDED, Arb!ENDED,
         FP!STARTED, Arb!STARTED
    <2>2. Arb!IInv' BY <1>1, <2>1, ArbitrationFits, Arb!WithdrawalsKeep
    <2> QED BY <2>2, <1>3, RecordsNext DEF FP!EndMemPhase
  <1> QED BY <1>2, <1>3

\* What BEGIN does to the records: of the requests, only the caller's changes,
\* and the token stays or goes to the caller.
LEMMA BeginEffect ==
  ASSUME IInv, NEW c \in Cpu, FP!BeginMemPhase(c)
  PROVE  /\ cell_id' = cell_id
         /\ Requests(c)'
         /\ \A d \in Cpu \ {c} : Requests(d)' = Requests(d)
         /\ token_owner' \in {c, token_owner}
  <1>1. memory_requests \in [Cpu -> Nat]
    BY DEF IInv, TypeOK, FP!TypeOK
  <1>2. FP!Priority(cell_id[c]) # 0
    BY CellAssumption DEF IInv, FP!Priority, FP!MAX_PRIORITY, FP!MAX_CPUS
  <1> QED BY <1>1, <1>2 DEF FP!BeginMemPhase, FP!request_memory, Requests

\* END withdraws the caller's request, and moves the token only if it has it.
LEMMA EndEffect ==
  ASSUME IInv, NEW c \in Cpu, FP!EndMemPhase(c)
  PROVE  /\ cell_id' = cell_id
         /\ ~Requests(c)'
         /\ \A d \in Cpu \ {c} : Requests(d)' = Requests(d)
         /\ ~Owns(c) => token_owner' = token_owner
  BY DEF IInv, TypeOK, FP!TypeOK, FP!EndMemPhase, FP!disable_memory_request, FP!Without,
     FP!TOKEN_NULL_PRIORITY, Requests, Owns

\* The SGIs of a hypercall reach the other clients in step with the records.
LEMMA OthersInStep ==
  ASSUME IInv, OwnerRequests, OwnerRequests', NEW c \in Cpu, SendSgis(c), ~overtaken',
         UNCHANGED active, NEW d \in Cpu \ {c}, Requests(d)' = Requests(d),
         mem_arbit_status'[d] = mem_arbit_status[d]
  PROVE  InStep(d)'
  <1> USE DEF Owns
  <1>1. /\ InStep(d)
        /\ Sent(d, c) = {} \/ SgisDone(d)
        /\ irq'[d] = irq[d] \cup (Sent(d, c) \ {active[d]})
        /\ mem_arbit_status[d] \in {"NONE", "REQUESTED", "ACQUIRED"}
    BY DEF IInv, TypeOK, SendSgis
  <1>2. CASE Owns(d)' = Owns(d)
    <2>1. irq'[d] = irq[d]
      BY <1>1, <1>2 DEF Sent
    <2> QED BY <1>1, <1>2, <2>1 DEF InStep, Sgis, UpToDate, ToStart, ToStop
  <1>3. CASE Owns(d) /\ ~Owns(d)'
    <2>1. Sent(d, c) = {"ENDED"} BY <1>3 DEF Sent
    <2>2. irq'[d] = {"ENDED"} /\ active'[d] = "none" /\ UpToDate(d)
      BY <1>1, <2>1 DEF SgisDone, InStep, Sgis
    <2>3. ToStop(d)'
      BY <1>1, <1>3, <2>2 DEF UpToDate, ToStop, OwnerRequests
    <2> QED BY <2>2, <2>3 DEF InStep, Sgis
  <1>4. CASE ~Owns(d) /\ Owns(d)'
    <2>1. Sent(d, c) = {"STARTED"} BY <1>4 DEF Sent
    <2>2. irq'[d] = {"STARTED"} /\ active'[d] = "none" /\ UpToDate(d)
      BY <1>1, <2>1 DEF SgisDone, InStep, Sgis
    <2>3. ToStart(d)'
      BY <1>1, <1>4, <2>2 DEF UpToDate, ToStart, OwnerRequests
    <2> QED BY <2>2, <2>3 DEF InStep, Sgis
  <1> QED BY <1>2, <1>3, <1>4

\* The types of the clients' variables after a hypercall.
LEMMA SendSgisTypes ==
  ASSUME TypeOK, NEW c, SendSgis(c)
  PROVE  irq' \in [Cpu -> SUBSET TokenIrq] /\ overtaken' \in BOOLEAN
  <1>1. overtaken' \in BOOLEAN
    BY Zenon DEF SendSgis, TypeOK
  <1>2. \A d \in Cpu : Sent(d, c) \subseteq TokenIrq
    BY DEF Sent, TokenIrq
  <1> QED BY <1>1, <1>2 DEF SendSgis, TypeOK

\* The answer to BEGIN is the caller's new status.
LEMMA BeginKeeps ==
  ASSUME IInv, NEW c \in Cpu, BeginMemPhase(c)
  PROVE  IInv'
  <1>1. FP!BeginMemPhase(c) /\ SendSgis(c) /\ SgisDone(c) /\ active' = active
    BY DEF BeginMemPhase
  <1>2. /\ mem_arbit_status' \in [Cpu -> {"NONE", "REQUESTED", "ACQUIRED"}]
        /\ mem_arbit_status'[c] = IF Owns(c)' THEN "ACQUIRED" ELSE "REQUESTED"
        /\ \A d \in Cpu \ {c} : mem_arbit_status'[d] = mem_arbit_status[d]
    BY DEF BeginMemPhase, IInv, TypeOK, Owns
  <1>3. Arb!IInv' /\ FP!TypeOK' /\ OwnerRequests /\ OwnerRequests'
    BY <1>1, HypercallKeepsRecords, Records, RecordsNext DEF IInv
  <1>4. TypeOK'
    BY <1>1, <1>2, <1>3, SendSgisTypes DEF IInv, TypeOK
  <1>5. ASSUME ~overtaken', NEW d \in Cpu PROVE InStep(d)'
    <2>1. CASE d # c
      BY <1>1, <1>2, <1>3, <1>5, <2>1, BeginEffect, OthersInStep
    <2>2. CASE d = c
      <3>1. irq'[c] = {} /\ active'[c] = "none"
        BY <1>1 DEF SendSgis, Sent, SgisDone
      <3> QED BY <1>1, <1>2, <2>2, <3>1, BeginEffect DEF InStep, Sgis, UpToDate
    <2> QED BY <2>1, <2>2
  <1> QED BY <1>1, <1>3, <1>4, <1>5, BeginEffect DEF IInv

\* END, with no SGI to serve or with an ENDED that came in after masking.
LEMMA EndKeeps ==
  ASSUME IInv, NEW c \in Cpu, EndMemPhase(c)
  PROVE  IInv'
  <1>1. /\ FP!EndMemPhase(c) /\ SendSgis(c) /\ active[c] = "none" /\ active' = active
        /\ mem_arbit_status[c] = "ACQUIRED"
    BY DEF EndMemPhase
  <1>2. /\ mem_arbit_status' \in [Cpu -> {"NONE", "REQUESTED", "ACQUIRED"}]
        /\ mem_arbit_status'[c] = "NONE"
        /\ \A d \in Cpu \ {c} : mem_arbit_status'[d] = mem_arbit_status[d]
    BY DEF EndMemPhase, IInv, TypeOK
  <1>3. Arb!IInv' /\ FP!TypeOK' /\ OwnerRequests /\ OwnerRequests'
    BY <1>1, HypercallKeepsRecords, Records, RecordsNext DEF IInv
  <1>4. TypeOK'
    BY <1>1, <1>2, <1>3, SendSgisTypes DEF IInv, TypeOK
  <1>5. ASSUME ~overtaken', NEW d \in Cpu PROVE InStep(d)'
    <2>1. CASE d # c
      BY <1>1, <1>2, <1>3, <1>5, <2>1, EndEffect, OthersInStep
    <2>2. CASE d = c
      <3>1. irq'[c] = irq[c] /\ active'[c] = active[c] /\ InStep(c)
        BY <1>1, <1>5 DEF SendSgis, Sent, IInv
      <3>2. ~Requests(c)' /\ ~Owns(c)'
        BY <1>1, <1>3, EndEffect DEF OwnerRequests, Owns
      <3>3. CASE Sgis(c) = {}
        BY <1>2, <2>2, <3>1, <3>2, <3>3 DEF InStep, Sgis, UpToDate
      <3>4. CASE Sgis(c) = {"ENDED"}
        BY <1>2, <2>2, <3>1, <3>2, <3>4 DEF InStep, Sgis, ToStop
      <3> QED BY <1>1, <3>1, <3>3, <3>4 DEF InStep, ToStart
    <2> QED BY <2>1, <2>2
  <1> QED BY <1>1, <1>3, <1>4, <1>5, EndEffect DEF IInv

-----------------------------------------------------------------------------
\* Steps of a guest alone leave the records as they are.
LEMMA RecordsUnchanged ==
  ASSUME IInv, UNCHANGED hypervisor
  PROVE  /\ Arb!IInv' /\ FP!TypeOK' /\ cell_id' = cell_id
         /\ \A d \in Cpu : Requests(d)' = Requests(d) /\ Owns(d)' = Owns(d)
  <1>1. UNCHANGED Arb!vars
    BY DEF hypervisor, Arb!vars
  <1>2. Arb!IInv'
    BY <1>1, ArbitrationFits, Arb!StutterKeeps DEF IInv
  <1> QED BY <1>2, RecordsNext DEF hypervisor, Requests, Owns

\* Serving an SGI brings the status up to date with the records.
LEMMA InterruptsKeep ==
  ASSUME IInv, NEW c \in Cpu, Interrupts(c)
  PROVE  IInv'
  <1>1. UNCHANGED hypervisor /\ overtaken' = overtaken
    BY DEF Interrupts, Acknowledge, memory_phase_started_ISR, memory_phase_ended_ISR
  <1>2. /\ mem_arbit_status' \in [Cpu -> {"NONE", "REQUESTED", "ACQUIRED"}]
        /\ irq' \in [Cpu -> SUBSET TokenIrq]
        /\ active' \in [Cpu -> {"none"} \cup TokenIrq]
    BY DEF IInv, TypeOK, TokenIrq, Interrupts, Acknowledge, memory_phase_started_ISR,
       memory_phase_ended_ISR
  <1>3. TypeOK'
    <2>1. overtaken' \in BOOLEAN BY <1>1 DEF IInv, TypeOK
    <2> QED BY <1>1, <1>2, <2>1, RecordsUnchanged DEF TypeOK
  <1>4. ASSUME ~overtaken, NEW d \in Cpu, d # c PROVE InStep(d)'
    <2>1. /\ mem_arbit_status'[d] = mem_arbit_status[d]
          /\ irq'[d] = irq[d]
          /\ active'[d] = active[d]
      BY <1>4 DEF IInv, TypeOK, Interrupts, Acknowledge, memory_phase_started_ISR,
         memory_phase_ended_ISR
    <2> QED BY <1>1, <1>4, <2>1, RecordsUnchanged
            DEF IInv, InStep, Sgis, UpToDate, ToStart, ToStop
  <1>5. ASSUME ~overtaken PROVE InStep(c)'
    <2>1. InStep(c) /\ Requests(c)' = Requests(c) /\ Owns(c)' = Owns(c)
      BY <1>1, <1>5, RecordsUnchanged DEF IInv
    <2>2. CASE Acknowledge(c)
      <3>1. PICK i \in irq[c] : active'[c] = i /\ irq'[c] = irq[c] \ {i}
        BY <2>2 DEF Acknowledge, IInv, TypeOK
      <3>2. /\ active[c] = "none" /\ "none" \notin irq[c]
            /\ mem_arbit_status'[c] = mem_arbit_status[c]
        BY <2>2 DEF Acknowledge, IInv, TypeOK, TokenIrq
      <3>3. Sgis(c)' = Sgis(c) /\ active'[c] \notin irq'[c] /\ Sgis(c) # {}
        BY <3>1, <3>2 DEF Sgis
      <3> QED BY <2>1, <3>2, <3>3 DEF InStep, ToStart, ToStop
    <2>3. CASE memory_phase_started_ISR(c)
      <3>1. /\ active[c] = "STARTED" /\ active'[c] = "none" /\ irq'[c] = irq[c]
            /\ mem_arbit_status[c] = "REQUESTED" => mem_arbit_status'[c] = "ACQUIRED"
        BY <2>3 DEF memory_phase_started_ISR, IInv, TypeOK
      <3>2. irq[c] = {} /\ ToStart(c)
        BY <2>1, <3>1 DEF InStep, Sgis
      <3> QED BY <2>1, <3>1, <3>2 DEF InStep, Sgis, ToStart, UpToDate
    <2>4. CASE memory_phase_ended_ISR(c)
      <3>1. /\ active[c] = "ENDED" /\ active'[c] = "none" /\ irq'[c] = irq[c]
            /\ mem_arbit_status'[c] = IF mem_arbit_status[c] = "ACQUIRED"
                                        THEN "REQUESTED" ELSE mem_arbit_status[c]
        BY <2>4 DEF memory_phase_ended_ISR, IInv, TypeOK
      <3>2. irq[c] = {} /\ ToStop(c)
        BY <2>1, <3>1 DEF InStep, Sgis
      <3> QED BY <2>1, <3>1, <3>2 DEF InStep, Sgis, ToStop, UpToDate
    <2> QED BY <2>2, <2>3, <2>4 DEF Interrupts
  <1> QED BY <1>1, <1>3, <1>4, <1>5, RecordsUnchanged DEF IInv

\* Nothing changes.
LEMMA StutterKeeps ==
  ASSUME IInv, UNCHANGED vars
  PROVE  IInv'
  <1>1. UNCHANGED hypervisor /\ UNCHANGED <<mem_arbit_status, irq, active, overtaken>>
    BY DEF vars
  <1>2. TypeOK'
    BY <1>1, RecordsUnchanged DEF IInv, TypeOK
  <1>3. \A d \in Cpu : InStep(d)' = InStep(d)
    BY <1>1, RecordsUnchanged DEF InStep, Sgis, UpToDate, ToStart, ToStop
  <1> QED BY <1>1, <1>2, <1>3, RecordsUnchanged DEF IInv

\* Every reachable state of the composition satisfies the invariant.
THEOREM Invariance == Spec => []IInv
  <1>1. IInv /\ [Next]_vars => IInv'
    BY BeginKeeps, EndKeeps, InterruptsKeep, StutterKeeps DEF Next
  <1> QED BY <1>1, InitIInv, PTL DEF Spec

-----------------------------------------------------------------------------
\* A client that believes to have the token and has no ENDED to serve owns it.
LEMMA AcquiredOwns ==
  ASSUME IInv, ~overtaken, NEW c \in Cpu, InMemoryPhase(c), ~Stopping(c)
  PROVE  Owns(c)
  <1>1. InStep(c) BY DEF IInv
  <1>2. Sgis(c) # {"ENDED"} BY DEF Stopping, Sgis
  <1> QED BY <1>1, <1>2 DEF InStep, InMemoryPhase, ToStart, UpToDate

\* One core at a time uses the memory, and it is the one of the highest
\* priority, on every machine: hypercall answers and SGIs of fixed_priority.c
\* are enough for the guests as long as no decision overtakes an SGI.
THEOREM Arbitrated == Spec => []MemoryIsArbitrated
  <1>1. IInv => MutualExclusion
    BY AcquiredOwns DEF MutualExclusion, Owns
  <1>2. ASSUME IInv, ~overtaken, \A c \in Cpu : SgisDone(c),
               NEW c \in Cpu, NEW d \in Cpu, InMemoryPhase(c), mem_arbit_status[d] = "REQUESTED"
        PROVE  cell_id[c] < cell_id[d]
    <2>1. Sgis(c) = {} /\ Sgis(d) = {} /\ InStep(c) /\ InStep(d)
      BY <1>2 DEF SgisDone, Sgis, IInv
    <2>2. token_owner = c /\ c # d /\ memory_requests[c] # 0 /\ memory_requests[d] # 0
      BY <1>2, <2>1 DEF InStep, UpToDate, InMemoryPhase, Requests, Owns
    <2>3. memory_requests[c] = 6 - c /\ memory_requests[d] = 6 - d
      BY <1>2, <2>2, CellAssumption DEF IInv, Arb!IInv, Arb!RequestsOfLiveCells, Arb!Priority,
         Arb!TOKEN_NULL_PRIORITY, Arb!MAX_PRIORITY, FP!MAX_CPUS
    <2>4. memory_requests[d] <= memory_requests[c]
      BY <1>2, <2>2, Constants DEF IInv, Arb!IInv, Arb!OwnerIsHighest, Arb!TokenConsistent,
         Arb!TOKEN_FREE, FP!TOKEN_FREE
    <2> QED BY <1>2, <2>2, <2>3, <2>4, CellAssumption DEF IInv, FP!MAX_CPUS
  <1>3. IInv => MemoryIsArbitrated
    BY <1>1, <1>2 DEF MemoryIsArbitrated, HighestInMemoryPhase
  <1> QED BY <1>3, Invariance, PTL

\* MEMORY_TOKEN_ACQUIRED and MEMORY_TOKEN_REQUESTED mean what the comments of
\* ee_kernel_types.h say, as long as no decision overtakes an SGI.
THEOREM ViewsSafe == Spec => []ViewsAgree
  <1>1. ASSUME IInv, ~overtaken, NEW c \in Cpu, SgisDone(c)
        PROVE  /\ InMemoryPhase(c) => token_owner = c
               /\ mem_arbit_status[c] = "REQUESTED" => token_owner # c
    <2>1. Sgis(c) = {} /\ InStep(c)
      BY <1>1 DEF SgisDone, Sgis, IInv
    <2> QED BY <2>1 DEF InStep, UpToDate, InMemoryPhase, Owns
  <1>2. IInv => ViewsAgree
    BY <1>1 DEF IInv, ViewsAgree, AcquiredIsGranted, TokenIsUsed
  <1> QED BY <1>2, Invariance, PTL

-----------------------------------------------------------------------------
\* A step of the caller of a hypercall, as a client sees it.
LEMMA CallerBehaves ==
  ASSUME IInv, OwnerRequests', NEW c \in Cpu, BeginMemPhase(c) \/ EndMemPhase(c)
  PROVE  Client(c)!ClientNext
  <1>1. irq'[c] = irq[c] /\ active'[c] = active[c]
    BY DEF BeginMemPhase, EndMemPhase, SendSgis, Sent, IInv, TypeOK
  <1>2. CASE BeginMemPhase(c)
    <2>1. Requests(c)' BY <1>2, BeginEffect DEF BeginMemPhase
    <2>2. /\ mem_arbit_status[c] = "NONE" /\ irq[c] = {} /\ active[c] = "none"
          /\ mem_arbit_status'[c] = IF Owns(c)' THEN "ACQUIRED" ELSE "REQUESTED"
      BY <1>2 DEF BeginMemPhase, SgisDone, IInv, TypeOK, Owns
    <2> QED BY <1>1, <2>1, <2>2 DEF Client!ClientNext, Client!Begin, OnRecord, Requests, Owns
  <1>3. CASE EndMemPhase(c)
    <2>1. ~Requests(c)' BY <1>3, EndEffect DEF EndMemPhase
    <2>2. /\ mem_arbit_status[c] = "ACQUIRED" /\ active[c] = "none"
          /\ mem_arbit_status'[c] = "NONE"
      BY <1>3 DEF EndMemPhase, IInv, TypeOK
    <2> QED BY <1>1, <2>1, <2>2 DEF Client!ClientNext, Client!End, OnRecord, Requests
  <1> QED BY <1>2, <1>3

\* The other clients are granted the token, lose it, or see nothing.
LEMMA OthersBehave ==
  ASSUME IInv, OwnerRequests, OwnerRequests', NEW c \in Cpu, SendSgis(c),
         UNCHANGED active, NEW d \in Cpu \ {c}, Requests(d)' = Requests(d),
         mem_arbit_status'[d] = mem_arbit_status[d]
  PROVE  [Client(d)!ClientNext]_(Client(d)!clientVars)
  <1>1. irq'[d] = irq[d] \cup (Sent(d, c) \ {active[d]}) /\ active'[d] = active[d]
    BY DEF SendSgis
  <1>2. CASE Owns(d)' = Owns(d)
    <2>1. irq'[d] = irq[d] BY <1>1, <1>2 DEF Sent, Owns
    <2>2. OnRecord(d)' = OnRecord(d) BY <1>2 DEF OnRecord, Requests, Owns
    <2> QED BY <1>1, <2>1, <2>2 DEF Client!clientVars
  <1>3. CASE Owns(d) /\ ~Owns(d)'
    <2>1. Sent(d, c) = {"ENDED"} BY <1>3 DEF Sent, Owns
    <2>2. OnRecord(d) = "owner" /\ OnRecord(d)' = "waiting"
      BY <1>3 DEF OnRecord, OwnerRequests, Requests, Owns
    <2> QED BY <1>1, <2>1, <2>2 DEF Client!ClientNext, Client!Revoke, Client!Inject
  <1>4. CASE ~Owns(d) /\ Owns(d)'
    <2>1. Sent(d, c) = {"STARTED"} BY <1>4 DEF Sent, Owns
    <2>2. OnRecord(d) = "waiting" /\ OnRecord(d)' = "owner"
      BY <1>4 DEF OnRecord, OwnerRequests, Requests, Owns
    <2> QED BY <1>1, <2>1, <2>2 DEF Client!ClientNext, Client!Grant, Client!Inject
  <1> QED BY <1>2, <1>3, <1>4 DEF Owns

\* Interrupts are served by one client and seen by no other.
LEMMA InterruptsBehave ==
  ASSUME IInv, NEW c \in Cpu, Interrupts(c), NEW d \in Cpu
  PROVE  [Client(d)!ClientNext]_(Client(d)!clientVars)
  <1>1. OnRecord(d)' = OnRecord(d)
    BY DEF Interrupts, Acknowledge, memory_phase_started_ISR, memory_phase_ended_ISR, hypervisor,
       OnRecord
  <1>2. CASE d # c
    <2>1. /\ mem_arbit_status'[d] = mem_arbit_status[d]
          /\ irq'[d] = irq[d] /\ active'[d] = active[d]
      BY <1>2 DEF IInv, TypeOK, Interrupts, Acknowledge, memory_phase_started_ISR,
         memory_phase_ended_ISR
    <2> QED BY <1>1, <2>1 DEF Client!clientVars
  <1>3. CASE d = c /\ Acknowledge(c)
    <2>1. PICK i \in irq[c] : active'[c] = i /\ irq'[c] = irq[c] \ {i}
      BY <1>3 DEF Acknowledge, IInv, TypeOK
    <2>2. active[c] = "none" /\ mem_arbit_status'[c] = mem_arbit_status[c]
      BY <1>3 DEF Acknowledge
    <2> QED BY <1>1, <1>3, <2>1, <2>2 DEF Client!ClientNext, Client!Acknowledge
  <1>4. CASE d = c /\ (memory_phase_started_ISR(c) \/ memory_phase_ended_ISR(c))
    <2>1. /\ active[c] # "none" /\ active'[c] = "none" /\ irq'[c] = irq[c]
          /\ mem_arbit_status'[c] =
               IF active[c] = "STARTED" /\ mem_arbit_status[c] = "REQUESTED" THEN "ACQUIRED"
               ELSE IF active[c] = "ENDED" /\ mem_arbit_status[c] = "ACQUIRED" THEN "REQUESTED"
               ELSE mem_arbit_status[c]
      BY <1>4 DEF memory_phase_started_ISR, memory_phase_ended_ISR, IInv, TypeOK
    <2> QED BY <1>1, <1>4, <2>1 DEF Client!ClientNext, Client!Serve
  <1> QED BY <1>2, <1>3, <1>4 DEF Interrupts

\* Each core of the composition is a client as ErikaCore implements it, whether
\* or not a decision has overtaken an SGI.
THEOREM Composition == Spec => ClientsBehave
  <1>1. Init => ClientsInit
    BY DEF Init, ClientsInit, Client!ClientInit, OnRecord
  <1>2. ASSUME IInv, IInv', Next PROVE ClientsStep
    <2> SUFFICES ASSUME NEW d \in Cpu
                 PROVE  [Client(d)!ClientNext]_(Client(d)!clientVars)
      BY DEF ClientsStep
    <2>1. PICK c \in Cpu : BeginMemPhase(c) \/ EndMemPhase(c) \/ Interrupts(c)
      BY <1>2 DEF Next
    <2>2. OwnerRequests /\ OwnerRequests'
      BY <1>2, Records, RecordsNext DEF IInv
    <2>3. CASE Interrupts(c)
      BY <1>2, <2>3, InterruptsBehave
    <2>4. CASE (BeginMemPhase(c) \/ EndMemPhase(c)) /\ d = c
      BY <1>2, <2>2, <2>4, CallerBehaves
    <2>5. CASE (BeginMemPhase(c) \/ EndMemPhase(c)) /\ d # c
      <3>1. /\ SendSgis(c) /\ UNCHANGED active
            /\ mem_arbit_status'[d] = mem_arbit_status[d]
        BY <1>2, <2>5 DEF BeginMemPhase, EndMemPhase, IInv, TypeOK
      <3>2. Requests(d)' = Requests(d)
        BY <1>2, <2>5, BeginEffect, EndEffect DEF BeginMemPhase, EndMemPhase
      <3> QED BY <1>2, <2>2, <2>5, <3>1, <3>2, OthersBehave
    <2> QED BY <2>1, <2>3, <2>4, <2>5
  <1>3. IInv /\ IInv' /\ [Next]_vars => [ClientsStep]_vars
    BY <1>2
  <1> QED BY <1>1, <1>3, Invariance, PTL DEF Spec, ClientsBehave
=============================================================================
