--------------------------- MODULE MemoryCentric ---------------------------
(***************************************************************************)
(* The whole system: the fixed-priority arbitration of the hypervisor and  *)
(* the token clients of the cells, connected by hypercalls one way and by  *)
(* the two token SGIs the other way.  The cells have been created and      *)
(* started, one CPU each.  An SGI is in the target's list registers when   *)
(* the hypercall that caused it returns; how long the target takes to      *)
(* acknowledge and serve it is open.                                       *)
(*                                                                         *)
(* overtaken records that a hypercall has once taken the token from a CPU, *)
(* or given it to one, that had not yet served its previous token SGI.     *)
(***************************************************************************)
EXTENDS Integers, FiniteSets

CONSTANTS
  Cpu, UIntMod,  \* FixedPriority
  LowestFirst    \* of two pending SGIs the lower id is presented first

VARIABLES
  memory_requests, token_owner, token_priority, cell_id, told, \* FixedPriority
  mem_arbit_status, irq, active, \* the token clients
  overtaken                      \* see above

hypervisor == <<memory_requests, token_owner, token_priority, cell_id, told>>
vars == <<hypervisor, mem_arbit_status, irq, active, overtaken>>

FP == INSTANCE FixedPriority

ASSUME OrderAssumption == LowestFirst \in BOOLEAN
\* CPU 0 stays with the root cell, so the cells have the ids 1, 2, ...
ASSUME CellAssumption == Cpu \subseteq 1..(FP!MAX_CPUS - 1)
ASSUME UIntAssumption == UIntMod \in Nat /\ UIntMod > FP!MAX_PRIORITY + FP!MAX_CELL_ID

\* The state of a client that the hypervisor has on record.
OnRecord(c) ==
  IF memory_requests[c] = 0 THEN "none" ELSE IF token_owner = c THEN "owner" ELSE "waiting"

TokenIrq == {"STARTED", "ENDED"}
SgisDone(c) == irq[c] = {} /\ active[c] = "none"

\* The cells have been created in the order of their CPUs and started.
Init ==
  /\ memory_requests = [c \in Cpu |-> 0]
  /\ token_owner = FP!TOKEN_FREE
  /\ token_priority = FP!TOKEN_NULL_PRIORITY
  /\ cell_id = [c \in Cpu |-> c]
  /\ told = [c \in Cpu |-> "none"]
  /\ mem_arbit_status = [c \in Cpu |-> "NONE"]
  /\ irq = [c \in Cpu |-> {}]
  /\ active = [c \in Cpu |-> "none"]
  /\ overtaken = FALSE

\* Faulty: the CPU that gets the token is not told.
Sent_no_started(c, caller) ==
  IF c # caller /\ token_owner = c /\ token_owner' # c THEN {"ENDED"} ELSE {}

\* irqchip_set_pending(ENDED) for the CPU that loses the token to another,
\* irqchip_set_pending(STARTED) for the CPU that gets it from another.
Sent(c, caller) ==
  IF c = caller THEN {}
  ELSE IF token_owner = c /\ token_owner' # c THEN {"ENDED"}
  ELSE IF token_owner # c /\ token_owner' = c THEN {"STARTED"}
  ELSE {}

SendSgis(caller) ==
  /\ irq' = [c \in Cpu |-> irq[c] \cup (Sent(c, caller) \ {active[c]})]
  /\ overtaken' = \/ overtaken
                  \/ \E c \in Cpu : Sent(c, caller) # {} /\ ~SgisDone(c)

BeginMemPhase(c) ==
  /\ mem_arbit_status[c] = "NONE" /\ SgisDone(c)
  /\ FP!BeginMemPhase(c)
  /\ SendSgis(c)
  /\ mem_arbit_status' =
       [mem_arbit_status EXCEPT ![c] = IF token_owner' = c THEN "ACQUIRED"
                                                           ELSE "REQUESTED"]
  /\ UNCHANGED active

\* A token SGI may have come in after the guest has masked interrupts.
EndMemPhase(c) ==
  /\ mem_arbit_status[c] = "ACQUIRED" /\ active[c] = "none"
  /\ FP!EndMemPhase(c)
  /\ SendSgis(c)
  /\ mem_arbit_status' = [mem_arbit_status EXCEPT ![c] = "NONE"]
  /\ UNCHANGED active

Acknowledge(c) ==
  /\ active[c] = "none"
  /\ \E i \in irq[c] :
       /\ LowestFirst /\ "STARTED" \in irq[c] => i = "STARTED"
       /\ active' = [active EXCEPT ![c] = i]
       /\ irq' = [irq EXCEPT ![c] = @ \ {i}]
  /\ UNCHANGED <<hypervisor, mem_arbit_status, overtaken>>

memory_phase_started_ISR(c) ==
  /\ active[c] = "STARTED" /\ active' = [active EXCEPT ![c] = "none"]
  /\ mem_arbit_status' =
       [mem_arbit_status EXCEPT ![c] = IF @ = "REQUESTED" THEN "ACQUIRED" ELSE @]
  /\ UNCHANGED <<hypervisor, irq, overtaken>>

\* Faulty: the guest goes on with its memory phase.
memory_phase_ended_ISR_ignored(c) ==
  /\ active[c] = "ENDED" /\ active' = [active EXCEPT ![c] = "none"]
  /\ UNCHANGED <<hypervisor, mem_arbit_status, irq, overtaken>>

memory_phase_ended_ISR(c) ==
  /\ active[c] = "ENDED" /\ active' = [active EXCEPT ![c] = "none"]
  /\ mem_arbit_status' =
       [mem_arbit_status EXCEPT ![c] = IF @ = "ACQUIRED" THEN "REQUESTED" ELSE @]
  /\ UNCHANGED <<hypervisor, irq, overtaken>>

Interrupts(c) ==
  Acknowledge(c) \/ memory_phase_started_ISR(c) \/ memory_phase_ended_ISR(c)

Next == \E c \in Cpu : BeginMemPhase(c) \/ EndMemPhase(c) \/ Interrupts(c)

Spec == Init /\ [][Next]_vars

\* Interrupts are served, and a memory phase that is resumed again and again
\* goes on where it was interrupted, so it ends.
Fairness ==
  \A c \in Cpu : WF_vars(Interrupts(c)) /\ SF_vars(EndMemPhase(c))

FairSpec == Spec /\ Fairness

-----------------------------------------------------------------------------
\* The types of the clients' variables; the arbitration has its own.
TypeOK ==
  /\ FP!TypeOK
  /\ mem_arbit_status \in [Cpu -> {"NONE", "REQUESTED", "ACQUIRED"}]
  /\ irq \in [Cpu -> SUBSET TokenIrq]
  /\ active \in [Cpu -> {"none"} \cup TokenIrq]
  /\ overtaken \in BOOLEAN

(***************************************************************************)
(* One core at a time uses the memory: of all cores that believe to have   *)
(* the token (MEMORY_TOKEN_ACQUIRED), at most one has no ENDED interrupt   *)
(* to serve.  This is what the system is for.  It holds as long as no      *)
(* decision has overtaken an SGI (see AcquiredIsGranted).                  *)
(***************************************************************************)
InMemoryPhase(c) == mem_arbit_status[c] = "ACQUIRED"
Stopping(c) == "ENDED" \in irq[c] \cup {active[c]}

MutualExclusion ==
  ~overtaken =>
    \A c, d \in Cpu : /\ InMemoryPhase(c) /\ ~Stopping(c)
                      /\ InMemoryPhase(d) /\ ~Stopping(d)
                      => c = d

(***************************************************************************)
(* MEMORY_TOKEN_ACQUIRED is "memory access granted" (ee_kernel_types.h): a *)
(* core that believes to have the token and has no SGI left to serve owns  *)
(* it in the hypervisor.                                                   *)
(***************************************************************************)
AcquiredIsGranted ==
  \A c \in Cpu : InMemoryPhase(c) /\ SgisDone(c) => token_owner = c

(***************************************************************************)
(* MEMORY_TOKEN_REQUESTED is "memory access requested but not granted"     *)
(* (ee_kernel_types.h): a core that waits and has no SGI left to serve     *)
(* does not own the token.  Otherwise the token is idle, and every core of *)
(* lower priority waits for a core that waits itself.                      *)
(***************************************************************************)
TokenIsUsed ==
  \A c \in Cpu : mem_arbit_status[c] = "REQUESTED" /\ SgisDone(c) => token_owner # c

\* As long as no decision has overtaken an SGI, each core believes of the
\* token what the two comments of ee_kernel_types.h say.
ViewsAgree == TypeOK /\ (~overtaken => AcquiredIsGranted /\ TokenIsUsed)

(***************************************************************************)
(* The token is the priority's: when no SGI is on its way, the core in its *)
(* memory phase is the one of the highest priority among all cores that    *)
(* are in a memory phase or wait for one, as long as no decision has       *)
(* overtaken an SGI.                                                       *)
(***************************************************************************)
HighestInMemoryPhase ==
  ~overtaken /\ (\A c \in Cpu : SgisDone(c)) =>
    \A c, d \in Cpu : InMemoryPhase(c) /\ mem_arbit_status[d] = "REQUESTED"
                        => cell_id[c] < cell_id[d]

\* One core at a time uses the memory, and it is the one of highest priority.
MemoryIsArbitrated == MutualExclusion /\ HighestInMemoryPhase

(***************************************************************************)
(* A waiting core gets its memory phase if the cores of higher priority    *)
(* are again and again all outside theirs: disable_memory_request passes   *)
(* the token on (fixed_priority.c:98-143) and the guest resumes its task.  *)
(* This too needs decisions that overtake no SGI (see TokenIsUsed).        *)
(***************************************************************************)
Outranking(c) == {d \in Cpu : cell_id[d] < cell_id[c]}

WaitingIsServed ==
  \A c \in Cpu :
    ([]~overtaken /\ []<>(\A d \in Outranking(c) : mem_arbit_status[d] = "NONE"))
      => ((mem_arbit_status[c] = "REQUESTED") ~> InMemoryPhase(c))

Client(c) == INSTANCE TokenClient WITH
  mem_arbit_status <- mem_arbit_status[c], hv <- OnRecord(c),
  irq <- irq[c], active <- active[c]

ClientsInit == \A c \in Cpu : Client(c)!ClientInit
ClientsStep == \A c \in Cpu : [Client(c)!ClientNext]_(Client(c)!clientVars)

(***************************************************************************)
(* Every core of the composition is a client that ErikaCore implements.    *)
(***************************************************************************)
ClientsBehave == ClientsInit /\ [][ClientsStep]_vars
=============================================================================
