-------------------------------- MODULE Tdma --------------------------------
(***************************************************************************)
(* The TDMA memory arbitration of the hypervisor (arm64/tdma.c), the       *)
(* alternative to FixedPriority: every CPU has one slot of a cycle in      *)
(* which its guest may be in a memory phase.  Each CPU programs its own    *)
(* hypervisor timer; there is no shared state but the system counter.      *)
(*                                                                         *)
(* All that tdma_timer_start computes depends on the counter modulo the    *)
(* cycle, so now is the position in the cycle and left the time to the     *)
(* timer's compare value, negative once it has passed.  The timer is a     *)
(* level interrupt of the hypervisor that is served at most MaxLatency     *)
(* ticks late.  The guests are those of TokenClient.  Cells are started    *)
(* again, destroyed and created at any time; a cell keeps its id.          *)
(*                                                                         *)
(* The performance monitor that would put a CPU into one of the two        *)
(* BLOCKED_BY_OVERUSAGE states is commented out in the code.               *)
(***************************************************************************)
EXTENDS Integers, FiniteSets

CONSTANTS
  Cpu,
  cell_id,          \* the id of the cell that each CPU belongs to
  tdma_num_slots,
  tdma_slot_period, \* in ticks
  MaxLatency

Cycle == tdma_num_slots * tdma_slot_period

ASSUME TdmaAssumption ==
  /\ cell_id \in [Cpu -> Nat \ {0}]
  /\ \A c, d \in Cpu : cell_id[c] = cell_id[d] => c = d
  /\ tdma_num_slots \in 2..127 /\ tdma_slot_period \in Nat \ {0}
  /\ MaxLatency \in 0..(tdma_slot_period - 1)

\* Every cell has a slot; the code accepts others and prints a message.
ASSUME SlotAssumption == \A c \in Cpu : cell_id[c] <= tdma_num_slots

VARIABLES
  now,
  tdma_state, tdma_timer_target,  \* struct per_cpu
  enabled, left,                  \* the hypervisor timer of the CPU
  mem_arbit_status, irq, active,  \* the guest and its virtual interrupts
  cells,                          \* the CPUs whose cell exists
  interrupted   \* history: CPUs whose cell was stopped within a request

hypervisor == <<tdma_state, tdma_timer_target, enabled, left>>
guest == <<mem_arbit_status, irq, active>>
vars == <<now, hypervisor, guest, cells, interrupted>>

Init ==
  /\ now \in 0..(Cycle - 1)
  /\ tdma_state = [c \in Cpu |-> "COMPUTING"]
  /\ tdma_timer_target = [c \in Cpu |-> "START"]
  /\ enabled = [c \in Cpu |-> FALSE]
  /\ left = [c \in Cpu |-> 0]
  /\ mem_arbit_status = [c \in Cpu |-> "NONE"]
  /\ irq = [c \in Cpu |-> {}]
  /\ active = [c \in Cpu |-> "none"]
  /\ cells = Cpu
  /\ interrupted = {}

-----------------------------------------------------------------------------
\* Faulty: two cells share a slot.
SlotId_shared(c) == (cell_id[c] - 1) \div 2

\* tdma_slot_id, which is an s8, read as an u8: a cell without a slot has the
\* value -1, and the bound is not seen to be exceeded by a negative value.
SlotId(c) ==
  LET id == (cell_id[c] - 1) % 256
  IN  IF id < tdma_num_slots \/ id > 127 THEN id ELSE 255

CurrentSlot == now \div tdma_slot_period

\* Faulty: the end of the slot is one tick late.
timer_start_late_end(c) ==
  /\ enabled' = [enabled EXCEPT ![c] = TRUE]
  /\ tdma_timer_target' =
       [tdma_timer_target EXCEPT ![c] = IF CurrentSlot = SlotId(c) THEN "END"
                                                                   ELSE "START"]
  /\ left' = [left EXCEPT ![c] =
       LET cmpval == IF CurrentSlot = SlotId(c)
                       THEN (SlotId(c) + 1) * tdma_slot_period + 1
                       ELSE SlotId(c) * tdma_slot_period
                              + IF CurrentSlot < SlotId(c) THEN 0 ELSE Cycle
       IN  cmpval - now]

\* The compare value is the end of the current slot if that is the CPU's own,
\* otherwise the next start of the CPU's slot.
timer_start(c) ==
  /\ enabled' = [enabled EXCEPT ![c] = TRUE]
  /\ tdma_timer_target' =
       [tdma_timer_target EXCEPT ![c] = IF CurrentSlot = SlotId(c) THEN "END"
                                                                   ELSE "START"]
  /\ left' = [left EXCEPT ![c] =
       LET cmpval == IF CurrentSlot = SlotId(c)
                       THEN (SlotId(c) + 1) * tdma_slot_period
                       ELSE SlotId(c) * tdma_slot_period
                              + IF CurrentSlot < SlotId(c) THEN 0 ELSE Cycle
       IN  cmpval - now]

\* The compare value of a disabled timer does not matter.
timer_disable(c) ==
  /\ enabled' = [enabled EXCEPT ![c] = FALSE]
  /\ left' = [left EXCEPT ![c] = 0]
  /\ UNCHANGED tdma_timer_target

Expired(c) == enabled[c] /\ left[c] <= 0

SetState(c, s) == tdma_state' = [tdma_state EXCEPT ![c] = s]

\* Faulty: the handler waits for a CPU in the wrong state.
timer_isr_start_computing(c) ==
  /\ Expired(c) /\ tdma_timer_target[c] = "START"
  /\ IF tdma_state[c] = "COMPUTING"
       THEN timer_start(c) /\ SetState(c, "MEMORY")
       ELSE UNCHANGED hypervisor
  /\ UNCHANGED <<now, cells, interrupted, guest>>

\* Timer interrupt at the start of a slot: only the hypervisor's state
\* changes, the guest is told nothing.
timer_isr_start(c) ==
  /\ Expired(c) /\ tdma_timer_target[c] = "START"
  /\ IF tdma_state[c] = "WAITING"
       THEN timer_start(c) /\ SetState(c, "MEMORY")
       ELSE UNCHANGED hypervisor
  /\ UNCHANGED <<now, cells, interrupted, guest>>

\* Timer interrupt at the end of a slot.
timer_isr_end(c) ==
  /\ Expired(c) /\ tdma_timer_target[c] = "END"
  /\ IF tdma_state[c] # "MEMORY"
       THEN UNCHANGED <<hypervisor, irq>>
       ELSE /\ irq' = [irq EXCEPT ![c] = @ \cup ({"ENDED"} \ {active[c]})]
            /\ timer_start(c)
            /\ SetState(c, "WAITING")
  /\ UNCHANGED <<now, cells, interrupted, mem_arbit_status, active>>

Tick ==
  /\ \A c \in Cpu : enabled[c] => left[c] > -MaxLatency
  /\ now' = (now + 1) % Cycle
  /\ left' = [c \in Cpu |-> IF enabled[c] THEN left[c] - 1 ELSE left[c]]
  /\ UNCHANGED <<tdma_state, tdma_timer_target, enabled, guest, cells, interrupted>>

-----------------------------------------------------------------------------
(* The guests' hypercalls and interrupts. *)

SgisDone(c) == irq[c] = {} /\ active[c] = "none"
Believes(c, s) == mem_arbit_status' = [mem_arbit_status EXCEPT ![c] = s]

\* Answered ACK in the CPU's own slot and NACK outside of it; refused unless
\* the CPU is in its computing phase, and then the guest calls again.
BeginMemPhase(c) ==
  /\ c \in cells /\ mem_arbit_status[c] = "NONE" /\ SgisDone(c)
  /\ tdma_state[c] = "COMPUTING"
  /\ timer_start(c)
  /\ IF tdma_timer_target'[c] = "END"
       THEN SetState(c, "MEMORY") /\ Believes(c, "ACQUIRED")
       ELSE SetState(c, "WAITING") /\ Believes(c, "REQUESTED")
  /\ UNCHANGED <<now, cells, interrupted, irq, active>>

EndMemPhase(c) ==
  /\ mem_arbit_status[c] = "ACQUIRED" /\ active[c] = "none"
  /\ tdma_state[c] # "COMPUTING"
  /\ timer_disable(c)
  /\ SetState(c, "COMPUTING") /\ Believes(c, "NONE")
  /\ UNCHANGED <<now, cells, interrupted, irq, active>>

Acknowledge(c) ==
  /\ active[c] = "none"
  /\ \E i \in irq[c] : /\ active' = [active EXCEPT ![c] = i]
                       /\ irq' = [irq EXCEPT ![c] = @ \ {i}]
  /\ UNCHANGED <<now, cells, interrupted, hypervisor, mem_arbit_status>>

memory_phase_ended_ISR(c) ==
  /\ active[c] = "ENDED" /\ active' = [active EXCEPT ![c] = "none"]
  /\ Believes(c, IF mem_arbit_status[c] = "ACQUIRED" THEN "REQUESTED"
                                                     ELSE mem_arbit_status[c])
  /\ UNCHANGED <<now, cells, interrupted, hypervisor, irq>>

timer_isr(c) == timer_isr_start(c) \/ timer_isr_end(c)

-----------------------------------------------------------------------------
(* Cell management: whenever a CPU is reset its interrupts are dropped.     *)

\* arm_cpu_reset: the timer interrupt is disabled, or (tdma_setup_irq_target)
\* its compare value becomes one that is never reached; the TDMA state stays.
cpu_reset(c) ==
  /\ timer_disable(c)
  /\ Believes(c, "NONE")
  /\ irq' = [irq EXCEPT ![c] = {}] /\ active' = [active EXCEPT ![c] = "none"]

Interrupted(c) == IF tdma_state[c] = "COMPUTING" THEN interrupted ELSE interrupted \cup {c}

cell_start(c) ==
  /\ c \in cells
  /\ cpu_reset(c)
  /\ interrupted' = Interrupted(c)
  /\ UNCHANGED <<now, tdma_state, cells>>

\* The CPU is parked and goes back to the root cell; tdma_on_cell_destroy
\* runs on the CPU of the caller and stops the timer of that one.
cell_destroy(c) ==
  /\ c \in cells
  /\ cpu_reset(c)
  /\ cells' = cells \ {c} /\ interrupted' = Interrupted(c)
  /\ UNCHANGED <<now, tdma_state>>

\* Faulty: the CPU keeps the state it had in its former cell.
cell_create_state_kept(c) ==
  /\ c \notin cells
  /\ cells' = cells \cup {c} /\ interrupted' = interrupted \ {c}
  /\ UNCHANGED <<now, hypervisor, guest>>

cell_create(c) ==
  /\ c \notin cells
  /\ SetState(c, "COMPUTING")
  /\ tdma_timer_target' = [tdma_timer_target EXCEPT ![c] = "START"]
  /\ cells' = cells \cup {c} /\ interrupted' = interrupted \ {c}
  /\ UNCHANGED <<now, enabled, left, guest>>

Next ==
  \/ Tick
  \/ \E c \in Cpu : \/ timer_isr(c)
                    \/ BeginMemPhase(c) \/ EndMemPhase(c)
                    \/ Acknowledge(c) \/ memory_phase_ended_ISR(c)
                    \/ cell_start(c) \/ cell_destroy(c) \/ cell_create(c)

Spec == Init /\ [][Next]_vars

\* Time passes and the hypervisor serves its timer; a guest need not do
\* anything.
FairSpec == Spec /\ WF_vars(Tick) /\ \A c \in Cpu : WF_vars(timer_isr(c))

-----------------------------------------------------------------------------
\* The types of the variables; left is bounded by the farthest start of a
\* slot and by the latency.
TypeOK ==
  /\ now \in 0..(Cycle - 1)
  /\ tdma_state \in [Cpu -> {"COMPUTING", "WAITING", "MEMORY"}]
  /\ tdma_timer_target \in [Cpu -> {"START", "END"}]
  /\ enabled \in [Cpu -> BOOLEAN]
  /\ left \in [Cpu -> (-MaxLatency)..(255 * tdma_slot_period)]
  /\ mem_arbit_status \in [Cpu -> {"NONE", "REQUESTED", "ACQUIRED"}]
  /\ irq \in [Cpu -> SUBSET {"ENDED"}]
  /\ active \in [Cpu -> {"none", "ENDED"}]
  /\ cells \subseteq Cpu /\ interrupted \subseteq Cpu

\* A restart does not reset the TDMA state of the CPU: a cell that was stopped
\* within a request is refused from then on, until it is created anew.
Undisturbed == cells \ interrupted

(***************************************************************************)
(* "Slots are assigned by cell id (cell 1 has the first slot, cell 3 the   *)
(* last if tdma_num_slots == 3)" (tdma.c:41): a CPU is in the memory phase *)
(* only in its own slot, up to the latency of the interrupt that ends it.  *)
(***************************************************************************)
MemoryPhaseInSlot ==
  \A c \in Undisturbed :
    tdma_state[c] = "MEMORY" /\ ~Expired(c) => CurrentSlot = cell_id[c] - 1

(***************************************************************************)
(* No two guests are in their memory phases, whatever cells are stopped    *)
(* and started meanwhile: two guests that believe to have the memory are   *)
(* told apart by a slot end that is being signalled.                       *)
(***************************************************************************)
Stopping(c) == Expired(c) \/ "ENDED" \in irq[c] \cup {active[c]}

MutualExclusion ==
  \A c, d \in Cpu :
    /\ mem_arbit_status[c] = "ACQUIRED" /\ ~Stopping(c)
    /\ mem_arbit_status[d] = "ACQUIRED" /\ ~Stopping(d)
    => c = d

(***************************************************************************)
(* The timer runs for the start of a slot exactly while the CPU waits and  *)
(* for its end exactly in the memory phase.  So the message of tdma.c:520  *)
(* is never printed, and the interrupt handler never returns with the      *)
(* level interrupt still asserted.                                         *)
(***************************************************************************)
TimerMatchesState ==
  \A c \in Undisturbed :
    tdma_state[c] = IF ~enabled[c] THEN "COMPUTING"
                    ELSE IF tdma_timer_target[c] = "START" THEN "WAITING" ELSE "MEMORY"

(***************************************************************************)
(* The guest and the hypervisor agree on whether a request is open, so no  *)
(* hypercall of the guest is refused with INVALID (tdma.c:691, 702), an    *)
(* answer for which DPREM_begin_memory_phase has nothing but to try again. *)
(* Creating a cell again also makes up for one destroyed within a request. *)
(***************************************************************************)
HypercallsAccepted ==
  \A c \in Undisturbed : mem_arbit_status[c] = "NONE" <=> tdma_state[c] = "COMPUTING"

\* Timer, state and guest of a CPU are in step, so every timer interrupt and
\* every hypercall finds the state it is meant for.
RequestsInStep == TimerMatchesState /\ HypercallsAccepted

(***************************************************************************)
(* A waiting CPU comes to its slot, unless its guest ends the request      *)
(* because it had not yet seen that its slot was over, or is stopped.      *)
(***************************************************************************)
SlotComes ==
  \A c \in Cpu : (c \in Undisturbed /\ tdma_state[c] = "WAITING")
                   ~> (c \notin Undisturbed \/ tdma_state[c] # "WAITING")

(***************************************************************************)
(* "send SGI to core slot_start" (tdma.c:507): a guest whose CPU is in its *)
(* memory phase and that has no interrupt to serve knows it.               *)
(***************************************************************************)
SlotStartSignalled ==
  \A c \in Undisturbed :
    tdma_state[c] = "MEMORY" /\ SgisDone(c) => mem_arbit_status[c] = "ACQUIRED"
=============================================================================
