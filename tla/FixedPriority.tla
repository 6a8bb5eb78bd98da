---------------------------- MODULE FixedPriority ----------------------------
(***************************************************************************)
(* The fixed-priority memory arbitration of the hypervisor                 *)
(* (hypervisor/arch/arm64/fixed_priority.c): one memory token, requested   *)
(* and released by hypercalls of the guests, passed on by the priority of  *)
(* the guest's cell.  Cells come and go: the root cell's driver numbers    *)
(* them and the hypervisor moves CPUs between the root cell and            *)
(* single-CPU cells (the shape of every Erika configuration).              *)
(*                                                                         *)
(* Each action is one critical section of memory_lock.                     *)
(***************************************************************************)
EXTENDS Integers, FiniteSets

CONSTANTS
  Cpu,        \* physical CPUs, all owned by the root cell at first
  UIntMod     \* 2^w for the w bits of an unsigned int

VARIABLES
  memory_requests,  \* memory_requests[cpu]: requested priority
  token_owner,      \* CPU that owns the token, or TOKEN_FREE
  token_priority,   \* priority the token was taken with
  cell_id,          \* per_cpu(cpu)->cell->config->id
  told              \* the CPU's guest: parked, or what it was last told about the token

arbVars == <<memory_requests, token_owner, token_priority>>
vars == <<memory_requests, token_owner, token_priority, cell_id, told>>

MAX_PRIORITY == 6
TOKEN_FREE == 255
TOKEN_NULL_PRIORITY == 0
ROOT == 0
MAX_CELL_ID == 255

\* SGIs injected into the guests.
STARTED == 13
ENDED == 14

\* Room in memory_requests.
MAX_CPUS == 6

ASSUME CpuAssumption == Cpu \subseteq 0..(MAX_CPUS - 1)
ASSUME UIntAssumption == UIntMod \in Nat /\ UIntMod > MAX_PRIORITY + MAX_CELL_ID

-----------------------------------------------------------------------------
\* MAX_PRIORITY - id in unsigned arithmetic.
Priority(id) ==
  IF id <= MAX_PRIORITY THEN MAX_PRIORITY - id
                        ELSE UIntMod + MAX_PRIORITY - id

\* first_cpu(cell->cpu_set) for some cell in the list of cells.
IsFirstCpu(cpu) == \A d \in Cpu : cell_id[d] = cell_id[cpu] => cpu <= d

\* The walk over all cells that picks the largest request; the priorities
\* of different cells differ, so the order of the list does not matter.
Candidates(req) ==
  {c \in Cpu : /\ IsFirstCpu(c)
               /\ req[c] > TOKEN_NULL_PRIORITY
               /\ \A d \in Cpu : IsFirstCpu(d) => req[d] <= req[c]}

NextOwner(req) ==
  IF Candidates(req) = {} THEN TOKEN_FREE ELSE CHOOSE c \in Candidates(req) : TRUE

\* What the guest believes after an SGI: it ignores a STARTED it does not
\* wait for and an ENDED for a token it does not have.
AfterSgi(belief, sgi) ==
  IF sgi = STARTED /\ belief = "waiting" THEN "granted"
  ELSE IF sgi = ENDED /\ belief = "granted" THEN "waiting"
  ELSE belief

-----------------------------------------------------------------------------
Init ==
  /\ memory_requests = [c \in Cpu |-> TOKEN_NULL_PRIORITY]
  /\ token_owner = TOKEN_FREE
  /\ token_priority = TOKEN_NULL_PRIORITY
  /\ cell_id = [c \in Cpu |-> ROOT]
  /\ told = [c \in Cpu |-> "none"]

TakesToken_always(cpu) == TRUE
Revoked_nobody(cpu) == {}

\* The new owner after a request, and the CPU that is told to stop.
TakesToken(cpu) == Priority(cell_id[cpu]) > token_priority
Revoked(cpu) ==
  IF TakesToken(cpu) /\ token_owner \notin {TOKEN_FREE, cpu} THEN {token_owner} ELSE {}

request_memory(cpu) ==
  /\ memory_requests' = [memory_requests EXCEPT ![cpu] = Priority(cell_id[cpu])]
  /\ IF TakesToken(cpu)
       THEN token_owner' = cpu /\ token_priority' = Priority(cell_id[cpu])
       ELSE UNCHANGED <<token_owner, token_priority>>

\* Hypercall BEGIN_MEM_PHASE: the answer is ACK when the caller owns the
\* token after the request, NACK otherwise.
BeginMemPhase(cpu) ==
  /\ cell_id[cpu] # ROOT
  /\ told[cpu] # "parked"
  /\ request_memory(cpu)
  /\ told' = [c \in Cpu |->
                IF c = cpu THEN IF token_owner' = cpu THEN "granted" ELSE "waiting"
                ELSE IF c \in Revoked(cpu) THEN AfterSgi(told[c], ENDED)
                ELSE told[c]]
  /\ UNCHANGED cell_id

\* The requests with the one of cpu withdrawn.
Without(cpu) == [memory_requests EXCEPT ![cpu] = TOKEN_NULL_PRIORITY]

disable_memory_request_no_handover(cpu) ==
  /\ memory_requests' = Without(cpu)
  /\ token_owner' = IF token_owner = cpu THEN TOKEN_FREE ELSE token_owner
  /\ token_priority' = IF token_owner = cpu THEN TOKEN_NULL_PRIORITY ELSE token_priority

disable_memory_request(cpu) ==
  /\ memory_requests' = Without(cpu)
  /\ IF token_owner = cpu
       THEN LET next == NextOwner(Without(cpu)) IN
              /\ token_owner' = next
              /\ token_priority' = IF next = TOKEN_FREE THEN TOKEN_NULL_PRIORITY
                                                        ELSE Without(cpu)[next]
       ELSE UNCHANGED <<token_owner, token_priority>>

\* The STARTED that disable_memory_request sends to the CPU it passes the
\* token to; cpu itself is left in the given state.
ToldAfterDisable(cpu, state) ==
  [c \in Cpu |-> IF c = cpu THEN state
                 ELSE IF token_owner = cpu /\ c = token_owner' THEN AfterSgi(told[c], STARTED)
                 ELSE told[c]]

\* Hypercall END_MEM_PHASE.
EndMemPhase(cpu) ==
  /\ cell_id[cpu] # ROOT
  /\ told[cpu] # "parked"
  /\ disable_memory_request(cpu)
  /\ told' = ToldAfterDisable(cpu, "none")
  /\ UNCHANGED cell_id

\* arch_park_cpu, for cells being created, made loadable or destroyed: the
\* hook of the arbitration withdraws the request of the suspended CPU.
arch_park_cpu_without_hook(cpu) ==
  /\ told' = [told EXCEPT ![cpu] = "parked"]
  /\ UNCHANGED arbVars

arch_park_cpu(cpu) ==
  /\ disable_memory_request(cpu)
  /\ told' = ToldAfterDisable(cpu, "parked")

SetLoadable(cpu) ==
  /\ cell_id[cpu] # ROOT
  /\ arch_park_cpu(cpu)
  /\ UNCHANGED cell_id

\* cell_start resets the CPU, parked or running; arch_reset_cpu has no hook,
\* so a request and the token survive the restart.
CellStart(cpu) ==
  /\ cell_id[cpu] # ROOT
  /\ told' = [told EXCEPT ![cpu] = IF memory_requests[cpu] = TOKEN_NULL_PRIORITY
                                     THEN "none" ELSE "restarted"]
  /\ UNCHANGED <<arbVars, cell_id>>

\* The driver gives a new cell the lowest free id, counting up past the ids
\* in use; the hypervisor refuses ids above MAX_CELL_ID and never takes the
\* last CPU of the root cell.
UsedIds == {cell_id[c] : c \in Cpu}
LowestFreeId_number_of_cells(id) == id = Cardinality(UsedIds)
LowestFreeId(id) == id \notin UsedIds /\ \A j \in ROOT..(id - 1) : j \in UsedIds

\* The CPU leaves the root cell parked, until its cell is started.
CellCreate(cpu) ==
  /\ cell_id[cpu] = ROOT
  /\ told[cpu] = "none"
  /\ \E d \in Cpu \ {cpu} : cell_id[d] = ROOT
  /\ arch_park_cpu(cpu)
  /\ \E id \in {used + 1 : used \in UsedIds} :
       /\ LowestFreeId(id)
       /\ id <= MAX_CELL_ID
       /\ cell_id' = [cell_id EXCEPT ![cpu] = id]

\* The CPU goes back to the root cell parked.
CellDestroy(cpu) ==
  /\ cell_id[cpu] # ROOT
  /\ arch_park_cpu(cpu)
  /\ cell_id' = [cell_id EXCEPT ![cpu] = ROOT]

\* PSCI CPU_ON by the root cell's kernel, which the driver issues for the
\* CPUs of a destroyed cell.
CpuOn(cpu) ==
  /\ cell_id[cpu] = ROOT
  /\ told[cpu] = "parked"
  /\ told' = [told EXCEPT ![cpu] = "none"]
  /\ UNCHANGED <<arbVars, cell_id>>

Next ==
  \E cpu \in Cpu :
    \/ BeginMemPhase(cpu)
    \/ EndMemPhase(cpu)
    \/ SetLoadable(cpu)
    \/ CellStart(cpu)
    \/ CellCreate(cpu)
    \/ CellDestroy(cpu)
    \/ CpuOn(cpu)

Spec == Init /\ [][Next]_vars

-----------------------------------------------------------------------------
\* The types of the five variables.
TypeOK ==
  /\ memory_requests \in [Cpu -> Nat]
  /\ token_owner \in Cpu \cup {TOKEN_FREE}
  /\ token_priority \in Nat
  /\ cell_id \in [Cpu -> ROOT..MAX_CELL_ID]
  /\ told \in [Cpu -> {"parked", "none", "waiting", "granted", "restarted"}]

\* Different cells have different ids: only root cell CPUs share theirs.
DistinctIds == \A c, d \in Cpu : cell_id[c] = cell_id[d] /\ cell_id[c] # ROOT => c = d

\* A recorded request carries the priority of the cell the CPU belongs to
\* now, however often the CPU was moved, and root CPUs have none: creating
\* and destroying cells leaves no stale request behind.
RequestsOfLiveCells ==
  \A c \in Cpu : memory_requests[c] # TOKEN_NULL_PRIORITY =>
    cell_id[c] # ROOT /\ memory_requests[c] = Priority(cell_id[c])

\* token_owner, token_priority and memory_requests never drift apart: the
\* token is free exactly at the null priority, and is otherwise held with
\* the priority its owner has on record.
TokenConsistent ==
  /\ token_owner = TOKEN_FREE <=> token_priority = TOKEN_NULL_PRIORITY
  /\ token_owner # TOKEN_FREE => memory_requests[token_owner] = token_priority

\* No request on record outranks the token; in particular the token is never
\* free while a request is on record.
OwnerIsHighest == \A c \in Cpu : memory_requests[c] <= token_priority

\* Answers and SGIs keep the guests informed: a guest that was told it has
\* the token owns it, one that was told to wait does not own it, and both the
\* owner and every other CPU with a request on record were told so unless
\* their cell has been restarted since.
GuestsInformed ==
  \A c \in Cpu :
    /\ told[c] = "granted" => token_owner = c
    /\ told[c] = "waiting" => token_owner # c /\ memory_requests[c] # TOKEN_NULL_PRIORITY
    /\ token_owner = c => told[c] \in {"granted", "restarted"}
    /\ memory_requests[c] # TOKEN_NULL_PRIORITY => told[c] \notin {"none", "parked"}

\* With ids chosen by the driver, MAX_PRIORITY - id neither reaches the null
\* priority nor wraps around on a machine of at most MAX_CPUS CPUs, so
\* every cell can get the token and a lower id means a higher priority.
PrioritiesInRange ==
  \A c \in Cpu : cell_id[c] # ROOT => Priority(cell_id[c]) \in 1..(MAX_PRIORITY - 1)

\* Every cell has a priority of its own that can win the token, however often
\* the driver has given out the ids of destroyed cells again.
OwnPriority == DistinctIds /\ PrioritiesInRange

\* The records of the arbitration agree, with each other and with the cells
\* that exist: the token is held by the highest request of a live cell, and
\* with that request's priority.
RecordsAgree == RequestsOfLiveCells /\ TokenConsistent /\ OwnerIsHighest

\* The token leaves an owner that still requests it only for a CPU of
\* strictly higher priority, and goes to a waiting CPU only when released.
PreemptedOnlyByHigher ==
  [][ \A c \in Cpu :
        token_owner = c /\ token_owner' # c /\ memory_requests'[c] # TOKEN_NULL_PRIORITY =>
          token_owner' \in Cpu /\ memory_requests'[token_owner'] > memory_requests'[c] ]_vars

\* The arbitration implements the abstract token.
Token == INSTANCE MemoryToken WITH
  Client <- Cpu, Nobody <- TOKEN_FREE, rank <- memory_requests, holder <- token_owner
ImplementsToken == Token!TokenSpec
=============================================================================
