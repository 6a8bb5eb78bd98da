---------------------------- MODULE TimerProofs ----------------------------
(***************************************************************************)
(* Proofs about what the two timers drive: the slots of the TDMA           *)
(* arbitration in the hypervisor (Tdma), for every number of cells and     *)
(* slots, every length of a slot and every latency shorter than a slot;    *)
(* and the periodic release of the tasks in Erika (TaskRelease), for any   *)
(* number of tasks with any periods.                                       *)
(***************************************************************************)
EXTENDS Tdma, TaskRelease, WellFoundedInduction, TLAPS

-----------------------------------------------------------------------------
(* The slots of the TDMA arbitration (Tdma). *)

\* The slot of a CPU begins at this position of the cycle.
Start(c) == SlotId(c) * tdma_slot_period
End(c) == Start(c) + tdma_slot_period

\* A running timer is set to the next start or to the end of the CPU's slot,
\* or is late by less than a slot.
OnTime(c) ==
  enabled[c] =>
    IF tdma_timer_target[c] = "START"
      THEN \/ now + left[c] = Start(c)
           \/ left[c] > 0 /\ now + left[c] = Start(c) + Cycle
      ELSE \/ now + left[c] = End(c) /\ Start(c) <= now
           \/ left[c] <= 0 /\ now + left[c] = 0 /\ End(c) = Cycle

\* The state, the timer and the guest of a CPU agree; a guest that believes to
\* be in its memory phase is, unless it is about to be told otherwise; and a
\* disturbed CPU has neither a request nor a timer.
InStep(c) ==
  /\ c \in Undisturbed =>
       /\ tdma_state[c] = "COMPUTING" => ~enabled[c] /\ mem_arbit_status[c] = "NONE"
       /\ tdma_state[c] = "WAITING" => enabled[c] /\ tdma_timer_target[c] = "START"
       /\ tdma_state[c] = "MEMORY" => enabled[c] /\ tdma_timer_target[c] = "END"
       /\ enabled[c] => mem_arbit_status[c] # "NONE"
  /\ mem_arbit_status[c] = "ACQUIRED" /\ "ENDED" \notin irq[c] /\ active[c] # "ENDED"
       => tdma_state[c] = "MEMORY"
  /\ c \notin Undisturbed => mem_arbit_status[c] = "NONE" /\ ~enabled[c]
  /\ c \in interrupted => tdma_state[c] # "COMPUTING"

IInv == TypeOK /\ \A c \in Cpu : OnTime(c) /\ InStep(c)

-----------------------------------------------------------------------------
(* Slots and positions.  With these facts everything below is linear.       *)

\* Products of naturals are ordered like their factors.
LEMMA Product == ASSUME NEW a \in Nat, NEW b \in Nat, NEW p \in Nat, a <= b
                 PROVE  a * p \in Nat /\ b * p \in Nat /\ a * p <= b * p
  <1> DEFINE d == b - a
  <1>1. d \in Nat /\ b = a + d BY SMT
  <1>2. d * p \in Nat /\ a * p \in Nat /\ b * p \in Nat BY <1>1, SMT
  <1>3. b * p = a * p + d * p BY <1>1, SMT
  <1> QED BY <1>2, <1>3, SMT

\* The slots of the cells lie within the cycle, which has at least two.
LEMMA SlotInCycle ==
  ASSUME NEW c \in Cpu
  PROVE  /\ SlotId(c) \in Nat /\ SlotId(c) = cell_id[c] - 1
         /\ tdma_slot_period \in Nat /\ tdma_slot_period > 0
         /\ Start(c) \in Nat /\ Cycle \in Nat
         /\ End(c) = (SlotId(c) + 1) * tdma_slot_period
         /\ End(c) = Cycle \/ End(c) + tdma_slot_period <= Cycle
         /\ End(c) <= Cycle /\ 2 * tdma_slot_period <= Cycle /\ Cycle <= 127 * tdma_slot_period
  <1> DEFINE p == tdma_slot_period
             n == tdma_num_slots
             s == SlotId(c)
  <1>1. p \in Nat /\ p > 0 /\ n \in Nat /\ 2 <= n /\ n <= 127 /\ cell_id[c] \in Nat
        /\ cell_id[c] > 0 /\ cell_id[c] <= n
    BY TdmaAssumption, SlotAssumption, SMT
  <1>2. s \in Nat /\ s = cell_id[c] - 1 /\ s + 1 <= n
    BY <1>1, SMT DEF SlotId
  <1>3. s * p \in Nat /\ (s + 1) * p = s * p + p
    BY <1>1, <1>2, SMT
  <1>4. (s + 1) * p <= n * p /\ n * p \in Nat
    BY <1>1, <1>2, Product, SMT
  <1>5. 2 * p <= n * p
    BY <1>1, Product, SMT
  <1>6. n * p <= 127 * p
    BY <1>1, Product, SMT
  <1>7. (s + 1) * p = n * p \/ (s + 1) * p + p <= n * p
    <2>1. CASE s + 1 = n BY <2>1
    <2>2. CASE s + 2 <= n
      <3>1. (s + 2) * p <= n * p BY <1>1, <1>2, <2>2, Product, SMT
      <3>2. (s + 2) * p = (s + 1) * p + p BY <1>1, <1>2, SMT
      <3> QED BY <3>1, <3>2
    <2> QED BY <1>1, <1>2, <2>1, <2>2, SMT
  <1> QED BY <1>1, <1>2, <1>3, <1>4, <1>5, <1>6, <1>7, SMT DEF Start, End, Cycle

\* The slot of a position, told from the position.
LEMMA SlotOfNow ==
  ASSUME NEW c \in Cpu, now \in Nat
  PROVE  /\ CurrentSlot = SlotId(c) <=> Start(c) <= now /\ now < End(c)
         /\ CurrentSlot < SlotId(c) <=> now < Start(c)
         /\ CurrentSlot \in Nat
  <1> DEFINE p == tdma_slot_period
             s == SlotId(c)
             q == CurrentSlot
  <1>1. s \in Nat /\ p \in Nat /\ p > 0 /\ Start(c) = s * p /\ End(c) = (s + 1) * p
    BY SlotInCycle, SMT DEF Start
  <1>2. q \in Nat /\ q * p <= now /\ now < (q + 1) * p
    <2>1. q \in Nat /\ q = now \div p BY <1>1, SMT DEF CurrentSlot
    <2>2. now = p * (now \div p) + (now % p) /\ now % p \in 0..(p - 1)
      BY <1>1, SMT
    <2>3. p * q = q * p /\ (q + 1) * p = q * p + p BY <1>1, <2>1, SMT
    <2> QED BY <1>1, <2>1, <2>2, <2>3, SMT
  <1>3. CASE q = s
    BY <1>1, <1>2, <1>3, SMT
  <1>4. CASE q < s
    <2>1. (q + 1) * p <= s * p BY <1>1, <1>2, <1>4, Product, SMT
    <2> QED BY <1>1, <1>2, <1>4, <2>1, SMT
  <1>5. CASE q > s
    <2>1. (s + 1) * p <= q * p /\ s * p <= (s + 1) * p BY <1>1, <1>2, <1>5, Product, SMT
    <2> QED BY <1>1, <1>2, <1>5, <2>1, SMT
  <1> QED BY <1>1, <1>2, <1>3, <1>4, <1>5, SMT

-----------------------------------------------------------------------------
(* What the invariant gives. *)

\* The states and timers the invariant allows are those the properties name.
LEMMA Agreement == IInv => RequestsInStep
  <1> SUFFICES ASSUME IInv, NEW c \in Undisturbed
               PROVE  /\ tdma_state[c] =
                           IF ~enabled[c] THEN "COMPUTING"
                           ELSE IF tdma_timer_target[c] = "START" THEN "WAITING"
                                                                  ELSE "MEMORY"
                      /\ mem_arbit_status[c] = "NONE" <=> tdma_state[c] = "COMPUTING"
    BY DEF RequestsInStep, TimerMatchesState, HypercallsAccepted
  <1>1. c \in Cpu /\ tdma_state[c] \in {"COMPUTING", "WAITING", "MEMORY"} /\ InStep(c)
    BY DEF IInv, TypeOK, Undisturbed
  <1>2. CASE tdma_state[c] = "COMPUTING" BY <1>1, <1>2 DEF InStep
  <1>3. CASE tdma_state[c] = "WAITING" BY <1>1, <1>3 DEF InStep
  <1>4. CASE tdma_state[c] = "MEMORY" BY <1>1, <1>4 DEF InStep
  <1> QED BY <1>1, <1>2, <1>3, <1>4

\* In a memory phase whose end has not come the position is in the slot.
LEMMA InSlot ==
  ASSUME IInv, NEW c \in Undisturbed, tdma_state[c] = "MEMORY", ~Expired(c)
  PROVE  CurrentSlot = SlotId(c) /\ SlotId(c) = cell_id[c] - 1
  <1>1. c \in Cpu /\ InStep(c) /\ OnTime(c) BY DEF IInv, TypeOK, Undisturbed
  <1>2. enabled[c] /\ tdma_timer_target[c] = "END" BY <1>1 DEF InStep
  <1>3. left[c] > 0 /\ left[c] \in Int /\ now \in Nat
    <2>1. left[c] \in Int /\ now \in Nat
      BY <1>1, SlotInCycle, TdmaAssumption, SMT DEF IInv, TypeOK
    <2>2. ~(left[c] <= 0) BY <1>2 DEF Expired
    <2> QED BY <2>1, <2>2, SMT
  <1>4. \/ now + left[c] = End(c) /\ Start(c) <= now
        \/ left[c] <= 0 /\ now + left[c] = 0 /\ End(c) = Cycle
    BY <1>1, <1>2 DEF OnTime
  <1>5. Start(c) <= now /\ now < End(c)
    BY <1>1, <1>3, <1>4, SlotInCycle, SMT
  <1> QED BY <1>1, <1>3, <1>5, SlotOfNow, SlotInCycle

\* Memory phases are in their slots.
LEMMA PhasesInSlots == IInv => MemoryPhaseInSlot
  BY InSlot DEF MemoryPhaseInSlot

\* Two guests in their memory phases would be in the same slot.
LEMMA Exclusion == IInv => MutualExclusion
  <1> SUFFICES ASSUME IInv, NEW c \in Cpu, NEW d \in Cpu,
                      mem_arbit_status[c] = "ACQUIRED", ~Stopping(c),
                      mem_arbit_status[d] = "ACQUIRED", ~Stopping(d)
               PROVE  c = d
    BY DEF MutualExclusion
  <1>1. ASSUME NEW e \in Cpu, mem_arbit_status[e] = "ACQUIRED", ~Stopping(e)
        PROVE  cell_id[e] - 1 = CurrentSlot
    <2>1. InStep(e) BY DEF IInv
    <2>2. e \in Undisturbed /\ tdma_state[e] = "MEMORY" /\ ~Expired(e)
      BY <1>1, <2>1 DEF InStep, Stopping
    <2> QED BY <2>2, InSlot
  <1>2. cell_id[c] - 1 = cell_id[d] - 1 BY <1>1
  <1>3. cell_id[c] = cell_id[d] BY <1>2, TdmaAssumption, SMT
  <1> QED BY <1>3, TdmaAssumption

-----------------------------------------------------------------------------
(* The steps. *)

\* What a step leaves of a CPU.
Kept(d) ==
  /\ tdma_state'[d] = tdma_state[d] /\ tdma_timer_target'[d] = tdma_timer_target[d]
  /\ enabled'[d] = enabled[d] /\ left'[d] = left[d]
  /\ mem_arbit_status'[d] = mem_arbit_status[d]
  /\ irq'[d] = irq[d] /\ active'[d] = active[d]
  /\ d \in cells' <=> d \in cells
  /\ d \in interrupted' <=> d \in interrupted

\* A step of one CPU does not disturb the invariant of another.
LEMMA Frame ==
  ASSUME NEW d \in Cpu, OnTime(d), InStep(d), now' = now, Kept(d)
  PROVE  OnTime(d)' /\ InStep(d)'
  <1>1. OnTime(d)' BY DEF OnTime, Kept, Start, End, SlotId, Cycle
  <1>2. InStep(d)' BY DEF InStep, Kept, Undisturbed
  <1> QED BY <1>1, <1>2

\* It is enough to look at the CPU whose step it is.
LEMMA StepOf ==
  ASSUME IInv, NEW c \in Cpu, now' = now, TypeOK', OnTime(c)', InStep(c)',
         \A d \in Cpu \ {c} : Kept(d)
  PROVE  IInv'
  <1>1. ASSUME NEW d \in Cpu PROVE OnTime(d)' /\ InStep(d)'
    <2>1. CASE d = c BY <2>1
    <2>2. CASE d # c BY <2>2, Frame DEF IInv
    <2> QED BY <2>1, <2>2
  <1> QED BY <1>1 DEF IInv

\* tdma_timer_start sets the timer to a position in the future, which is the
\* end of the slot if it is called in the slot and the next start otherwise.
LEMMA TimerStart ==
  ASSUME TypeOK, NEW c \in Cpu, timer_start(c), now' = now
  PROVE  /\ tdma_timer_target' \in [Cpu -> {"START", "END"}]
         /\ enabled' \in [Cpu -> BOOLEAN]
         /\ left' \in [Cpu -> (-MaxLatency)..(255 * tdma_slot_period)]
         /\ enabled'[c]
         /\ tdma_timer_target'[c] = "END" <=> CurrentSlot = SlotId(c)
         /\ OnTime(c)'
         /\ \A d \in Cpu \ {c} : /\ tdma_timer_target'[d] = tdma_timer_target[d]
                                 /\ enabled'[d] = enabled[d] /\ left'[d] = left[d]
  <1> DEFINE cmp == IF CurrentSlot = SlotId(c)
                      THEN (SlotId(c) + 1) * tdma_slot_period
                      ELSE SlotId(c) * tdma_slot_period
                             + IF CurrentSlot < SlotId(c) THEN 0 ELSE Cycle
  <1>1. /\ now \in Nat /\ now < Cycle
        /\ MaxLatency \in Nat /\ MaxLatency < tdma_slot_period
    BY SlotInCycle, TdmaAssumption, SMT DEF TypeOK
  <1>2. cmp = IF Start(c) <= now /\ now < End(c) THEN End(c)
              ELSE IF now < Start(c) THEN Start(c) ELSE Start(c) + Cycle
    BY <1>1, SlotInCycle, SlotOfNow, SMT DEF Start
  <1>3. cmp - now \in 1..(255 * tdma_slot_period)
    <2> HIDE DEF cmp
    <2> QED BY <1>1, <1>2, SlotInCycle, SMT DEF End
  <1>4. cmp - now \in (-MaxLatency)..(255 * tdma_slot_period)
    <2> HIDE DEF cmp
    <2> QED BY <1>1, <1>3, SMT
  <1>5. left' = [left EXCEPT ![c] = cmp - now] BY DEF timer_start
  <1> HIDE DEF cmp
  <1>6. /\ left' \in [Cpu -> (-MaxLatency)..(255 * tdma_slot_period)]
        /\ left'[c] = cmp - now
        /\ \A d \in Cpu \ {c} : left'[d] = left[d]
    BY <1>4, <1>5 DEF TypeOK
  <1>7. /\ tdma_timer_target' \in [Cpu -> {"START", "END"}]
        /\ tdma_timer_target'[c] = IF CurrentSlot = SlotId(c) THEN "END" ELSE "START"
        /\ \A d \in Cpu \ {c} : tdma_timer_target'[d] = tdma_timer_target[d]
    BY DEF timer_start, TypeOK
  <1>8. /\ enabled' \in [Cpu -> BOOLEAN] /\ enabled'[c]
        /\ \A d \in Cpu \ {c} : enabled'[d] = enabled[d]
    BY DEF timer_start, TypeOK
  <1>9. OnTime(c)'
    <2>1. CurrentSlot = SlotId(c) <=> Start(c) <= now /\ now < End(c)
      BY <1>1, SlotOfNow
    <2>2. Start(c)' = Start(c) /\ End(c)' = End(c) /\ Cycle' = Cycle
      BY DEF Start, End, SlotId, Cycle
    <2>3. CASE CurrentSlot = SlotId(c)
      <3>1. tdma_timer_target'[c] = "END" /\ now + left'[c] = End(c) /\ Start(c) <= now
        BY <1>1, <1>2, <1>6, <1>7, <2>1, <2>3, SlotInCycle, SMT DEF End
      <3> QED BY <2>2, <3>1 DEF OnTime
    <2>4. CASE CurrentSlot # SlotId(c)
      <3>1. /\ tdma_timer_target'[c] = "START" /\ left'[c] > 0
            /\ \/ now + left'[c] = Start(c)
               \/ now + left'[c] = Start(c) + Cycle
        BY <1>1, <1>2, <1>3, <1>6, <1>7, <2>1, <2>4, SlotInCycle, SMT DEF End
      <3> QED BY <2>2, <3>1 DEF OnTime
    <2> QED BY <2>3, <2>4
  <1> QED BY <1>6, <1>7, <1>8, <1>9

\* The invariant holds initially.
LEMMA InitIInv == Init => IInv
  <1> SUFFICES ASSUME Init PROVE IInv OBVIOUS
  <1>1. TypeOK
    <2>1. MaxLatency \in Nat /\ tdma_slot_period \in Nat
      BY TdmaAssumption, SMT
    <2>2. 0 \in (-MaxLatency)..(255 * tdma_slot_period) BY <2>1, SMT
    <2> QED BY <2>2 DEF Init, TypeOK
  <1>2. ASSUME NEW c \in Cpu PROVE OnTime(c) /\ InStep(c)
    BY DEF Init, OnTime, InStep, Undisturbed
  <1> QED BY <1>1, <1>2 DEF IInv

\* The interrupt at the start of a slot comes in that slot: the latency is
\* shorter than a slot.
LEMMA TimerIsrStart ==
  ASSUME IInv, NEW c \in Cpu, timer_isr_start(c)
  PROVE  IInv'
  <1>1. /\ TypeOK /\ OnTime(c) /\ InStep(c) /\ now' = now
        /\ enabled[c] /\ left[c] <= 0 /\ tdma_timer_target[c] = "START"
    BY DEF IInv, timer_isr_start, Expired
  <1>2. c \in Undisturbed /\ tdma_state[c] = "WAITING"
    BY <1>1 DEF InStep, TypeOK
  <1>3. timer_start(c) /\ tdma_state' = [tdma_state EXCEPT ![c] = "MEMORY"]
    BY <1>2 DEF timer_isr_start, SetState
  <1>4. CurrentSlot = SlotId(c)
    <2>1. /\ now \in Nat /\ left[c] \in Int /\ -MaxLatency <= left[c]
          /\ MaxLatency \in Nat /\ MaxLatency < tdma_slot_period
      BY <1>1, SlotInCycle, TdmaAssumption, SMT DEF TypeOK
    <2>2. now + left[c] = Start(c)
      BY <1>1, <2>1, SMT DEF OnTime
    <2>3. Start(c) <= now /\ now < End(c)
      BY <1>1, <2>1, <2>2, SlotInCycle, SMT DEF End
    <2> QED BY <2>1, <2>3, SlotOfNow
  <1>5. TypeOK'
    BY <1>1, <1>3, TimerStart DEF TypeOK, timer_isr_start, guest, Cycle
  <1>6. OnTime(c)' /\ enabled'[c] /\ tdma_timer_target'[c] = "END"
    BY <1>1, <1>3, <1>4, TimerStart
  <1>7. InStep(c)'
    BY <1>1, <1>2, <1>3, <1>6 DEF InStep, Undisturbed, TypeOK, timer_isr_start, guest
  <1>8. \A d \in Cpu \ {c} : Kept(d)
    BY <1>1, <1>3, TimerStart DEF Kept, TypeOK, timer_isr_start, guest
  <1> QED BY <1>1, <1>5, <1>6, <1>7, <1>8, StepOf

\* The interrupt at the end of a slot comes in another slot: the latency is
\* shorter than a slot, and there are at least two.
LEMMA TimerIsrEnd ==
  ASSUME IInv, NEW c \in Cpu, timer_isr_end(c)
  PROVE  IInv'
  <1>1. /\ TypeOK /\ OnTime(c) /\ InStep(c) /\ now' = now
        /\ enabled[c] /\ left[c] <= 0 /\ tdma_timer_target[c] = "END"
    BY DEF IInv, timer_isr_end, Expired
  <1>2. c \in Undisturbed /\ tdma_state[c] = "MEMORY"
    BY <1>1 DEF InStep, TypeOK
  <1>3. /\ timer_start(c) /\ tdma_state' = [tdma_state EXCEPT ![c] = "WAITING"]
        /\ irq' = [irq EXCEPT ![c] = @ \cup ({"ENDED"} \ {active[c]})]
    BY <1>2 DEF timer_isr_end, SetState
  <1>4. CurrentSlot # SlotId(c)
    <2>1. /\ now \in Nat /\ now < Cycle /\ left[c] \in Int /\ -MaxLatency <= left[c]
          /\ MaxLatency \in Nat /\ MaxLatency < tdma_slot_period
      BY <1>1, SlotInCycle, TdmaAssumption, SMT DEF TypeOK
    <2>2. now + left[c] = End(c) \/ (now + left[c] = 0 /\ End(c) = Cycle)
      BY <1>1 DEF OnTime
    <2>3. ~(Start(c) <= now /\ now < End(c))
      BY <1>1, <2>1, <2>2, SlotInCycle, SMT DEF End
    <2> QED BY <2>1, <2>3, SlotOfNow
  <1>5. TypeOK'
    BY <1>1, <1>3, TimerStart DEF TypeOK, timer_isr_end, Cycle
  <1>6. OnTime(c)' /\ enabled'[c] /\ tdma_timer_target'[c] = "START"
    <2>1. OnTime(c)' /\ enabled'[c] /\ tdma_timer_target'[c] # "END"
      BY <1>1, <1>3, <1>4, TimerStart
    <2> QED BY <1>5, <2>1 DEF TypeOK
  <1>7. InStep(c)'
    <2>1. "ENDED" \in irq'[c] \/ active'[c] = "ENDED"
      BY <1>1, <1>3 DEF TypeOK, timer_isr_end
    <2> QED BY <1>1, <1>2, <1>3, <1>6, <2>1 DEF InStep, Undisturbed, TypeOK, timer_isr_end
  <1>8. \A d \in Cpu \ {c} : Kept(d)
    BY <1>1, <1>3, TimerStart DEF Kept, TypeOK, timer_isr_end
  <1> QED BY <1>1, <1>5, <1>6, <1>7, <1>8, StepOf

\* A request starts in the state that its answer tells the guest.
LEMMA Begin ==
  ASSUME IInv, NEW c \in Cpu, BeginMemPhase(c)
  PROVE  IInv'
  <1>1. TypeOK /\ InStep(c) /\ now' = now /\ timer_start(c) /\ c \in cells
        /\ tdma_state[c] = "COMPUTING"
    BY DEF IInv, BeginMemPhase
  <1>2. c \in Undisturbed BY <1>1 DEF InStep, Undisturbed
  <1>3. /\ OnTime(c)' /\ enabled'[c]
        /\ tdma_timer_target' \in [Cpu -> {"START", "END"}]
    BY <1>1, TimerStart
  <1>4. \E s \in {"MEMORY", "WAITING"}, m \in {"ACQUIRED", "REQUESTED"} :
          /\ tdma_state' = [tdma_state EXCEPT ![c] = s]
          /\ mem_arbit_status' = [mem_arbit_status EXCEPT ![c] = m]
          /\ tdma_timer_target'[c] = IF s = "MEMORY" THEN "END" ELSE "START"
          /\ s = "MEMORY" <=> m = "ACQUIRED"
    BY <1>3 DEF BeginMemPhase, SetState, Believes
  <1>5. TypeOK'
    BY <1>1, <1>4, TimerStart DEF TypeOK, BeginMemPhase, Cycle
  <1>6. InStep(c)'
    BY <1>1, <1>2, <1>3, <1>4 DEF InStep, Undisturbed, TypeOK, BeginMemPhase
  <1>7. \A d \in Cpu \ {c} : Kept(d)
    BY <1>1, <1>4, TimerStart DEF Kept, TypeOK, BeginMemPhase
  <1> QED BY <1>1, <1>3, <1>5, <1>6, <1>7, StepOf

\* What a disabled timer leaves to show.
LEMMA TimerDisable ==
  ASSUME TypeOK, NEW c \in Cpu, timer_disable(c)
  PROVE  /\ tdma_timer_target' \in [Cpu -> {"START", "END"}]
         /\ enabled' \in [Cpu -> BOOLEAN]
         /\ left' \in [Cpu -> (-MaxLatency)..(255 * tdma_slot_period)]
         /\ ~enabled'[c] /\ OnTime(c)'
         /\ \A d \in Cpu \ {c} : /\ tdma_timer_target'[d] = tdma_timer_target[d]
                                 /\ enabled'[d] = enabled[d] /\ left'[d] = left[d]
  <1>1. MaxLatency \in Nat /\ tdma_slot_period \in Nat
    BY TdmaAssumption, SMT
  <1>2. 0 \in (-MaxLatency)..(255 * tdma_slot_period) BY <1>1, SMT
  <1>3. enabled' \in [Cpu -> BOOLEAN] /\ ~enabled'[c]
    BY DEF timer_disable, TypeOK
  <1>4. OnTime(c)' BY <1>3 DEF OnTime
  <1> QED BY <1>2, <1>3, <1>4 DEF timer_disable, TypeOK

\* The end of a request stops the timer.
LEMMA EndPhase ==
  ASSUME IInv, NEW c \in Cpu, EndMemPhase(c)
  PROVE  IInv'
  <1>1. /\ TypeOK /\ InStep(c) /\ now' = now /\ timer_disable(c)
        /\ mem_arbit_status[c] = "ACQUIRED"
        /\ tdma_state' = [tdma_state EXCEPT ![c] = "COMPUTING"]
        /\ mem_arbit_status' = [mem_arbit_status EXCEPT ![c] = "NONE"]
        /\ UNCHANGED <<cells, interrupted, irq, active>>
    BY DEF IInv, EndMemPhase, SetState, Believes
  <1>2. c \in Undisturbed BY <1>1 DEF InStep
  <1>3. TypeOK' BY <1>1, TimerDisable DEF TypeOK, Cycle
  <1>4. OnTime(c)' /\ ~enabled'[c] BY <1>1, TimerDisable
  <1>5. InStep(c)' BY <1>1, <1>2, <1>4 DEF InStep, Undisturbed, TypeOK
  <1>6. \A d \in Cpu \ {c} : Kept(d) BY <1>1, TimerDisable DEF Kept, TypeOK
  <1> QED BY <1>1, <1>3, <1>4, <1>5, <1>6, StepOf

\* An acknowledged interrupt is still known of while it is served.
LEMMA Acknowledged ==
  ASSUME IInv, NEW c \in Cpu, Acknowledge(c)
  PROVE  IInv'
  <1>1. /\ TypeOK /\ OnTime(c) /\ InStep(c)
        /\ UNCHANGED <<now, cells, interrupted, tdma_state, tdma_timer_target,
                       enabled, left, mem_arbit_status>>
    BY DEF IInv, Acknowledge, hypervisor
  <1>2. PICK i \in irq[c] : /\ active' = [active EXCEPT ![c] = i]
                            /\ irq' = [irq EXCEPT ![c] = @ \ {i}]
    BY DEF Acknowledge
  <1>3. i = "ENDED" BY <1>1, <1>2 DEF TypeOK
  <1>4. TypeOK' BY <1>1, <1>2, <1>3 DEF TypeOK, Cycle
  <1>5. OnTime(c)' BY <1>1 DEF OnTime, Start, End, SlotId, Cycle
  <1>6. InStep(c)' BY <1>1, <1>2, <1>3 DEF InStep, Undisturbed, TypeOK
  <1>7. \A d \in Cpu \ {c} : Kept(d) BY <1>1, <1>2 DEF Kept, TypeOK
  <1> QED BY <1>1, <1>4, <1>5, <1>6, <1>7, StepOf

\* A guest that served the interrupt does not believe to have the memory.
LEMMA EndedServed ==
  ASSUME IInv, NEW c \in Cpu, memory_phase_ended_ISR(c)
  PROVE  IInv'
  <1>1. /\ TypeOK /\ OnTime(c) /\ InStep(c)
        /\ UNCHANGED <<now, cells, interrupted, tdma_state, tdma_timer_target,
                       enabled, left, irq>>
        /\ active' = [active EXCEPT ![c] = "none"]
    BY DEF IInv, memory_phase_ended_ISR, hypervisor
  <1>2. PICK m \in {"NONE", "REQUESTED"} :
          /\ mem_arbit_status' = [mem_arbit_status EXCEPT ![c] = m]
          /\ m = "NONE" <=> mem_arbit_status[c] = "NONE"
    BY <1>1 DEF memory_phase_ended_ISR, Believes, TypeOK
  <1>3. TypeOK' BY <1>1, <1>2 DEF TypeOK, Cycle
  <1>4. OnTime(c)' BY <1>1 DEF OnTime, Start, End, SlotId, Cycle
  <1>5. InStep(c)' BY <1>1, <1>2 DEF InStep, Undisturbed, TypeOK
  <1>6. \A d \in Cpu \ {c} : Kept(d) BY <1>1, <1>2 DEF Kept, TypeOK
  <1> QED BY <1>1, <1>3, <1>4, <1>5, <1>6, StepOf

\* A CPU that is reset within a request is disturbed from then on, whether its
\* cell is started again or destroyed.
LEMMA Reset ==
  ASSUME IInv, NEW c \in Cpu, cell_start(c) \/ cell_destroy(c)
  PROVE  IInv'
  <1>1. /\ TypeOK /\ InStep(c) /\ now' = now /\ timer_disable(c)
        /\ tdma_state' = tdma_state /\ interrupted' = Interrupted(c)
        /\ cells' \subseteq cells
        /\ \A d \in Cpu \ {c} : d \in cells' <=> d \in cells
        /\ mem_arbit_status' = [mem_arbit_status EXCEPT ![c] = "NONE"]
        /\ irq' = [irq EXCEPT ![c] = {}] /\ active' = [active EXCEPT ![c] = "none"]
    BY DEF IInv, cell_start, cell_destroy, cpu_reset, Believes
  <1>2. TypeOK' BY <1>1, TimerDisable DEF TypeOK, Cycle, Interrupted
  <1>3. OnTime(c)' /\ ~enabled'[c] BY <1>1, TimerDisable
  <1>4. InStep(c)'
    <2>1. c \in interrupted' \/ tdma_state'[c] = "COMPUTING"
      BY <1>1 DEF Interrupted
    <2>2. c \in interrupted' => tdma_state'[c] # "COMPUTING"
      BY <1>1 DEF Interrupted, InStep
    <2>3. mem_arbit_status'[c] = "NONE" BY <1>1 DEF TypeOK
    <2> QED BY <1>3, <2>1, <2>2, <2>3 DEF InStep, Undisturbed
  <1>5. \A d \in Cpu \ {c} : Kept(d)
    BY <1>1, TimerDisable DEF Kept, TypeOK, Interrupted
  <1> QED BY <1>1, <1>2, <1>3, <1>4, <1>5, StepOf

\* A CPU that gets a new cell is in its computing phase, and its timer is off.
LEMMA Create ==
  ASSUME IInv, NEW c \in Cpu, cell_create(c)
  PROVE  IInv'
  <1>1. /\ TypeOK /\ InStep(c) /\ c \notin cells
        /\ tdma_state' = [tdma_state EXCEPT ![c] = "COMPUTING"]
        /\ tdma_timer_target' = [tdma_timer_target EXCEPT ![c] = "START"]
        /\ cells' = cells \cup {c} /\ interrupted' = interrupted \ {c}
        /\ UNCHANGED <<now, enabled, left, mem_arbit_status, irq, active>>
    BY DEF IInv, cell_create, SetState, guest
  <1>2. ~enabled[c] /\ mem_arbit_status[c] = "NONE"
    BY <1>1 DEF InStep, Undisturbed
  <1>3. TypeOK' BY <1>1 DEF TypeOK, Cycle
  <1>4. OnTime(c)' BY <1>1, <1>2 DEF OnTime
  <1>5. InStep(c)' BY <1>1, <1>2 DEF InStep, Undisturbed, TypeOK
  <1>6. \A d \in Cpu \ {c} : Kept(d) BY <1>1 DEF Kept, TypeOK
  <1> QED BY <1>1, <1>3, <1>4, <1>5, <1>6, StepOf

\* Time passes: the position and the time that is left move together, and the
\* cycle ends only where no start of a slot is late.
LEMMA Ticked == IInv /\ Tick => IInv'
  <1> SUFFICES ASSUME IInv, Tick PROVE IInv' OBVIOUS
  <1>1. /\ TypeOK
        /\ UNCHANGED <<tdma_state, tdma_timer_target, enabled, mem_arbit_status,
                       irq, active, cells, interrupted>>
        /\ now' = (now + 1) % Cycle
        /\ left' = [c \in Cpu |-> IF enabled[c] THEN left[c] - 1 ELSE left[c]]
    BY DEF IInv, Tick, guest
  <1>2. ASSUME NEW c \in Cpu
        PROVE  /\ now \in Nat /\ now < Cycle /\ Cycle \in Nat /\ Cycle > 0
               /\ left[c] \in Int /\ -MaxLatency <= left[c]
               /\ left[c] <= 255 * tdma_slot_period
               /\ MaxLatency \in Nat /\ MaxLatency < tdma_slot_period
               /\ tdma_slot_period \in Nat
               /\ now' = IF now + 1 = Cycle THEN 0 ELSE now + 1
               /\ enabled[c] => left[c] > -MaxLatency /\ left'[c] = left[c] - 1
               /\ ~enabled[c] => left'[c] = left[c]
    <2>1. /\ now \in Nat /\ now < Cycle /\ Cycle \in Nat /\ Cycle > 0
          /\ left[c] \in Int /\ -MaxLatency <= left[c]
          /\ left[c] <= 255 * tdma_slot_period
          /\ MaxLatency \in Nat /\ MaxLatency < tdma_slot_period
          /\ tdma_slot_period \in Nat
      BY <1>1, SlotInCycle, TdmaAssumption, SMT DEF TypeOK
    <2>2. now' = IF now + 1 = Cycle THEN 0 ELSE now + 1
      <3>1. CASE now + 1 = Cycle BY <1>1, <2>1, <3>1, SMT
      <3>2. CASE now + 1 # Cycle BY <1>1, <2>1, <3>2, SMT
      <3> QED BY <3>1, <3>2
    <2>3. /\ enabled[c] => left[c] > -MaxLatency /\ left'[c] = left[c] - 1
          /\ ~enabled[c] => left'[c] = left[c]
      BY <1>1 DEF Tick
    <2> QED BY <2>1, <2>2, <2>3
  <1>3. now' \in 0..(Cycle - 1)
    <2>1. now \in Int /\ Cycle \in Int /\ Cycle > 0
      BY <1>1, TdmaAssumption, SMT DEF TypeOK, Cycle
    <2> QED BY <1>1, <2>1, SMT
  <1>4. left' \in [Cpu -> (-MaxLatency)..(255 * tdma_slot_period)]
    <2>1. ASSUME NEW c \in Cpu
          PROVE  left'[c] \in (-MaxLatency)..(255 * tdma_slot_period)
      <3>1. CASE enabled[c] BY <1>2, <3>1, SMT
      <3>2. CASE ~enabled[c] BY <1>2, <3>2, SMT
      <3> QED BY <3>1, <3>2
    <2>2. left' = [c \in Cpu |-> left'[c]] BY <1>1
    <2> QED BY <2>1, <2>2
  <1>5. TypeOK' BY <1>1, <1>3, <1>4 DEF TypeOK, Cycle
  <1>6. ASSUME NEW c \in Cpu PROVE OnTime(c)'
    <2>1. Start(c)' = Start(c) /\ End(c)' = End(c) /\ Cycle' = Cycle
      BY DEF Start, End, SlotId, Cycle
    <2>2. CASE ~enabled[c] BY <1>1, <2>2 DEF OnTime
    <2>3. CASE enabled[c] /\ tdma_timer_target[c] = "START"
      <3>1. \/ now + left[c] = Start(c)
            \/ left[c] > 0 /\ now + left[c] = Start(c) + Cycle
        BY <2>3 DEF IInv, OnTime
      <3>2. left'[c] = left[c] - 1 /\ left[c] > -MaxLatency BY <1>2, <2>3
      <3>3. \/ now' + left'[c] = Start(c)
            \/ left'[c] > 0 /\ now' + left'[c] = Start(c) + Cycle
        BY <1>2, <3>1, <3>2, SlotInCycle, SMT DEF End
      <3> QED BY <1>1, <2>1, <2>3, <3>3 DEF OnTime
    <2>4. CASE enabled[c] /\ tdma_timer_target[c] # "START"
      <3>1. \/ now + left[c] = End(c) /\ Start(c) <= now
            \/ left[c] <= 0 /\ now + left[c] = 0 /\ End(c) = Cycle
        BY <2>4 DEF IInv, OnTime
      <3>2. left'[c] = left[c] - 1 /\ left[c] > -MaxLatency BY <1>2, <2>4
      <3>3. \/ now' + left'[c] = End(c) /\ Start(c) <= now'
            \/ left'[c] <= 0 /\ now' + left'[c] = 0 /\ End(c) = Cycle
        BY <1>2, <3>1, <3>2, SlotInCycle, SMT DEF End
      <3> QED BY <1>1, <2>1, <2>4, <3>3 DEF OnTime
    <2> QED BY <2>2, <2>3, <2>4
  <1>7. ASSUME NEW c \in Cpu PROVE InStep(c)'
    BY <1>1 DEF IInv, InStep, Undisturbed
  <1> QED BY <1>5, <1>6, <1>7 DEF IInv

\* Every step preserves the invariant.
LEMMA NextIInv == IInv /\ [Next]_vars => IInv'
  <1> SUFFICES ASSUME IInv, [Next]_vars PROVE IInv' OBVIOUS
  <1>1. CASE Tick BY <1>1, Ticked
  <1>2. ASSUME NEW c \in Cpu, timer_isr(c) PROVE IInv'
    BY <1>2, TimerIsrStart, TimerIsrEnd DEF timer_isr
  <1>3. ASSUME NEW c \in Cpu, BeginMemPhase(c) PROVE IInv' BY <1>3, Begin
  <1>4. ASSUME NEW c \in Cpu, EndMemPhase(c) PROVE IInv' BY <1>4, EndPhase
  <1>5. ASSUME NEW c \in Cpu, Acknowledge(c) PROVE IInv' BY <1>5, Acknowledged
  <1>6. ASSUME NEW c \in Cpu, memory_phase_ended_ISR(c) PROVE IInv' BY <1>6, EndedServed
  <1>7. ASSUME NEW c \in Cpu, cell_start(c) \/ cell_destroy(c) PROVE IInv' BY <1>7, Reset
  <1>8. ASSUME NEW c \in Cpu, cell_create(c) PROVE IInv' BY <1>8, Create
  <1>9. CASE UNCHANGED vars
    <2>1. TypeOK' BY <1>9 DEF IInv, TypeOK, vars, hypervisor, guest, Cycle
    <2>2. ASSUME NEW d \in Cpu PROVE OnTime(d)' /\ InStep(d)'
      <3>1. Kept(d) /\ now' = now BY <1>9 DEF Kept, vars, hypervisor, guest
      <3> QED BY <3>1, Frame DEF IInv
    <2> QED BY <2>1, <2>2 DEF IInv
  <1> QED BY <1>1, <1>2, <1>3, <1>4, <1>5, <1>6, <1>7, <1>8, <1>9 DEF Next

-----------------------------------------------------------------------------
(* The theorems. *)

\* The invariant holds of every behaviour of the TDMA arbitration.
THEOREM Invariance == Spec => []IInv
  BY InitIInv, NextIInv, PTL DEF Spec

\* The variables have their types; in particular a timer is never later than
\* its latency allows (tdma_timer_start).
THEOREM TypeCorrect == Spec => []TypeOK
  <1>1. IInv => TypeOK BY DEF IInv
  <1> QED BY <1>1, Invariance, PTL

\* The timer of a CPU runs for what its state waits for, so tdma_timer_isr always
\* answers the interrupt, and no hypercall of a guest is refused as long as its
\* cell was not stopped within a request (the INVALID answers of tdma_hypercall).
THEOREM AlwaysInStep == Spec => []RequestsInStep
  BY Agreement, Invariance, PTL

\* A CPU is in its memory phase only in the slot of its cell (tdma_timer_start
\* and tdma_timer_isr), up to the latency of the interrupt that ends it.
THEOREM OnlyInSlot == Spec => []MemoryPhaseInSlot
  BY PhasesInSlots, Invariance, PTL

\* No two guests are in their memory phases at the same time, although the CPUs
\* share nothing but the counter and program their timers each for itself.
THEOREM Exclusive == Spec => []MutualExclusion
  BY Exclusion, Invariance, PTL

-----------------------------------------------------------------------------
(* The release of the tasks (TaskRelease). *)

(***************************************************************************)
(* A set of integers that is bounded from below has a least element, and   *)
(* Min is that element.                                                    *)
(***************************************************************************)
LEMMA LeastElement ==
  ASSUME NEW S \in SUBSET Int, S # {},
         NEW b \in Int, \A x \in S : b <= x
  PROVE  Min(S) \in S /\ \A x \in S : Min(S) <= x
<1> DEFINE R == {p \in Nat \X Nat : p[1] < p[2]}
           T == {n \in Nat : n + b \in S}
<1>1. PICK x \in S : TRUE
  OBVIOUS
<1>2. x - b \in T
  BY <1>1
<1>3. IsWellFoundedOn(R, Nat)
  BY NatLessThanWellFounded DEF OpToRel
<1>4. PICK n \in T : \A m \in T : <<m, n>> \notin R
  <2>1. T \subseteq Nat /\ T # {}
    BY <1>2
  <2> HIDE DEF R, T
  <2> QED
    BY <2>1, <1>3, WFMin
<1>5. \A m \in T : n <= m
  <2> SUFFICES ASSUME NEW m \in T, m < n
               PROVE  FALSE
    OBVIOUS
  <2>1. <<m, n>> \in R
    OBVIOUS
  <2> QED
    BY <2>1, <1>4
<1>6. n + b \in S /\ \A y \in S : n + b <= y
  <2>1. n + b \in S
    OBVIOUS
  <2>2. ASSUME NEW y \in S
        PROVE  n + b <= y
    <3>1. y - b \in T
      OBVIOUS
    <3> QED
      BY <3>1, <1>5
  <2> QED
    BY <2>1, <2>2
<1> QED
  BY <1>6 DEF Min

\* The smaller of two integers.
LEMMA SmallerOfTwo ==
  ASSUME NEW a \in Int, NEW b \in Int
  PROVE  Min({a, b}) = IF a <= b THEN a ELSE b
<1> DEFINE m == IF a <= b THEN a ELSE b
<1>1. m \in {a, b} /\ \A y \in {a, b} : m <= y
  OBVIOUS
<1>2. \A x \in {a, b} : (\A y \in {a, b} : x <= y) => x = m
  OBVIOUS
<1> QED
  BY <1>1, <1>2 DEF Min

(***************************************************************************)
(* get_next_timer_ticks finds the soonest of activation times that have a  *)
(* lower bound.                                                            *)
(***************************************************************************)
LEMMA SoonestActivation ==
  ASSUME NEW n \in [Task -> Int], NEW b \in Int, \A t \in Task : b <= n[t]
  PROVE  /\ get_next_timer_ticks(n) \in Int
         /\ \A t \in Task : get_next_timer_ticks(n) <= n[t]
<1> DEFINE S == {n[t] : t \in Task}
<1>1. S \in SUBSET Int /\ S # {} /\ \A x \in S : b <= x
  BY ReleaseAssumption
<1>2. Min(S) \in S /\ \A x \in S : Min(S) <= x
  <2> HIDE DEF S
  <2> QED
    BY <1>1, LeastElement
<1> QED
  BY <1>1, <1>2 DEF get_next_timer_ticks

\* An age that is counted up to MaxAge.
LEMMA OlderAge ==
  ASSUME NEW age \in [Task -> 0..MaxAge]
  PROVE  /\ Older(age) \in [Task -> 0..MaxAge]
         /\ \A t \in Task :
              Older(age)[t] = IF age[t] + 1 <= MaxAge THEN age[t] + 1
                                                      ELSE MaxAge
<1>1. ASSUME NEW t \in Task
      PROVE  Min({age[t] + 1, MaxAge})
               = IF age[t] + 1 <= MaxAge THEN age[t] + 1 ELSE MaxAge
  BY SmallerOfTwo, ReleaseAssumption
<1> QED
  BY <1>1, ReleaseAssumption DEF Older

-----------------------------------------------------------------------------
\* The timer and the types hold in each step, whatever the jobs do.
ReleaseInv == TimerForNextActivation /\ MissesAreReal

(***************************************************************************)
(* The bookkeeping of the releases and the jobs establish the timer and    *)
(* the truth of task_finished at the start and keep them in every step.    *)
(***************************************************************************)
LEMMA InitTimer == ReleaseInit => ReleaseInv
<1> SUFFICES ASSUME ReleaseInit PROVE ReleaseInv
  OBVIOUS
<1>1. period \in [Task -> Int] /\ \A t \in Task : 0 <= period[t]
  BY ReleaseAssumption
<1>2. expiry \in Int /\ \A t \in Task : expiry <= period[t]
  BY <1>1, SoonestActivation DEF ReleaseInit
<1>3. ReleaseTypeOK
  BY <1>1, <1>2, ReleaseAssumption DEF ReleaseInit, ReleaseTypeOK
<1> QED
  BY <1>2, <1>3 DEF ReleaseInit, ReleaseInv, TimerForNextActivation, MissesAreReal

LEMMA IsrKeeps == ReleaseInv /\ task_activation_isr => ReleaseInv'
<1> SUFFICES ASSUME ReleaseInv, task_activation_isr PROVE ReleaseInv'
  OBVIOUS
<1> USE DEF ReleaseInv, TimerForNextActivation
<1>1. /\ next' \in [Task -> Int]
      /\ \A t \in Task : next'[t] \in (-MaxLate)..period[t]
  BY ReleaseAssumption DEF ReleaseTypeOK, task_activation_isr,
     update_activation_ticks, Due
<1>2. expiry' \in Int /\ \A t \in Task : expiry' <= next'[t]
  <2>1. -MaxLate \in Int /\ \A t \in Task : -MaxLate <= next'[t]
    BY <1>1, ReleaseAssumption
  <2>2. /\ get_next_timer_ticks(next') \in Int
        /\ \A t \in Task : get_next_timer_ticks(next') <= next'[t]
    BY <1>1, <2>1, SoonestActivation
  <2> QED
    BY <2>2 DEF task_activation_isr, RestartTimer
<1>3. deadlines_missed' \in [Task -> 0..MaxMissed]
  BY ReleaseAssumption DEF ReleaseTypeOK, task_activation_isr, CheckDeadlines, Due
<1>4. since_release' \in [Task -> 0..MaxAge]
  BY ReleaseAssumption DEF ReleaseTypeOK, task_activation_isr, CheckDeadlines, Due
<1>5. finished' \in [Task -> BOOLEAN] /\ event' \in [Task -> BOOLEAN]
  BY DEF ReleaseTypeOK, task_activation_isr, CheckDeadlines
<1>6. ReleaseTypeOK'
  BY <1>1, <1>2, <1>3, <1>4, <1>5 DEF ReleaseTypeOK, task_activation_isr
<1>7. MissesAreReal'
  BY DEF ReleaseTypeOK, MissesAreReal, Unfinished, task_activation_isr,
     CheckDeadlines
<1> QED
  BY <1>2, <1>6, <1>7

LEMMA TickKeeps == ReleaseInv /\ TimePasses => ReleaseInv'
<1> SUFFICES ASSUME ReleaseInv, TimePasses PROVE ReleaseInv'
  OBVIOUS
<1> USE DEF ReleaseInv, TimerForNextActivation
<1>1. /\ next' \in [Task -> Int] /\ expiry' \in Int
      /\ \A t \in Task : next'[t] \in (-MaxLate)..period[t]
      /\ \A t \in Task : expiry' <= next'[t]
  BY ReleaseAssumption DEF ReleaseTypeOK, TimePasses
<1>2. /\ since_release' \in [Task -> 0..MaxAge]
      /\ since_start' \in [Task -> 0..MaxAge]
  BY OlderAge DEF ReleaseTypeOK, TimePasses
<1>3. ReleaseTypeOK'
  BY <1>1, <1>2 DEF ReleaseTypeOK, TimePasses
<1> QED
  BY <1>1, <1>3 DEF TimePasses, MissesAreReal, Unfinished

LEMMA JobKeeps ==
  ASSUME NEW t \in Task, ReleaseInv, Job(t)
  PROVE  ReleaseInv'
<1> USE DEF ReleaseInv, TimerForNextActivation, ReleaseTypeOK, MissesAreReal, Unfinished,
            MovesTo, books
<1>1. CASE WaitEvent(t)
  BY <1>1 DEF WaitEvent
<1>2. CASE ClearEvent(t)
  BY <1>2 DEF ClearEvent
<1>3. CASE begin_memory_phase(t)
  BY <1>3, ReleaseAssumption DEF begin_memory_phase
<1>4. CASE begin_memory_phase_returns(t)
  BY <1>4 DEF begin_memory_phase_returns
<1>5. CASE end_memory_phase(t)
  BY <1>5 DEF end_memory_phase
<1>6. CASE end_execution_phase(t)
  BY <1>6 DEF end_execution_phase
<1> QED
  BY <1>1, <1>2, <1>3, <1>4, <1>5, <1>6 DEF Job

LEMMA StepKeeps == ReleaseInv /\ [ReleaseNext]_release_vars => ReleaseInv'
<1> SUFFICES ASSUME ReleaseInv, [ReleaseNext]_release_vars PROVE ReleaseInv'
  OBVIOUS
<1>1. CASE UNCHANGED release_vars
  BY <1>1 DEF release_vars, books, job, ReleaseInv, TimerForNextActivation, ReleaseTypeOK,
     MissesAreReal, Unfinished
<1> QED
  BY <1>1, IsrKeeps, TickKeeps, JobKeeps DEF ReleaseNext

(***************************************************************************)
(* The timer of task_activation_isr is never set past an activation, and   *)
(* the types hold, for any number of tasks and any periods.                *)
(***************************************************************************)
THEOREM TimerSafe == ReleaseSpec => []TimerForNextActivation
<1>1. ReleaseInv => TimerForNextActivation
  BY DEF ReleaseInv
<1> QED
  BY <1>1, InitTimer, StepKeeps, PTL DEF ReleaseSpec

(***************************************************************************)
(* task_finished is false only while a job is released or under way: the   *)
(* ISR raises no false alarm.                                              *)
(***************************************************************************)
THEOREM NoFalseAlarm == ReleaseSpec => []MissesAreReal
<1>1. ReleaseInv => MissesAreReal
  BY DEF ReleaseInv
<1> QED
  BY <1>1, InitTimer, StepKeeps, PTL DEF ReleaseSpec

-----------------------------------------------------------------------------
(***************************************************************************)
(* What holds as long as no deadline is missed.  A release then finds its  *)
(* task waiting with no event set, because the previous job is finished:   *)
(* the event is gone by the time the job asks for the memory, and          *)
(* task_release_ticks is not overwritten while a job uses it.              *)
(***************************************************************************)
Watched ==
  /\ JobsWatched
  /\ \A t \in Task : event[t] => pc[t] \in {"waiting", "released"}

\* Without a miss only finished tasks are released.
LEMMA IsrWatched ==
  ASSUME ReleaseInv, Watched, NoMiss', task_activation_isr
  PROVE  Watched'
<1> USE DEF ReleaseInv, TimerForNextActivation, ReleaseTypeOK
<1>1. \A t \in Due : finished[t]
  BY ReleaseAssumption DEF NoMiss, task_activation_isr, CheckDeadlines, Due
<1>2. \A t \in Due : pc[t] = "waiting" /\ ~event[t]
  BY <1>1 DEF Watched, JobsWatched, Unfinished, Due
<1>3. UNCHANGED <<pc, since_start>>
  BY DEF task_activation_isr
<1>4. ASSUME NEW t \in Task, t \notin Due
      PROVE  /\ finished'[t] = finished[t] /\ event'[t] = event[t]
             /\ since_release'[t] = since_release[t]
  BY <1>4 DEF task_activation_isr, CheckDeadlines
<1>5. ASSUME NEW t \in Due
      PROVE  ~finished'[t]
  BY DEF task_activation_isr, CheckDeadlines, Due
<1> QED
  BY <1>2, <1>3, <1>4, <1>5 DEF Watched, JobsWatched, Unfinished

\* Both ages grow alike, up to the same bound.
LEMMA TickWatched ==
  ASSUME ReleaseInv, Watched, TimePasses
  PROVE  Watched'
<1> USE DEF ReleaseInv, TimerForNextActivation, ReleaseTypeOK
<1>1. ASSUME NEW t \in Task, since_release[t] >= since_start[t]
      PROVE  since_release'[t] >= since_start'[t]
  BY <1>1, OlderAge, ReleaseAssumption DEF TimePasses
<1> QED
  BY <1>1 DEF TimePasses, Watched, JobsWatched, Unfinished

LEMMA JobWatched ==
  ASSUME NEW t \in Task, ReleaseInv, Watched, Job(t)
  PROVE  Watched'
<1> USE DEF ReleaseInv, TimerForNextActivation, ReleaseTypeOK, Watched, JobsWatched,
            Unfinished, MovesTo, books
<1>1. CASE WaitEvent(t)
  BY <1>1 DEF WaitEvent
<1>2. CASE ClearEvent(t)
  BY <1>2 DEF ClearEvent
<1>3. CASE begin_memory_phase(t)
  BY <1>3, ReleaseAssumption DEF begin_memory_phase
<1>4. CASE begin_memory_phase_returns(t)
  BY <1>4 DEF begin_memory_phase_returns
<1>5. CASE end_memory_phase(t)
  BY <1>5 DEF end_memory_phase
<1>6. CASE end_execution_phase(t)
  BY <1>6 DEF end_execution_phase
<1> QED
  BY <1>1, <1>2, <1>3, <1>4, <1>5, <1>6 DEF Job

(***************************************************************************)
(* Without a miss, the release time that main.c:158 subtracts is that of   *)
(* the job under way, and every job under way is watched by the ISR.       *)
(***************************************************************************)
THEOREM ResponseTimes == ReleaseSpec => ResponseTimesMeaningful
<1>1. ReleaseInit => Watched
  BY DEF ReleaseInit, Watched, JobsWatched, Unfinished
<1>2. ReleaseInv /\ Watched /\ NoMiss' /\ [ReleaseNext]_release_vars => Watched'
  <2> SUFFICES ASSUME ReleaseInv, Watched, NoMiss', [ReleaseNext]_release_vars
               PROVE  Watched'
    OBVIOUS
  <2>1. CASE UNCHANGED release_vars
    BY <2>1 DEF release_vars, books, job, Watched, JobsWatched, Unfinished
  <2> QED
    BY <2>1, IsrWatched, TickWatched, JobWatched DEF ReleaseNext
<1>3. Watched => JobsWatched
  BY DEF Watched
<1> QED
  BY <1>1, <1>2, <1>3, InitTimer, StepKeeps, PTL
  DEF ReleaseSpec, ResponseTimesMeaningful
=============================================================================
