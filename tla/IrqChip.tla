------------------------------- MODULE IrqChip -------------------------------
(***************************************************************************)
(* The injection of virtual interrupts into one CPU, the target            *)
(* (irqchip_set_pending, irqchip_inject_pending, gic-v2.c).  Other CPUs    *)
(* put interrupts into a ring in the target's per-CPU data and kick it     *)
(* with SGI_INJECT.  The target moves them to its list registers, without  *)
(* taking the lock; when these are full it waits for the maintenance       *)
(* interrupt, which is raised when at most one list register is in use.    *)
(* Interrupts that arrive at the target itself go to a list register       *)
(* directly, and to the ring only if there is none.                        *)
(*                                                                         *)
(* A store to the ring takes two instructions with no barrier between      *)
(* them, so either may become visible first; reordered records that once   *)
(* the second did.                                                         *)
(***************************************************************************)
EXTENDS Integers, FiniteSets, Sequences

CONSTANTS
  Remote,            \* the CPUs that send to the target
  Target,            \* the target CPU
  SgiId,             \* the interrupts that the others send
  HwId,              \* the interrupts that arrive at the target
  MAX_PENDING_IRQS,
  gic_num_lr,
  MaxResets          \* bound on the resets of the target

Cpu == Remote \cup {Target}
None == "none"

\* What a slot of the ring may hold; None is its content before the first use.
Id == SgiId \cup HwId \cup {None}

ASSUME IrqChipAssumption ==
  /\ Target \notin Remote /\ None \notin SgiId \cup HwId \cup Cpu
  /\ MAX_PENDING_IRQS \in Nat \ {0, 1} /\ gic_num_lr \in Nat \ {0}
  /\ MaxResets \in Nat

VARIABLES
  irqs, head, tail, lock,  \* struct pending_irqs
  pending, active,         \* the interrupts in the list registers
  uie,                     \* GICH_HCR_UIE: maintenance interrupt enabled
  kicks,                   \* the CPUs whose SGI_INJECT is pending at the target
  pc,                      \* where each CPU is in the hypervisor
  irq_id,                  \* the argument of its irqchip_set_pending
  new_tail,
  resets, reordered

ring == <<irqs, head, tail, lock>>
gich == <<pending, active, uie>>
locals == <<irq_id, new_tail>>
history == <<resets, reordered>>
vars == <<ring, gich, kicks, pc, locals, history>>

Init ==
  /\ irqs = [k \in 0..(MAX_PENDING_IRQS - 1) |-> None]
  /\ head = 0 /\ tail = 0 /\ lock = None
  /\ pending = {} /\ active = {} /\ uie = FALSE
  /\ kicks = {}
  /\ pc = [c \in Cpu |-> "guest"]
  /\ irq_id = [c \in Cpu |-> None]
  /\ new_tail = [c \in Cpu |-> 0]
  /\ resets = 0 /\ reordered = FALSE

Goes(c, from, to) == pc[c] = from /\ pc' = [pc EXCEPT ![c] = to]

InUse == pending \cup active

\* gicv2_inject_irq: a list register holds an interrupt once.
EBUSY(i) == i \notin InUse /\ Cardinality(InUse) >= gic_num_lr
inject_irq(i) == pending' = pending \cup ({i} \ InUse)

-----------------------------------------------------------------------------
(* irqchip_set_pending. *)

\* An interrupt for the guest arrives at the target itself.
set_pending_local(i) ==
  /\ IF EBUSY(i)
       THEN /\ Goes(Target, "guest", "locking")
            /\ irq_id' = [irq_id EXCEPT ![Target] = i]
            /\ UNCHANGED pending
       ELSE /\ pc[Target] = "guest" /\ inject_irq(i)
            /\ UNCHANGED <<pc, irq_id>>
  /\ UNCHANGED <<ring, active, uie, kicks, new_tail, history>>

\* Another CPU sends an interrupt.
set_pending_remote(c, i) ==
  /\ Goes(c, "guest", "locking")
  /\ irq_id' = [irq_id EXCEPT ![c] = i]
  /\ UNCHANGED <<ring, gich, kicks, new_tail, history>>

\* Faulty: the ring is not locked.
lock_ring_not(c) ==
  /\ new_tail' = [new_tail EXCEPT ![c] = (tail + 1) % MAX_PENDING_IRQS]
  /\ Goes(c, "locking", IF new_tail'[c] # head THEN "storing" ELSE "unlocking")
  /\ UNCHANGED <<ring, gich, kicks, irq_id, history>>

\* With the lock, and if the ring is not full; otherwise the interrupt is
\* dropped.
lock_ring(c) ==
  /\ lock = None /\ lock' = c
  /\ new_tail' = [new_tail EXCEPT ![c] = (tail + 1) % MAX_PENDING_IRQS]
  /\ Goes(c, "locking", IF new_tail'[c] # head THEN "storing" ELSE "unlocking")
  /\ UNCHANGED <<irqs, head, tail, gich, kicks, irq_id, history>>

\* The slot of the ring that c stores to.
Slot(c) == (new_tail[c] - 1) % MAX_PENDING_IRQS

store_irq(c) ==
  /\ \/ Goes(c, "storing", "storing_tail")
     \/ Goes(c, "storing_irq", "unlocking")
  /\ irqs' = [irqs EXCEPT ![Slot(c)] = irq_id[c]]
  /\ UNCHANGED <<head, tail, lock, gich, kicks, locals, history>>

store_tail(c) ==
  /\ \/ Goes(c, "storing_tail", "unlocking") /\ UNCHANGED reordered
     \/ Goes(c, "storing", "storing_irq") /\ reordered' = TRUE
  /\ tail' = new_tail[c]
  /\ UNCHANGED <<irqs, head, lock, gich, kicks, locals, resets>>

unlock_ring(c) ==
  /\ Goes(c, "unlocking", "notifying")
  /\ lock' = None
  /\ UNCHANGED <<irqs, head, tail, gich, kicks, locals, history>>

Return(c) ==
  /\ Goes(c, "notifying", "guest")
  /\ irq_id' = [irq_id EXCEPT ![c] = None]
  /\ new_tail' = [new_tail EXCEPT ![c] = 0]

\* Faulty: the maintenance interrupt is not asked for.
notify_remote_only(c) ==
  /\ Return(c)
  /\ kicks' = kicks \cup ({c} \ {Target})
  /\ UNCHANGED <<ring, gich, history>>

\* SGI_INJECT for another CPU, the maintenance interrupt for oneself.
notify(c) ==
  /\ Return(c)
  /\ kicks' = kicks \cup ({c} \ {Target})
  /\ uie' = (uie \/ c = Target)
  /\ UNCHANGED <<ring, pending, active, history>>

-----------------------------------------------------------------------------
(* irqchip_inject_pending, called for both interrupts below. *)

\* SGI_INJECT; reading its number ends its being pending.
handle_sgi(c) ==
  /\ c \in kicks /\ Goes(Target, "guest", "inject")
  /\ kicks' = kicks \ {c}
  /\ UNCHANGED <<ring, gich, locals, history>>

\* The maintenance interrupt, raised on underflow of the list registers.
handle_maintenance ==
  /\ uie /\ Cardinality(InUse) <= 1
  /\ Goes(Target, "guest", "inject")
  /\ UNCHANGED <<ring, gich, kicks, locals, history>>

inject_pending_test ==
  /\ Goes(Target, "inject", IF head # tail THEN "take" ELSE "empty")
  /\ UNCHANGED <<ring, gich, kicks, locals, history>>

\* Moves one interrupt to the list registers, or waits for one to be free.
inject_pending_take ==
  /\ pc[Target] = "take"
  /\ IF EBUSY(irqs[head])
       THEN /\ uie' = TRUE /\ Goes(Target, "take", "guest")
            /\ UNCHANGED <<pending, head>>
       ELSE /\ inject_irq(irqs[head]) /\ Goes(Target, "take", "inject")
            /\ head' = (head + 1) % MAX_PENDING_IRQS
            /\ UNCHANGED uie
  /\ UNCHANGED <<irqs, tail, lock, active, kicks, locals, history>>

inject_pending_empty ==
  /\ Goes(Target, "empty", "guest")
  /\ uie' = FALSE
  /\ UNCHANGED <<ring, pending, active, kicks, locals, history>>

\* irqchip_cpu_reset and gicv2_cpu_reset: without the lock.
cpu_reset ==
  /\ pc[Target] = "guest" /\ resets < MaxResets
  /\ resets' = resets + 1
  /\ head' = 0 /\ tail' = 0
  /\ pending' = {} /\ active' = {}
  /\ UNCHANGED <<irqs, lock, uie, kicks, pc, locals, reordered>>

-----------------------------------------------------------------------------
(* The guest of the target. *)

GuestAcknowledge(i) ==
  /\ pc[Target] = "guest" /\ i \in pending
  /\ pending' = pending \ {i} /\ active' = active \cup {i}
  /\ UNCHANGED <<ring, uie, kicks, pc, locals, history>>

GuestEoi(i) ==
  /\ pc[Target] = "guest" /\ i \in active
  /\ active' = active \ {i}
  /\ UNCHANGED <<ring, pending, uie, kicks, pc, locals, history>>

InjectPending ==
  inject_pending_test \/ inject_pending_take \/ inject_pending_empty

SetPending(c) ==
  \/ lock_ring(c) \/ store_irq(c) \/ store_tail(c)
  \/ unlock_ring(c) \/ notify(c)

Guest(i) == GuestAcknowledge(i) \/ GuestEoi(i)

Next ==
  \/ \E i \in HwId : set_pending_local(i)
  \/ \E c \in Remote, i \in SgiId : set_pending_remote(c, i)
  \/ \E c \in Cpu : SetPending(c)
  \/ \E c \in Remote : handle_sgi(c)
  \/ handle_maintenance \/ InjectPending
  \/ cpu_reset
  \/ \E i \in Id : Guest(i)

Spec == Init /\ [][Next]_vars

-----------------------------------------------------------------------------
\* The types of the variables, and that the list registers suffice.
TypeOK ==
  /\ irqs \in [0..(MAX_PENDING_IRQS - 1) -> Id]
  /\ head \in 0..(MAX_PENDING_IRQS - 1) /\ tail \in 0..(MAX_PENDING_IRQS - 1)
  /\ lock \in Cpu \cup {None}
  /\ pending \subseteq Id /\ active \subseteq Id
  /\ Cardinality(InUse) <= gic_num_lr /\ pending \cap active = {}
  /\ uie \in BOOLEAN /\ kicks \subseteq Remote
  /\ pc \in [Cpu -> {"guest", "locking", "storing", "storing_irq",
                     "storing_tail", "unlocking", "notifying", "inject",
                     "take", "empty"}]
  /\ irq_id \in [Cpu -> Id]
  /\ new_tail \in [Cpu -> 0..(MAX_PENDING_IRQS - 1)]
  /\ resets \in 0..MaxResets /\ reordered \in BOOLEAN

\* What the ring holds, first to be injected first.
Queue == [k \in 1..((tail - head) % MAX_PENDING_IRQS)
            |-> irqs[(head + k - 1) % MAX_PENDING_IRQS]]

QueueStep ==
  ~reordered' /\ resets' = 0 =>
    \/ Queue' = Queue
    \/ \E c \in Cpu : irq_id[c] # None /\ Queue' = Append(Queue, irq_id[c])
    \/ Queue # <<>> /\ Queue' = Tail(Queue)

(***************************************************************************)
(* With one remover and insertions under the lock, the ring is a queue: a  *)
(* step appends the interrupt some CPU is sending, or removes the oldest,  *)
(* or leaves the queue alone.  This is so as long as the stores of         *)
(* irqchip_set_pending become visible in program order and the target has  *)
(* not been reset, which empties the ring without the lock                 *)
(* (irqchip.c:363-368).                                                    *)
(***************************************************************************)
RingIsQueue == [][QueueStep]_vars

(***************************************************************************)
(* "removal from the ring happens lockless, thus tail is volatile"         *)
(* (irqchip.h:76): the tail tells the target what it may remove, so it     *)
(* never removes an entry that its sender has yet to store.                *)
(***************************************************************************)
RemovedWasStored ==
  [][inject_pending_take /\ head' # head =>
       \A c \in Cpu : pc[c] = "storing_irq" => Slot(c) # head]_vars

(***************************************************************************)
(* No interrupt is stranded in the ring: while it is not empty, a kick is  *)
(* pending or will be sent, the target is looking at the ring, or the      *)
(* maintenance interrupt is enabled.  In particular the maintenance        *)
(* interrupt is switched off after the ring was seen empty                 *)
(* (irqchip.c:308-312), when it may no longer be.                          *)
(***************************************************************************)
NotStranded ==
  /\ TypeOK
  /\ head # tail =>
       \/ kicks # {} \/ uie
       \/ \E c \in Cpu : pc[c] \in {"storing_irq", "unlocking", "notifying"}
       \/ pc[Target] \in {"inject", "take"}
=============================================================================
