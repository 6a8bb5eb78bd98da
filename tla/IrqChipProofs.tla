---------------------------- MODULE IrqChipProofs ----------------------------
(***************************************************************************)
(* Proofs about IrqChip, for any number of CPUs and interrupts and any     *)
(* sizes of the ring and of the list registers.                            *)
(***************************************************************************)
EXTENDS IrqChip, FiniteSetTheorems, SequenceTheorems, TLAPS

M == MAX_PENDING_IRQS

\* The arithmetic of an index that wraps around at most once.
LEMMA Wrap ==
  /\ \A a \in Int : a % M \in 0..(M - 1)
  /\ \A a \in 0..(M - 1) : a % M = a
  /\ \A a \in M..(2 * M - 1) : a % M = a - M
  /\ \A a \in (-M)..(-1) : a % M = a + M
<1> USE IrqChipAssumption DEF M
<1>1. \A a \in Int : a % M \in 0..(M - 1)
  OBVIOUS
<1>2. \A a \in 0..(M - 1) : a % M = a
  OBVIOUS
<1>3. \A a \in M..(2 * M - 1) : a % M = a - M
  OBVIOUS
<1>4. \A a \in (-M)..(-1) : a % M = a + M
  OBVIOUS
<1> QED
  BY <1>1, <1>2, <1>3, <1>4

-----------------------------------------------------------------------------
(***************************************************************************)
(* What NotStranded needs to be inductive.  The list registers hold a      *)
(* finite set.  And after the target has seen the ring empty, whatever is  *)
(* in the ring was put there by another CPU that has kicked the target or  *)
(* will: that kick survives the switching off of the maintenance           *)
(* interrupt.                                                              *)
(***************************************************************************)
KickFollows ==
  pc[Target] = "empty" /\ head # tail =>
    \/ kicks # {}
    \/ \E c \in Remote : pc[c] \in {"storing_irq", "unlocking", "notifying"}

IInv == NotStranded /\ IsFiniteSet(InUse) /\ KickFollows

Holding == {"storing", "storing_irq", "storing_tail", "unlocking"}

\* The lock is with the CPU that is between taking and releasing it.
LockHeld == \A c \in Cpu : lock = c <=> pc[c] \in Holding

(***************************************************************************)
(* What a CPU may rely on while it inserts, as long as stores are seen in  *)
(* program order and there was no reset: the tail that it read is still    *)
(* the tail, and the slot it fills stays free.  What the target may rely   *)
(* on: once seen to be filled, the ring stays so until the target removes. *)
(***************************************************************************)
RingSound ==
  ~reordered /\ resets = 0 =>
    /\ pc[Target] = "take" => head # tail
    /\ \A c \in Cpu :
         /\ pc[c] # "storing_irq"
         /\ pc[c] \in {"storing", "storing_tail"} =>
              /\ new_tail[c] = (tail + 1) % M /\ new_tail[c] # head
              /\ irq_id[c] # None
         /\ pc[c] = "locking" => irq_id[c] # None
         /\ pc[c] = "storing_tail" => irqs[tail] = irq_id[c]

QInv == LockHeld /\ RingSound

-----------------------------------------------------------------------------
\* Injecting an interrupt when there is a list register for it.
LEMMA Injects ==
  ASSUME NEW i \in Id, TypeOK, IsFiniteSet(InUse), ~EBUSY(i), inject_irq(i),
         UNCHANGED active
  PROVE  /\ pending' \subseteq Id /\ pending' \cap active' = {}
         /\ IsFiniteSet(InUse') /\ Cardinality(InUse') <= gic_num_lr
<1>1. pending' \subseteq Id /\ pending' \cap active' = {}
  BY DEF TypeOK, inject_irq, InUse
<1>2. InUse' = InUse \cup {i}
  BY DEF InUse, inject_irq
<1>3. IsFiniteSet(InUse \cup {i}) /\ Cardinality(InUse) \in Nat
  BY FS_AddElement, FS_CardinalityType
<1>4. Cardinality(InUse \cup {i}) <= gic_num_lr
  <2>1. CASE i \in InUse
    BY <2>1, FS_AddElement DEF TypeOK
  <2>2. CASE i \notin InUse
    BY <2>2, <1>3, FS_AddElement, IrqChipAssumption DEF EBUSY
  <2> QED
    BY <2>1, <2>2
<1> QED
  BY <1>1, <1>2, <1>3, <1>4

\* The guest ends an interrupt, or the target's interface is reset.
LEMMA Frees ==
  ASSUME TypeOK, IsFiniteSet(InUse), pending' \cup active' \subseteq InUse
  PROVE  IsFiniteSet(InUse') /\ Cardinality(InUse') <= gic_num_lr
<1>1. InUse' \in SUBSET InUse
  BY DEF InUse
<1>2. IsFiniteSet(InUse') /\ Cardinality(InUse') <= Cardinality(InUse)
  BY <1>1, FS_Subset
<1>3. Cardinality(InUse') \in Nat /\ Cardinality(InUse) \in Nat
  BY <1>2, FS_CardinalityType
<1> QED
  BY <1>2, <1>3, IrqChipAssumption DEF TypeOK

\* Steps that leave the list registers alone.
LEMMA SameInUse ==
  ASSUME IInv, UNCHANGED <<pending, active>>
  PROVE  /\ pending' \subseteq Id /\ active' \subseteq Id
         /\ pending' \cap active' = {}
         /\ IsFiniteSet(InUse') /\ Cardinality(InUse') <= gic_num_lr
BY DEF IInv, NotStranded, TypeOK, InUse

\* Every step of the interrupt injection keeps the invariant of NotStranded.
LEMMA InitInv == Init => IInv
<1> SUFFICES ASSUME Init PROVE IInv
  OBVIOUS
<1>1. InUse = {}
  BY DEF Init, InUse
<1>2. IsFiniteSet(InUse) /\ Cardinality(InUse) <= gic_num_lr
  BY <1>1, FS_EmptySet, IrqChipAssumption
<1>3. uie \in BOOLEAN /\ reordered \in BOOLEAN
  BY Zenon DEF Init
<1>4. /\ irqs \in [0..(M - 1) -> Id] /\ lock \in Cpu \cup {None}
      /\ head \in 0..(M - 1) /\ tail \in 0..(M - 1)
      /\ pc \in [Cpu -> {"guest"}] /\ irq_id \in [Cpu -> Id]
      /\ new_tail \in [Cpu -> 0..(M - 1)] /\ resets \in 0..MaxResets
  BY IrqChipAssumption DEF Init, Id, M
<1>5. TypeOK
  BY <1>2, <1>3, <1>4 DEF Init, TypeOK, M
<1> QED
  BY <1>2, <1>5 DEF Init, IInv, NotStranded, KickFollows

LEMMA LocalKeeps ==
  ASSUME NEW i \in HwId, IInv, set_pending_local(i)
  PROVE  IInv'
<1> USE DEF IInv, NotStranded
<1>1. CASE EBUSY(i)
  <2>1. TypeOK' /\ IsFiniteSet(InUse')
    BY <1>1, SameInUse DEF TypeOK, set_pending_local, Goes, Id, Cpu, ring,
       history
  <2>2. NotStranded' /\ KickFollows'
    BY <1>1, <2>1, IrqChipAssumption
    DEF TypeOK, set_pending_local, Goes, Cpu, ring, KickFollows
  <2> QED
    BY <2>1, <2>2
<1>2. CASE ~EBUSY(i)
  <2>1. TypeOK' /\ IsFiniteSet(InUse')
    BY <1>2, Injects DEF TypeOK, set_pending_local, Id, ring, history
  <2> QED
    BY <1>2, <2>1 DEF set_pending_local, ring, KickFollows
<1> QED
  BY <1>1, <1>2

LEMMA RemoteKeeps ==
  ASSUME NEW c \in Remote, NEW i \in SgiId, IInv, set_pending_remote(c, i)
  PROVE  IInv'
<1> USE DEF IInv, NotStranded
<1>1. TypeOK' /\ IsFiniteSet(InUse')
  BY SameInUse DEF TypeOK, set_pending_remote, Goes, Id, Cpu, ring, gich,
     history
<1> QED
  BY <1>1, IrqChipAssumption
  DEF TypeOK, set_pending_remote, Goes, Cpu, ring, gich, KickFollows

LEMMA SetPendingKeeps ==
  ASSUME NEW c \in Cpu, IInv, SetPending(c)
  PROVE  IInv'
<1> USE DEF IInv, NotStranded
<1>1. CASE lock_ring(c)
  <2>1. (tail + 1) % MAX_PENDING_IRQS \in 0..(MAX_PENDING_IRQS - 1)
    BY Wrap DEF M, TypeOK
  <2>2. TypeOK' /\ IsFiniteSet(InUse')
    BY <1>1, <2>1, SameInUse DEF TypeOK, lock_ring, Goes, gich, history
  <2> QED
    BY <1>1, <2>2, IrqChipAssumption
    DEF TypeOK, lock_ring, Goes, gich, Cpu, KickFollows
<1>2. CASE store_irq(c)
  <2>1. Slot(c) \in 0..(MAX_PENDING_IRQS - 1)
    BY Wrap DEF M, TypeOK, Slot
  <2>2. TypeOK' /\ IsFiniteSet(InUse')
    BY <1>2, <2>1, SameInUse
    DEF TypeOK, store_irq, Goes, gich, locals, history
  <2> QED
    BY <1>2, <2>2, IrqChipAssumption
    DEF TypeOK, store_irq, Goes, gich, Cpu, KickFollows
<1>3. CASE store_tail(c)
  <2>1. TypeOK' /\ IsFiniteSet(InUse')
    BY <1>3, SameInUse DEF TypeOK, store_tail, Goes, gich, locals
  <2> QED
    BY <1>3, <2>1, IrqChipAssumption
    DEF TypeOK, store_tail, Goes, gich, Cpu, KickFollows
<1>4. CASE unlock_ring(c)
  <2>1. TypeOK' /\ IsFiniteSet(InUse')
    BY <1>4, SameInUse DEF TypeOK, unlock_ring, Goes, gich, locals, history
  <2> QED
    BY <1>4, <2>1, IrqChipAssumption
    DEF TypeOK, unlock_ring, Goes, gich, Cpu, KickFollows
<1>5. CASE notify(c)
  <2>1. TypeOK' /\ IsFiniteSet(InUse')
    BY <1>5, SameInUse, IrqChipAssumption
    DEF TypeOK, notify, Return, Goes, Id, Cpu, ring, history
  <2> QED
    BY <1>5, <2>1, IrqChipAssumption
    DEF TypeOK, notify, Return, Goes, Cpu, ring, KickFollows
<1> QED
  BY <1>1, <1>2, <1>3, <1>4, <1>5 DEF SetPending

LEMMA HandleKeeps ==
  IInv /\ ((\E c \in Remote : handle_sgi(c)) \/ handle_maintenance) => IInv'
<1> USE DEF IInv, NotStranded
<1>1. ASSUME NEW c \in Remote, IInv, handle_sgi(c)
      PROVE  IInv'
  <2>1. TypeOK' /\ IsFiniteSet(InUse')
    BY <1>1, SameInUse
    DEF TypeOK, handle_sgi, Goes, Cpu, ring, gich, locals, history
  <2> QED
    BY <1>1, <2>1 DEF TypeOK, handle_sgi, Goes, Cpu, KickFollows
<1>2. ASSUME IInv, handle_maintenance
      PROVE  IInv'
  <2>1. TypeOK' /\ IsFiniteSet(InUse')
    BY <1>2, SameInUse
    DEF TypeOK, handle_maintenance, Goes, Cpu, ring, gich, locals, history
  <2> QED
    BY <1>2, <2>1 DEF TypeOK, handle_maintenance, Goes, Cpu, KickFollows
<1> QED
  BY <1>1, <1>2

LEMMA InjectKeeps == IInv /\ InjectPending => IInv'
<1> SUFFICES ASSUME IInv, InjectPending PROVE IInv'
  OBVIOUS
<1> USE DEF IInv, NotStranded
<1>1. CASE inject_pending_test
  <2>1. TypeOK' /\ IsFiniteSet(InUse')
    BY <1>1, SameInUse
    DEF TypeOK, inject_pending_test, Goes, Cpu, ring, gich, locals, history
  <2> QED
    BY <1>1, <2>1
    DEF TypeOK, inject_pending_test, Goes, Cpu, ring, gich, KickFollows
<1>2. CASE inject_pending_take /\ EBUSY(irqs[head])
  <2>1. TypeOK' /\ IsFiniteSet(InUse')
    BY <1>2, SameInUse
    DEF TypeOK, inject_pending_take, Goes, Cpu, locals, history
  <2> QED
    BY <1>2, <2>1 DEF TypeOK, inject_pending_take, Goes, Cpu, KickFollows
<1>3. CASE inject_pending_take /\ ~EBUSY(irqs[head])
  <2>1. (head + 1) % MAX_PENDING_IRQS \in 0..(MAX_PENDING_IRQS - 1)
    BY Wrap DEF M, TypeOK
  <2>2. irqs[head] \in Id
    BY DEF TypeOK
  <2>3. TypeOK' /\ IsFiniteSet(InUse')
    BY <1>3, <2>1, <2>2, Injects
    DEF TypeOK, inject_pending_take, Goes, Cpu, locals, history
  <2> QED
    BY <1>3, <2>3 DEF TypeOK, inject_pending_take, Goes, Cpu, KickFollows
<1>4. CASE inject_pending_empty
  <2>1. TypeOK' /\ IsFiniteSet(InUse')
    BY <1>4, SameInUse
    DEF TypeOK, inject_pending_empty, Goes, Cpu, ring, locals, history
  <2> QED
    BY <1>4, <2>1, IrqChipAssumption
    DEF TypeOK, inject_pending_empty, Goes, Cpu, ring, KickFollows
<1> QED
  BY <1>1, <1>2, <1>3, <1>4 DEF InjectPending

LEMMA ResetKeeps == IInv /\ cpu_reset => IInv'
<1> SUFFICES ASSUME IInv, cpu_reset PROVE IInv'
  OBVIOUS
<1> USE DEF IInv, NotStranded
<1>1. IsFiniteSet(InUse') /\ Cardinality(InUse') <= gic_num_lr
  BY Frees DEF cpu_reset
<1>2. TypeOK'
  BY <1>1, IrqChipAssumption DEF TypeOK, cpu_reset, locals
<1> QED
  BY <1>1, <1>2 DEF cpu_reset, KickFollows

LEMMA GuestKeeps ==
  ASSUME NEW i \in Id, IInv, Guest(i)
  PROVE  IInv'
<1> USE DEF IInv, NotStranded
<1>1. /\ pending' \cup active' \subseteq InUse
      /\ pending' \subseteq Id /\ active' \subseteq Id
      /\ pending' \cap active' = {}
  BY DEF TypeOK, Guest, GuestAcknowledge, GuestEoi, InUse
<1>2. UNCHANGED <<ring, uie, kicks, pc, locals, history>>
  BY DEF Guest, GuestAcknowledge, GuestEoi
<1>3. IsFiniteSet(InUse') /\ Cardinality(InUse') <= gic_num_lr
  BY <1>1, Frees
<1>4. TypeOK'
  BY <1>1, <1>2, <1>3 DEF TypeOK, ring, locals, history
<1> QED
  BY <1>2, <1>3, <1>4 DEF ring, KickFollows

LEMMA StepKeeps == IInv /\ [Next]_vars => IInv'
<1> SUFFICES ASSUME IInv, [Next]_vars PROVE IInv'
  OBVIOUS
<1>1. CASE UNCHANGED vars
  BY <1>1 DEF vars, ring, gich, locals, history, IInv, NotStranded, TypeOK,
     InUse, KickFollows
<1> QED
  BY <1>1, LocalKeeps, RemoteKeeps, SetPendingKeeps, HandleKeeps, InjectKeeps,
     ResetKeeps, GuestKeeps DEF Next

(***************************************************************************)
(* No interrupt is stranded in the ring, whatever is sent, reset or        *)
(* acknowledged at any time, and even if the stores to the ring are seen   *)
(* out of order.                                                           *)
(***************************************************************************)
THEOREM Stranded == Spec => []NotStranded
<1>1. IInv => NotStranded
  BY DEF IInv
<1> QED
  BY <1>1, InitInv, StepKeeps, PTL DEF Spec

-----------------------------------------------------------------------------
(* The ring as a queue. *)

\* The slot of the k-th entry, and the number of entries.
At(k) == (head + k - 1) % M
Filled == (tail - head) % M

\* Both without the modulus.
IndicesWrap ==
  /\ Filled = IF head <= tail THEN tail - head ELSE tail - head + M
  /\ Filled \in 0..(M - 1)
  /\ \A k \in 1..M :
       /\ At(k) = IF head + k - 1 < M THEN head + k - 1 ELSE head + k - 1 - M
       /\ At(k) \in 0..(M - 1)
  /\ (tail + 1) % M = IF tail + 1 < M THEN tail + 1 ELSE 0
  /\ (head + 1) % M = IF head + 1 < M THEN head + 1 ELSE 0

\* The indices of the ring wrap around at most once.
LEMMA Indices == TypeOK => IndicesWrap
<1> SUFFICES ASSUME TypeOK PROVE IndicesWrap
  OBVIOUS
<1>1. /\ head \in 0..(M - 1) /\ tail \in 0..(M - 1)
      /\ M \in Nat \ {0, 1}
  BY IrqChipAssumption DEF TypeOK, M
<1> HIDE DEF M
<1>2. Filled = IF head <= tail THEN tail - head ELSE tail - head + M
  <2>1. CASE head <= tail
    <3>1. tail - head \in 0..(M - 1)
      BY <1>1, <2>1
    <3> QED
      BY <3>1, <2>1, Wrap DEF Filled
  <2>2. CASE ~(head <= tail)
    <3>1. tail - head \in (-M)..(-1)
      BY <1>1, <2>2
    <3> QED
      BY <3>1, <2>2, Wrap DEF Filled
  <2> QED
    BY <2>1, <2>2
<1>3. ASSUME NEW k \in 1..M
      PROVE  At(k) = IF head + k - 1 < M THEN head + k - 1
                                         ELSE head + k - 1 - M
  <2> DEFINE i == head + k - 1
  <2>1. At(k) = i % M
    BY DEF At
  <2>2. i \in 0..(2 * M - 1)
    BY <1>1
  <2> SUFFICES At(k) = IF i < M THEN i ELSE i - M
    BY <1>1
  <2> HIDE DEF i
  <2>3. CASE i < M
    <3>1. i \in 0..(M - 1)
      BY <1>1, <2>2, <2>3
    <3> QED
      BY <3>1, <2>1, <2>3, Wrap
  <2>4. CASE ~(i < M)
    <3>1. i \in M..(2 * M - 1)
      BY <1>1, <2>2, <2>4
    <3>2. i % M = i - M
      BY <3>1, Wrap
    <3> QED
      BY <3>2, <2>1, <2>4
  <2> QED
    BY <2>3, <2>4
<1>4. ASSUME NEW i \in 0..(M - 1)
      PROVE  (i + 1) % M = IF i + 1 < M THEN i + 1 ELSE 0
  <2>1. CASE i + 1 < M
    <3>1. i + 1 \in 0..(M - 1)
      BY <1>1, <2>1
    <3> QED
      BY <3>1, <2>1, Wrap
  <2>2. CASE ~(i + 1 < M)
    <3>1. i + 1 = M /\ M \in M..(2 * M - 1)
      BY <1>1, <2>2
    <3>2. M % M = M - M
      BY <3>1, Wrap
    <3> QED
      BY <3>1, <3>2, <2>2, <1>1
  <2> QED
    BY <2>1, <2>2
<1> QED
  BY <1>1, <1>2, <1>3, <1>4 DEF IndicesWrap

\* The queue is the sequence of the entries from the head on.
QueueIsSeq ==
  /\ Queue \in Seq(Id) /\ Len(Queue) = Filled
  /\ \A k \in 1..Filled : Queue[k] = irqs[At(k)]

\* Its length is the number of filled slots.
LEMMA QueueSeq == TypeOK => QueueIsSeq
<1> SUFFICES ASSUME TypeOK PROVE QueueIsSeq
  OBVIOUS
<1>1. Queue = [k \in 1..Filled |-> irqs[At(k)]]
  BY DEF Queue, Filled, At, M
<1>2. Filled \in Nat /\ Filled <= M - 1 /\ M \in Nat
      /\ \A k \in 1..Filled : At(k) \in 0..(M - 1)
  BY Indices, IrqChipAssumption DEF IndicesWrap, M
<1>3. \A k \in 1..Filled : irqs[At(k)] \in Id
  BY <1>2 DEF TypeOK, M
<1>4. \A n \in Nat : \A f \in [1..n -> Id] : f \in Seq(Id) /\ Len(f) = n
  OBVIOUS
<1> QED
  BY <1>1, <1>2, <1>3, <1>4 DEF QueueIsSeq

\* A store to a slot outside the queue leaves the queue alone.
LEMMA StoreOutside ==
  ASSUME TypeOK, TypeOK', UNCHANGED <<head, tail>>,
         \A k \in 1..Filled : irqs'[At(k)] = irqs[At(k)]
  PROVE  Queue' = Queue
<1>1. Filled' = Filled /\ \A k : At(k)' = At(k)
  BY DEF Filled, At, M
<1>2. /\ Queue \in Seq(Id) /\ Len(Queue) = Filled
      /\ \A k \in 1..Filled : Queue[k] = irqs[At(k)]
  BY QueueSeq DEF QueueIsSeq
<1>3. /\ Queue' \in Seq(Id) /\ Len(Queue') = Filled'
      /\ \A k \in 1..Filled' : Queue'[k] = irqs'[At(k)']
  <2>1. QueueIsSeq'
    BY QueueSeq, PTL
  <2> QED
    BY <2>1 DEF QueueIsSeq
<1>4. \A k \in 1..Filled : Queue'[k] = Queue[k]
  BY <1>1, <1>2, <1>3
<1> QED
  BY <1>1, <1>2, <1>3, <1>4, SeqEqual

\* The tail slot is not in the queue.
LEMMA TailOutside ==
  ASSUME TypeOK
  PROVE  \A k \in 1..Filled : At(k) # tail
BY Indices, IrqChipAssumption DEF IndicesWrap, TypeOK, M

\* Advancing the tail of a ring that is not full appends what is there.
LEMMA AdvanceTail ==
  ASSUME TypeOK, TypeOK', UNCHANGED <<head, irqs>>,
         tail' = (tail + 1) % M, tail' # head
  PROVE  Queue' = Append(Queue, irqs[tail])
<1>1. Filled' = Filled + 1 /\ \A k : At(k)' = At(k)
  <2>1. /\ head \in 0..(M - 1) /\ tail \in 0..(M - 1)
        /\ M \in Nat \ {0, 1}
    BY IrqChipAssumption DEF TypeOK, M
  <2>2. IndicesWrap'
    BY Indices, PTL
  <2>3. Filled' = IF head' <= tail' THEN tail' - head' ELSE tail' - head' + M
    BY <2>2 DEF IndicesWrap, M
  <2>4. Filled = IF head <= tail THEN tail - head ELSE tail - head + M
    BY Indices DEF IndicesWrap
  <2>5. tail' = IF tail + 1 < M THEN tail + 1 ELSE 0
    BY Indices DEF IndicesWrap
  <2>6. \A k : At(k)' = At(k)
    BY DEF At, M
  <2> QED
    BY <2>1, <2>3, <2>4, <2>5, <2>6
<1>2. At(Filled + 1) = tail
  BY Indices, IrqChipAssumption DEF IndicesWrap, TypeOK, M
<1>3. /\ Queue \in Seq(Id) /\ Len(Queue) = Filled
      /\ \A k \in 1..Filled : Queue[k] = irqs[At(k)]
  BY QueueSeq DEF QueueIsSeq
<1>4. /\ Queue' \in Seq(Id) /\ Len(Queue') = Filled'
      /\ \A k \in 1..Filled' : Queue'[k] = irqs'[At(k)']
  <2>1. QueueIsSeq'
    BY QueueSeq, PTL
  <2> QED
    BY <2>1 DEF QueueIsSeq
<1>5. irqs[tail] \in Id /\ Filled \in Nat
  BY Indices, IrqChipAssumption DEF IndicesWrap, TypeOK, M
<1> DEFINE Q == Append(Queue, irqs[tail])
<1>6. /\ Q \in Seq(Id) /\ Len(Q) = Filled + 1
      /\ \A k \in 1..Filled : Q[k] = Queue[k]
      /\ Q[Filled + 1] = irqs[tail]
  BY <1>3, <1>5, AppendProperties
<1> HIDE DEF Q
<1>7. \A k \in 1..(Filled + 1) : Queue'[k] = Q[k]
  BY <1>1, <1>2, <1>3, <1>4, <1>5, <1>6
<1>8. Queue' = Q
  BY <1>1, <1>4, <1>6, <1>7, SeqEqual
<1> QED
  BY <1>8 DEF Q

\* Advancing the head of a ring that is not empty removes the oldest entry.
LEMMA AdvanceHead ==
  ASSUME TypeOK, TypeOK', UNCHANGED <<tail, irqs>>,
         head' = (head + 1) % M, head # tail
  PROVE  Queue # <<>> /\ Queue' = Tail(Queue)
<1>1. Filled' = Filled - 1 /\ Filled \in Nat \ {0}
  <2>1. /\ head \in 0..(M - 1) /\ tail \in 0..(M - 1)
        /\ M \in Nat \ {0, 1}
    BY IrqChipAssumption DEF TypeOK, M
  <2>2. IndicesWrap'
    BY Indices, PTL
  <2>3. Filled' = IF head' <= tail' THEN tail' - head' ELSE tail' - head' + M
    BY <2>2 DEF IndicesWrap, M
  <2>4. Filled = IF head <= tail THEN tail - head ELSE tail - head + M
    BY Indices DEF IndicesWrap
  <2>5. head' = IF head + 1 < M THEN head + 1 ELSE 0
    BY Indices DEF IndicesWrap
  <2> QED
    BY <2>1, <2>3, <2>4, <2>5
<1>2. ASSUME NEW k \in 1..(Filled - 1)
      PROVE  At(k)' = At(k + 1)
  <2>1. k \in 1..M /\ k + 1 \in 1..M
    BY Indices, IrqChipAssumption, <1>1 DEF IndicesWrap, M
  <2>2. \A j \in 1..M : At(j)' = IF head' + j - 1 < M THEN head' + j - 1
                                              ELSE head' + j - 1 - M
    <3>1. IndicesWrap'
      BY Indices, PTL
    <3> QED
      BY <3>1 DEF IndicesWrap, M
  <2>3. \A j \in 1..M : At(j) = IF head + j - 1 < M THEN head + j - 1
                                              ELSE head + j - 1 - M
    BY Indices DEF IndicesWrap
  <2>4. head' = IF head + 1 < M THEN head + 1 ELSE 0
    BY Indices DEF IndicesWrap
  <2>5. head \in 0..(M - 1) /\ M \in Nat \ {0, 1}
    BY IrqChipAssumption DEF TypeOK, M
  <2>6. At(k)' = IF head' + k - 1 < M THEN head' + k - 1
                                     ELSE head' + k - 1 - M
    BY <2>1, <2>2
  <2>7. At(k + 1) = IF head + (k + 1) - 1 < M THEN head + (k + 1) - 1
                                             ELSE head + (k + 1) - 1 - M
    BY <2>1, <2>3
  <2>8. k \in Nat \ {0}
    BY <1>1
  <2> QED
    BY <2>1, <2>4, <2>5, <2>6, <2>7, <2>8
<1>3. /\ Queue \in Seq(Id) /\ Len(Queue) = Filled
      /\ \A k \in 1..Filled : Queue[k] = irqs[At(k)]
  BY QueueSeq DEF QueueIsSeq
<1>4. /\ Queue' \in Seq(Id) /\ Len(Queue') = Filled'
      /\ \A k \in 1..Filled' : Queue'[k] = irqs'[At(k)']
  <2>1. QueueIsSeq'
    BY QueueSeq, PTL
  <2> QED
    BY <2>1 DEF QueueIsSeq
<1>5. Queue # <<>>
  BY <1>1, <1>3
<1>6. /\ Tail(Queue) \in Seq(Id) /\ Len(Tail(Queue)) = Filled - 1
      /\ \A k \in 1..(Filled - 1) : Tail(Queue)[k] = Queue[k + 1]
  BY <1>3, <1>5, HeadTailProperties
<1>7. \A k \in 1..(Filled - 1) : Queue'[k] = Tail(Queue)[k]
  <2> SUFFICES ASSUME NEW k \in 1..(Filled - 1)
               PROVE  Queue'[k] = Tail(Queue)[k]
    OBVIOUS
  <2>1. k + 1 \in 1..Filled /\ k \in 1..Filled'
    BY <1>1
  <2> QED
    BY <2>1, <1>2, <1>3, <1>4, <1>6
<1>8. Queue' = Tail(Queue)
  BY <1>1, <1>4, <1>6, <1>7, SeqEqual
<1> QED
  BY <1>5, <1>8

-----------------------------------------------------------------------------
(***************************************************************************)
(* Every step keeps the lock with the CPU that took it, and keeps what the *)
(* inserting CPU and the target rely on.                                   *)
(***************************************************************************)
LEMMA LockKept ==
  ASSUME IInv, LockHeld, [Next]_vars
  PROVE  LockHeld'
<1> USE IrqChipAssumption
    DEF IInv, NotStranded, TypeOK, LockHeld, Holding, Cpu, Goes
<1>1. CASE UNCHANGED vars
  BY <1>1 DEF vars, ring
<1>2. ASSUME NEW i \in HwId, set_pending_local(i)
      PROVE  LockHeld'
  BY <1>2 DEF set_pending_local, ring
<1>3. ASSUME NEW c \in Remote, NEW i \in SgiId, set_pending_remote(c, i)
      PROVE  LockHeld'
  BY <1>3 DEF set_pending_remote, ring
<1>4. ASSUME NEW c \in Cpu, SetPending(c)
      PROVE  LockHeld'
  <2>1. CASE lock_ring(c)
    BY <2>1 DEF lock_ring
  <2>2. CASE store_irq(c)
    BY <2>2 DEF store_irq
  <2>3. CASE store_tail(c)
    BY <2>3 DEF store_tail
  <2>4. CASE unlock_ring(c)
    BY <2>4 DEF unlock_ring
  <2>5. CASE notify(c)
    BY <2>5 DEF notify, Return, ring
  <2> QED
    BY <1>4, <2>1, <2>2, <2>3, <2>4, <2>5 DEF SetPending
<1>5. ASSUME NEW c \in Remote, handle_sgi(c)
      PROVE  LockHeld'
  BY <1>5 DEF handle_sgi, ring
<1>6. CASE handle_maintenance
  BY <1>6 DEF handle_maintenance, ring
<1>7. CASE InjectPending
  BY <1>7 DEF InjectPending, inject_pending_test, inject_pending_take,
     inject_pending_empty, ring
<1>8. CASE cpu_reset
  BY <1>8 DEF cpu_reset
<1>9. ASSUME NEW i \in Id, Guest(i)
      PROVE  LockHeld'
  BY <1>9 DEF Guest, GuestAcknowledge, GuestEoi, ring
<1> QED
  BY <1>1, <1>2, <1>3, <1>4, <1>5, <1>6, <1>7, <1>8, <1>9 DEF Next

\* In a sound ring, the slot a CPU stores to is that of the tail.
LEMMA SlotIsTail ==
  ASSUME NEW c \in Cpu, TypeOK, new_tail[c] = (tail + 1) % M
  PROVE  Slot(c) = tail
<1>1. tail \in 0..(M - 1) /\ M \in Nat \ {0, 1}
  BY IrqChipAssumption DEF TypeOK, M
<1>2. new_tail[c] = IF tail + 1 < M THEN tail + 1 ELSE 0
  BY Indices DEF IndicesWrap
<1>3. CASE tail + 1 < M
  BY <1>1, <1>2, <1>3, Wrap DEF Slot, M
<1>4. CASE ~(tail + 1 < M)
  <2>1. new_tail[c] - 1 = -1 /\ -1 \in (-M)..(-1) /\ tail = -1 + M
    BY <1>1, <1>2, <1>4
  <2>2. (-1) % M = -1 + M
    BY <2>1, Wrap
  <2> QED
    BY <2>1, <2>2 DEF Slot, M
<1> QED
  BY <1>3, <1>4

LEMMA RingSoundKept ==
  ASSUME IInv, IInv', LockHeld, RingSound, [Next]_vars
  PROVE  RingSound'
<1> SUFFICES ASSUME ~reordered', resets' = 0
             PROVE  RingSound'
  BY DEF RingSound
<1>0. ~reordered /\ resets = 0
  <2>1. reordered => reordered'
    BY DEF Next, vars, history, set_pending_local, set_pending_remote,
       SetPending, lock_ring, store_irq, store_tail, unlock_ring, notify,
       handle_sgi, handle_maintenance, InjectPending, inject_pending_test,
       inject_pending_take, inject_pending_empty, cpu_reset, Guest,
       GuestAcknowledge, GuestEoi
  <2>2. resets' \in {resets, resets + 1}
    BY DEF Next, vars, history, set_pending_local, set_pending_remote,
       SetPending, lock_ring, store_irq, store_tail, unlock_ring, notify,
       handle_sgi, handle_maintenance, InjectPending, inject_pending_test,
       inject_pending_take, inject_pending_empty, cpu_reset, Guest,
       GuestAcknowledge, GuestEoi
  <2> QED
    BY <2>1, <2>2 DEF IInv, NotStranded, TypeOK
<1> USE <1>0, IrqChipAssumption
    DEF IInv, NotStranded, TypeOK, RingSound, Cpu, Goes
<1>1. CASE UNCHANGED vars
  BY <1>1 DEF vars, ring, locals
<1>2. ASSUME NEW i \in HwId, set_pending_local(i)
      PROVE  RingSound'
  BY <1>2 DEF set_pending_local, ring
<1>3. ASSUME NEW c \in Remote, NEW i \in SgiId, set_pending_remote(c, i)
      PROVE  RingSound'
  BY <1>3 DEF set_pending_remote, ring
<1>4. ASSUME NEW c \in Cpu, SetPending(c)
      PROVE  RingSound'
  <2>1. CASE lock_ring(c)
    BY <2>1 DEF lock_ring, LockHeld, Holding, M
  <2>2. CASE store_irq(c)
    <3>1. pc[c] = "storing" /\ Slot(c) = tail
      BY <2>2, SlotIsTail DEF store_irq
    <3> QED
      BY <2>2, <3>1 DEF store_irq, LockHeld, Holding, locals
  <2>3. CASE store_tail(c)
    <3>1. \A d \in Cpu : d # c => pc[d] \notin Holding
      BY <2>3 DEF store_tail, LockHeld, Holding
    <3> QED
      BY <2>3, <3>1 DEF store_tail, Holding, locals
  <2>4. CASE unlock_ring(c)
    BY <2>4 DEF unlock_ring, locals
  <2>5. CASE notify(c)
    BY <2>5 DEF notify, Return, ring
  <2> QED
    BY <1>4, <2>1, <2>2, <2>3, <2>4, <2>5 DEF SetPending
<1>5. ASSUME NEW c \in Remote, handle_sgi(c)
      PROVE  RingSound'
  BY <1>5 DEF handle_sgi, ring, locals
<1>6. CASE handle_maintenance
  BY <1>6 DEF handle_maintenance, ring, locals
<1>7. CASE InjectPending
  <2>1. CASE inject_pending_test
    BY <2>1 DEF inject_pending_test, ring, locals
  <2>2. CASE inject_pending_take
    <3>1. head # tail
      BY <2>2 DEF inject_pending_take
    <3>2. head' = head \/ head' = (head + 1) % M
      BY <2>2 DEF inject_pending_take, M
    <3>3. head' # (tail + 1) % M \/ head' = head
      <4>1. /\ (tail + 1) % M = IF tail + 1 < M THEN tail + 1 ELSE 0
            /\ (head + 1) % M = IF head + 1 < M THEN head + 1 ELSE 0
        BY Indices DEF IndicesWrap
      <4>2. /\ head \in 0..(M - 1) /\ tail \in 0..(M - 1)
            /\ M \in Nat \ {0, 1}
        BY DEF M
      <4>3. (head + 1) % M # (tail + 1) % M
        BY ONLY <4>1, <4>2, <3>1
      <4> QED
        BY <4>3, <3>2
    <3> QED
      BY <2>2, <3>3 DEF inject_pending_take, locals
  <2>3. CASE inject_pending_empty
    BY <2>3 DEF inject_pending_empty, ring, locals
  <2> QED
    BY <1>7, <2>1, <2>2, <2>3 DEF InjectPending
<1>8. CASE cpu_reset
  BY <1>8 DEF cpu_reset
<1>9. ASSUME NEW i \in Id, Guest(i)
      PROVE  RingSound'
  BY <1>9 DEF Guest, GuestAcknowledge, GuestEoi, ring, locals
<1> QED
  BY <1>1, <1>2, <1>3, <1>4, <1>5, <1>6, <1>7, <1>8, <1>9 DEF Next

\* A step that changes neither the entries nor the indices.
LEMMA SameRing ==
  ASSUME UNCHANGED <<irqs, head, tail>>
  PROVE  QueueStep
BY DEF QueueStep, Queue

(***************************************************************************)
(* Every step does to the queue what QueueStep allows.                     *)
(***************************************************************************)
LEMMA QueueStepTaken ==
  ASSUME IInv, IInv', QInv, [Next]_vars
  PROVE  QueueStep
<1> USE DEF IInv, NotStranded
<1>1. ASSUME NEW c \in Cpu, store_irq(c)
      PROVE  QueueStep
  <2> SUFFICES ASSUME ~reordered', resets' = 0
               PROVE  Queue' = Queue
    BY DEF QueueStep
  <2>1. ~reordered /\ resets = 0
    BY <1>1 DEF store_irq, history
  <2>2. Slot(c) = tail
    BY <1>1, <2>1, SlotIsTail DEF QInv, RingSound, store_irq, Goes
  <2>3. \A k \in 1..Filled : irqs'[At(k)] = irqs[At(k)]
    <3> SUFFICES ASSUME NEW k \in 1..Filled
                 PROVE  irqs'[At(k)] = irqs[At(k)]
      OBVIOUS
    <3>1. At(k) # tail
      BY TailOutside
    <3>2. irqs' = [irqs EXCEPT ![tail] = irq_id[c]]
      BY <1>1, <2>2 DEF store_irq
    <3>3. At(k) \in DOMAIN irqs
      <4>1. k \in 1..M
        BY Indices, IrqChipAssumption DEF IndicesWrap, M
      <4> QED
        BY <4>1, Indices DEF IndicesWrap, TypeOK, M
    <3> QED
      BY <3>1, <3>2, <3>3
  <2> QED
    BY <1>1, <2>3, StoreOutside DEF store_irq
<1>2. ASSUME NEW c \in Cpu, store_tail(c)
      PROVE  QueueStep
  <2> SUFFICES ASSUME ~reordered', resets' = 0
               PROVE  /\ irq_id[c] # None
                      /\ Queue' = Append(Queue, irq_id[c])
    BY DEF QueueStep
  <2>1. ~reordered /\ resets = 0 /\ pc[c] = "storing_tail"
    BY <1>2 DEF store_tail, Goes
  <2>2. /\ tail' = (tail + 1) % M /\ tail' # head
        /\ irqs[tail] = irq_id[c] /\ irq_id[c] # None
    BY <1>2, <2>1 DEF QInv, RingSound, store_tail
  <2> QED
    BY <1>2, <2>2, AdvanceTail DEF store_tail
<1>3. CASE inject_pending_take
  <2> SUFFICES ASSUME ~reordered', resets' = 0, ~EBUSY(irqs[head])
               PROVE  Queue # <<>> /\ Queue' = Tail(Queue)
    BY <1>3, SameRing DEF QueueStep, inject_pending_take
  <2>1. head # tail
    BY <1>3 DEF QInv, RingSound, inject_pending_take, history
  <2> QED
    BY <1>3, <2>1, AdvanceHead DEF inject_pending_take, M
<1>4. CASE cpu_reset
  BY <1>4 DEF cpu_reset, QueueStep, TypeOK
<1>5. CASE UNCHANGED <<irqs, head, tail>>
  BY <1>5, SameRing
<1> QED
  BY <1>1, <1>2, <1>3, <1>4, <1>5
  DEF Next, vars, ring, set_pending_local, set_pending_remote, SetPending,
      lock_ring, unlock_ring, notify, handle_sgi, handle_maintenance,
      InjectPending, inject_pending_test, inject_pending_empty, Guest,
      GuestAcknowledge, GuestEoi

(***************************************************************************)
(* The ring is a first-in, first-out queue for any number of CPUs that     *)
(* insert under the lock while the target removes without it, as long as   *)
(* stores are seen in program order and the target is not reset.           *)
(***************************************************************************)
THEOREM LocklessRemoval == Spec => RingIsQueue
<1>1. Init => QInv
  BY IrqChipAssumption
  DEF Init, QInv, LockHeld, Holding, RingSound, Cpu
<1>2. IInv /\ IInv' /\ QInv /\ [Next]_vars => QInv'
  BY LockKept, RingSoundKept DEF QInv
<1>3. IInv /\ IInv' /\ QInv /\ [Next]_vars => QueueStep
  BY QueueStepTaken
<1> QED
  BY <1>1, <1>2, <1>3, InitInv, StepKeeps, PTL DEF Spec, RingIsQueue
=============================================================================
