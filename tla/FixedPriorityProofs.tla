------------------------- MODULE FixedPriorityProofs -------------------------
(***************************************************************************)
(* Proofs about the fixed-priority arbitration, for every set of at most   *)
(* MAX_CPUS CPUs and every width of an unsigned int.                       *)
(***************************************************************************)
EXTENDS FixedPriority, FiniteSetTheorems, TLAPS

\* A non-empty set of CPUs or priorities has a greatest element.
LEMMA SmallMax ==
  ASSUME NEW T, T \subseteq 0..MAX_PRIORITY, T # {}
  PROVE  \E x \in T : \A y \in T : y <= x
  <1> USE DEF MAX_PRIORITY
  <1>1. CASE 6 \in T BY <1>1
  <1>2. CASE 6 \notin T /\ 5 \in T BY <1>2
  <1>3. CASE 6 \notin T /\ 5 \notin T /\ 4 \in T BY <1>3
  <1>4. CASE 6 \notin T /\ 5 \notin T /\ 4 \notin T /\ 3 \in T BY <1>4
  <1>5. CASE 6 \notin T /\ 5 \notin T /\ 4 \notin T /\ 3 \notin T
    <2>1. T \subseteq 0..2 BY <1>5
    <2>2. CASE 2 \in T BY <2>1, <2>2
    <2>3. CASE 2 \notin T /\ 1 \in T BY <2>1, <2>3
    <2>4. CASE 2 \notin T /\ 1 \notin T
      <3>1. \A t \in T : t = 0 BY <2>1, <2>4
      <3>2. PICK t \in T : TRUE OBVIOUS
      <3> QED BY <3>1, <3>2
    <2> QED BY <2>2, <2>3, <2>4
  <1> QED BY <1>1, <1>2, <1>3, <1>4, <1>5

\* The id the driver picks is small: the ids below it are all in use, and the
\* root cell keeps a CPU beside the one it gives away.
LEMMA LowIds ==
  ASSUME TypeOK, NEW cpu \in Cpu, NEW d \in Cpu \ {cpu},
         cell_id[cpu] = ROOT, cell_id[d] = ROOT,
         NEW id \in Nat, LowestFreeId(id)
  PROVE  id \in 1..(MAX_CPUS - 1)
  <1> DEFINE S == Cpu \ {cpu}
             g == [c \in S |-> cell_id[c]]
  <1>1. IsFiniteSet(Cpu) /\ Cardinality(Cpu) \in Nat /\ Cardinality(Cpu) <= MAX_CPUS
    <2>1. IsFiniteSet(0..5) /\ Cardinality(0..5) = 6
      <3>1. /\ IsFiniteSet(0..5)
            /\ Cardinality(0..5) = IF 0 > 5 THEN 0 ELSE 5 - 0 + 1
        BY ONLY FS_Interval, 0 \in Int, 5 \in Int, Zenon
      <3> QED BY ONLY <3>1
    <2>2. Cpu \in SUBSET (0..5)
      BY CpuAssumption DEF MAX_CPUS
    <2> QED
      BY <2>1, <2>2, FS_Subset, FS_CardinalityType DEF MAX_CPUS
  <1>2. IsFiniteSet(S) /\ Cardinality(S) = Cardinality(Cpu) - 1
    BY <1>1, FS_RemoveElement
  <1>3. UsedIds = {g[c] : c \in S}
    BY DEF UsedIds
  <1>4. g \in Surjection(S, UsedIds)
    BY <1>3 DEF Surjection
  <1>5. IsFiniteSet(UsedIds) /\ Cardinality(UsedIds) <= Cardinality(S)
    BY <1>2, <1>4, FS_Surjection DEF ExistsSurjection
  <1>6. 0..(id - 1) \in SUBSET UsedIds
    BY DEF LowestFreeId, ROOT
  <1>7. Cardinality(0..(id - 1)) = id
    BY FS_Interval
  <1>8. id <= Cardinality(UsedIds)
    BY <1>5, <1>6, <1>7, FS_Subset
  <1>9. Cardinality(UsedIds) \in Nat
    BY <1>5, FS_CardinalityType
  <1>10. id # 0
    BY DEF LowestFreeId, UsedIds, ROOT
  <1> QED
    BY <1>1, <1>2, <1>5, <1>8, <1>9, <1>10 DEF MAX_CPUS

-----------------------------------------------------------------------------
\* The inductive invariant.  That requests stay within 1..MAX_PRIORITY-1 needs
\* PrioritiesInRange; that a waiting CPU is found by the walk over the first
\* CPUs of the cells needs DistinctIds.
IInv ==
  /\ TypeOK
  /\ DistinctIds
  /\ PrioritiesInRange
  /\ RequestsOfLiveCells
  /\ TokenConsistent
  /\ OwnerIsHighest
  /\ GuestsInformed

\* Requests of a state of the invariant, one of them possibly withdrawn.
LEMMA RequestRange ==
  ASSUME IInv, NEW c \in Cpu
  PROVE  memory_requests[c] \in 0..MAX_PRIORITY
  BY DEF IInv, TypeOK, PrioritiesInRange, RequestsOfLiveCells, MAX_PRIORITY,
         TOKEN_NULL_PRIORITY

\* The walk of disable_memory_request frees the token only when nobody
\* requests it, and otherwise finds a greatest request.
LEMMA NextOwnerIsHighest ==
  ASSUME IInv, NEW req \in [Cpu -> 0..MAX_PRIORITY],
         \A c \in Cpu : req[c] # 0 => cell_id[c] # ROOT
  PROVE  \/ NextOwner(req) = TOKEN_FREE /\ \A c \in Cpu : req[c] = 0
         \/ /\ NextOwner(req) \in Cpu
            /\ req[NextOwner(req)] > 0
            /\ \A d \in Cpu : req[d] <= req[NextOwner(req)]
  <1>1. \A c \in Cpu : req[c] # 0 => IsFirstCpu(c)
    BY CpuAssumption DEF IInv, DistinctIds, IsFirstCpu, MAX_CPUS
  <1>2. CASE \A c \in Cpu : req[c] = 0
    <2>1. Candidates(req) = {}
      BY <1>2 DEF Candidates, TOKEN_NULL_PRIORITY
    <2> QED BY <1>2, <2>1 DEF NextOwner
  <1>3. CASE \E c \in Cpu : req[c] # 0
    <2> DEFINE T == {req[c] : c \in Cpu}
    <2>1. T \subseteq 0..MAX_PRIORITY /\ T # {}
      BY <1>3
    <2>2. PICK x \in T : \A y \in T : y <= x
      BY <2>1, SmallMax
    <2>3. PICK c \in Cpu : req[c] = x
      BY <2>2
    <2>4. \A d \in Cpu : req[d] <= req[c]
      BY <2>2, <2>3
    <2>5. req[c] > 0
      BY <1>3, <2>4 DEF MAX_PRIORITY
    <2>6. c \in Candidates(req)
      BY <1>1, <2>4, <2>5 DEF Candidates, TOKEN_NULL_PRIORITY
    <2>7. NextOwner(req) \in Candidates(req)
      BY <2>6 DEF NextOwner
    <2> QED
      <3>1. /\ NextOwner(req) \in Cpu
            /\ req[NextOwner(req)] > 0
            /\ \A d \in Cpu : IsFirstCpu(d) => req[d] <= req[NextOwner(req)]
        BY <2>7 DEF Candidates, TOKEN_NULL_PRIORITY
      <3>2. \A d \in Cpu : req[d] <= req[NextOwner(req)]
        BY <1>1, <3>1 DEF MAX_PRIORITY
      <3> QED BY <3>1, <3>2
  <1> QED BY <1>2, <1>3

\* What disable_memory_request does to the arbitration.
LEMMA DisableEffect ==
  ASSUME IInv, NEW cpu \in Cpu, disable_memory_request(cpu)
  PROVE  /\ memory_requests' = Without(cpu)
         /\ memory_requests' \in [Cpu -> Nat]
         /\ token_owner' \in Cpu \cup {TOKEN_FREE}
         /\ token_priority' \in Nat
         /\ token_owner' # cpu
         /\ token_owner # cpu => token_owner' = token_owner
         /\ TokenConsistent'
         /\ OwnerIsHighest'
  <1>1. /\ Without(cpu) \in [Cpu -> 0..MAX_PRIORITY]
        /\ \A c \in Cpu : Without(cpu)[c] # 0 => cell_id[c] # ROOT
        /\ Without(cpu)[cpu] = 0
        /\ \A c \in Cpu \ {cpu} : Without(cpu)[c] = memory_requests[c]
    BY RequestRange DEF IInv, TypeOK, RequestsOfLiveCells, Without, TOKEN_NULL_PRIORITY, MAX_PRIORITY
  <1>2. memory_requests' = Without(cpu)
    BY DEF disable_memory_request
  <1>3. TOKEN_FREE \notin Cpu
    BY CpuAssumption DEF TOKEN_FREE, MAX_CPUS
  <1>4. CASE token_owner = cpu
    <2> DEFINE next == NextOwner(Without(cpu))
    <2>1. /\ token_owner' = next
          /\ token_priority' = IF next = TOKEN_FREE THEN 0 ELSE Without(cpu)[next]
      BY <1>4 DEF disable_memory_request, TOKEN_NULL_PRIORITY
    <2>2. \/ next = TOKEN_FREE /\ \A c \in Cpu : Without(cpu)[c] = 0
          \/ /\ next \in Cpu
             /\ Without(cpu)[next] > 0
             /\ \A d \in Cpu : Without(cpu)[d] <= Without(cpu)[next]
      BY <1>1, NextOwnerIsHighest
    <2> HIDE DEF next
    <2> QED
      BY <1>1, <1>2, <1>3, <1>4, <2>1, <2>2
         DEF TokenConsistent, OwnerIsHighest, TOKEN_NULL_PRIORITY, MAX_PRIORITY
  <1>5. CASE token_owner # cpu
    <2>1. UNCHANGED <<token_owner, token_priority>>
      BY <1>5 DEF disable_memory_request
    <2> QED
      BY <1>1, <1>2, <1>3, <1>5, <2>1
         DEF IInv, TypeOK, TokenConsistent, OwnerIsHighest, TOKEN_NULL_PRIORITY, MAX_PRIORITY
  <1> QED BY <1>4, <1>5

\* Withdrawing a request, for a hypercall or for a CPU that is parked, keeps
\* the parts of the invariant that relate the CPUs to the arbitration; the
\* CPU may change cells in the same step.
LEMMA WithdrawKeeps ==
  ASSUME IInv, NEW cpu \in Cpu, disable_memory_request(cpu),
         NEW state \in {"none", "parked"}, told' = ToldAfterDisable(cpu, state),
         cell_id' \in [Cpu -> ROOT..MAX_CELL_ID],
         \A c \in Cpu \ {cpu} : cell_id'[c] = cell_id[c]
  PROVE  /\ TypeOK'
         /\ RequestsOfLiveCells'
         /\ GuestsInformed'
  <1>1. /\ \A c \in Cpu \ {cpu} : memory_requests'[c] = memory_requests[c]
        /\ memory_requests'[cpu] = 0
    BY DisableEffect DEF IInv, TypeOK, Without, TOKEN_NULL_PRIORITY
  <1>2. /\ told' \in [Cpu -> {"parked", "none", "waiting", "granted", "restarted"}]
        /\ told'[cpu] = state
        /\ \A c \in Cpu \ {cpu} :
             told'[c] = IF token_owner = cpu /\ c = token_owner' THEN AfterSgi(told[c], STARTED)
                        ELSE told[c]
    BY DEF IInv, TypeOK, ToldAfterDisable, AfterSgi, STARTED, ENDED
  <1>3. TypeOK'
    BY <1>2, DisableEffect DEF TypeOK
  <1>4. RequestsOfLiveCells'
    BY <1>1 DEF IInv, RequestsOfLiveCells, Priority, TOKEN_NULL_PRIORITY
  <1>5. GuestsInformed'
    <2> SUFFICES ASSUME NEW c \in Cpu
                 PROVE  /\ told'[c] = "granted" => token_owner' = c
                        /\ told'[c] = "waiting" => /\ token_owner' # c
                                                  /\ memory_requests'[c] # TOKEN_NULL_PRIORITY
                        /\ token_owner' = c => told'[c] \in {"granted", "restarted"}
                        /\ memory_requests'[c] # TOKEN_NULL_PRIORITY =>
                             told'[c] \notin {"none", "parked"}
      BY DEF GuestsInformed
    <2>1. CASE c = cpu
      BY <1>1, <1>2, <2>1, DisableEffect DEF TOKEN_NULL_PRIORITY
    <2>2. CASE c # cpu /\ token_owner # cpu
      BY <1>1, <1>2, <2>2, DisableEffect DEF IInv, GuestsInformed
    <2>3. CASE c # cpu /\ token_owner = cpu /\ token_owner' # c
      BY <1>1, <1>2, <2>3 DEF IInv, GuestsInformed
    <2>4. CASE c # cpu /\ token_owner = cpu /\ token_owner' = c
      <3>1. told[c] \in {"waiting", "restarted"}
        <4>1. TokenConsistent' /\ c # TOKEN_FREE
          BY DisableEffect, CpuAssumption DEF TOKEN_FREE, MAX_CPUS
        <4>2. memory_requests[c] # TOKEN_NULL_PRIORITY
          BY <1>1, <2>4, <4>1 DEF TokenConsistent, TOKEN_NULL_PRIORITY
        <4> QED BY <2>4, <4>2 DEF IInv, TypeOK, GuestsInformed
      <3>2. told'[c] \in {"granted", "restarted"}
        BY <1>2, <2>4, <3>1 DEF AfterSgi, STARTED, ENDED
      <3> QED
        BY <2>4, <3>2
    <2> QED BY <2>1, <2>2, <2>3, <2>4
  <1> QED BY <1>3, <1>4, <1>5

-----------------------------------------------------------------------------
\* All CPUs are the root cell's at first and nobody requests the token.
LEMMA InitIInv == Init => IInv
  BY CpuAssumption DEF Init, IInv, TypeOK, DistinctIds, PrioritiesInRange, RequestsOfLiveCells,
     TokenConsistent, OwnerIsHighest, GuestsInformed, TOKEN_FREE, TOKEN_NULL_PRIORITY, ROOT,
     MAX_CELL_ID, MAX_CPUS

\* request_memory, and the answer and the ENDED it causes.
LEMMA BeginKeeps ==
  ASSUME IInv, NEW cpu \in Cpu, BeginMemPhase(cpu)
  PROVE  IInv'
  <1> DEFINE p == Priority(cell_id[cpu])
  <1>1. p \in 1..5
    BY DEF IInv, PrioritiesInRange, BeginMemPhase, MAX_PRIORITY
  <1>2. TOKEN_FREE \notin Cpu
    BY CpuAssumption DEF TOKEN_FREE, MAX_CPUS
  <1>3. /\ memory_requests' \in [Cpu -> Nat]
        /\ memory_requests'[cpu] = p
        /\ \A c \in Cpu \ {cpu} : memory_requests'[c] = memory_requests[c]
        /\ cell_id' = cell_id
    BY <1>1 DEF BeginMemPhase, request_memory, IInv, TypeOK
  <1>4. /\ p > token_priority => token_owner' = cpu /\ token_priority' = p
        /\ ~(p > token_priority) => UNCHANGED <<token_owner, token_priority>>
    BY DEF BeginMemPhase, request_memory, TakesToken
  <1> HIDE DEF p
  <1>5. TokenConsistent' /\ OwnerIsHighest'
    <2>1. token_owner = cpu => token_priority = p
      BY <1>2 DEF IInv, TokenConsistent, RequestsOfLiveCells, TypeOK, p
    <2> QED
      BY <1>1, <1>2, <1>3, <1>4, <2>1
         DEF IInv, TypeOK, TokenConsistent, OwnerIsHighest, TOKEN_NULL_PRIORITY
  <1>6. DistinctIds' /\ PrioritiesInRange' /\ RequestsOfLiveCells'
    BY <1>3 DEF IInv, DistinctIds, PrioritiesInRange, RequestsOfLiveCells, Priority, p,
                BeginMemPhase
  <1>7. /\ told'[cpu] = IF token_owner' = cpu THEN "granted" ELSE "waiting"
        /\ \A c \in Cpu \ {cpu} :
             told'[c] = IF c \in Revoked(cpu) THEN AfterSgi(told[c], ENDED) ELSE told[c]
        /\ told' \in [Cpu -> {"parked", "none", "waiting", "granted", "restarted"}]
    BY DEF BeginMemPhase, IInv, TypeOK, AfterSgi, STARTED, ENDED
  <1>8. TypeOK'
    BY <1>1, <1>3, <1>4, <1>7 DEF IInv, TypeOK
  <1>9. GuestsInformed'
    <2> SUFFICES ASSUME NEW c \in Cpu
                 PROVE  /\ told'[c] = "granted" => token_owner' = c
                        /\ told'[c] = "waiting" => /\ token_owner' # c
                                                  /\ memory_requests'[c] # TOKEN_NULL_PRIORITY
                        /\ token_owner' = c => told'[c] \in {"granted", "restarted"}
                        /\ memory_requests'[c] # TOKEN_NULL_PRIORITY =>
                             told'[c] \notin {"none", "parked"}
      BY DEF GuestsInformed
    <2>1. CASE c = cpu
      BY <1>1, <1>3, <1>7, <2>1 DEF TOKEN_NULL_PRIORITY
    <2>2. CASE c # cpu /\ c \in Revoked(cpu)
      <3>1. token_owner = c /\ token_owner' = cpu
        BY <1>4, <2>2 DEF Revoked, TakesToken, p
      <3>2. told[c] \in {"granted", "restarted"} /\ memory_requests[c] # TOKEN_NULL_PRIORITY
        BY <1>2, <3>1 DEF IInv, GuestsInformed, TokenConsistent
      <3> QED
        BY <1>3, <1>7, <2>2, <3>1, <3>2 DEF AfterSgi, STARTED, ENDED
    <2>3. CASE c # cpu /\ c \notin Revoked(cpu)
      <3>1. token_owner' = c <=> token_owner = c
        BY <1>2, <1>4, <2>3 DEF Revoked, TakesToken, p
      <3> QED
        BY <1>3, <1>7, <2>3, <3>1 DEF IInv, GuestsInformed
    <2> QED BY <2>1, <2>2, <2>3
  <1> QED BY <1>5, <1>6, <1>8, <1>9 DEF IInv

\* Creating and destroying cells moves the CPU while it is parked.
LEMMA CellCreateKeeps ==
  ASSUME IInv, NEW cpu \in Cpu, CellCreate(cpu)
  PROVE  IInv'
  <1>1. PICK d \in Cpu \ {cpu} : cell_id[d] = ROOT
    BY DEF CellCreate
  <1>2. PICK id \in {used + 1 : used \in UsedIds} :
          LowestFreeId(id) /\ cell_id' = [cell_id EXCEPT ![cpu] = id]
    BY DEF CellCreate
  <1>3. id \in Nat
    BY <1>2 DEF UsedIds, IInv, TypeOK, ROOT, MAX_CELL_ID
  <1>4. id \in 1..5
    BY <1>1, <1>2, <1>3, LowIds DEF IInv, CellCreate, MAX_CPUS
  <1>5. \A c \in Cpu : cell_id[c] # id
    BY <1>2 DEF LowestFreeId, UsedIds
  <1>6. /\ cell_id' \in [Cpu -> ROOT..MAX_CELL_ID]
        /\ cell_id'[cpu] = id
        /\ \A c \in Cpu \ {cpu} : cell_id'[c] = cell_id[c]
    BY <1>2, <1>4 DEF IInv, TypeOK, ROOT, MAX_CELL_ID
  <1>7. disable_memory_request(cpu) /\ told' = ToldAfterDisable(cpu, "parked")
    BY DEF CellCreate, arch_park_cpu
  <1>8. TypeOK' /\ RequestsOfLiveCells' /\ GuestsInformed'
    BY <1>6, <1>7, WithdrawKeeps
  <1>9. TokenConsistent' /\ OwnerIsHighest'
    BY <1>7, DisableEffect
  <1>10. DistinctIds'
    BY <1>5, <1>6 DEF IInv, DistinctIds
  <1>11. PrioritiesInRange'
    BY <1>4, <1>6 DEF IInv, PrioritiesInRange, Priority, MAX_PRIORITY
  <1> QED BY <1>8, <1>9, <1>10, <1>11 DEF IInv

\* Ending a memory phase, parking a cell's CPU and destroying its cell.
LEMMA WithdrawalsKeep ==
  ASSUME IInv, NEW cpu \in Cpu,
         EndMemPhase(cpu) \/ SetLoadable(cpu) \/ CellDestroy(cpu)
  PROVE  IInv'
  <1>1. PICK state \in {"none", "parked"} :
          disable_memory_request(cpu) /\ told' = ToldAfterDisable(cpu, state)
    BY DEF EndMemPhase, SetLoadable, CellDestroy, arch_park_cpu
  <1>2. cell_id' = cell_id \/ cell_id' = [cell_id EXCEPT ![cpu] = ROOT]
    BY DEF EndMemPhase, SetLoadable, CellDestroy
  <1>3. /\ cell_id' \in [Cpu -> ROOT..MAX_CELL_ID]
        /\ \A c \in Cpu \ {cpu} : cell_id'[c] = cell_id[c]
        /\ cell_id'[cpu] \in {cell_id[cpu], ROOT}
    BY <1>2 DEF IInv, TypeOK, ROOT, MAX_CELL_ID
  <1>4. TypeOK' /\ RequestsOfLiveCells' /\ GuestsInformed'
    BY <1>1, <1>3, WithdrawKeeps
  <1>5. TokenConsistent' /\ OwnerIsHighest'
    BY <1>1, DisableEffect
  <1>6. DistinctIds'
    BY <1>3 DEF IInv, DistinctIds
  <1>7. PrioritiesInRange'
    BY <1>3 DEF IInv, PrioritiesInRange, Priority
  <1> QED BY <1>4, <1>5, <1>6, <1>7 DEF IInv

\* Starting a cell and powering a root CPU on leave the arbitration alone.
LEMMA OthersKeep ==
  ASSUME IInv, NEW cpu \in Cpu, CellStart(cpu) \/ CpuOn(cpu)
  PROVE  IInv'
  <1>1. UNCHANGED <<memory_requests, token_owner, token_priority, cell_id>>
    BY DEF CellStart, CpuOn, arbVars
  <1>2. DistinctIds' /\ PrioritiesInRange' /\ RequestsOfLiveCells' /\ TokenConsistent'
        /\ OwnerIsHighest'
    BY <1>1 DEF IInv, DistinctIds, PrioritiesInRange, RequestsOfLiveCells, TokenConsistent,
                OwnerIsHighest, Priority
  <1>3. CASE CellStart(cpu)
    <2>1. /\ told' \in [Cpu -> {"parked", "none", "waiting", "granted", "restarted"}]
          /\ told'[cpu] = IF memory_requests[cpu] = TOKEN_NULL_PRIORITY THEN "none" ELSE "restarted"
          /\ \A c \in Cpu \ {cpu} : told'[c] = told[c]
      BY <1>3 DEF CellStart, IInv, TypeOK
    <2>2. token_owner = cpu => memory_requests[cpu] # TOKEN_NULL_PRIORITY
      BY CpuAssumption DEF IInv, TokenConsistent, TOKEN_FREE, MAX_CPUS
    <2>3. TypeOK'
      BY <1>1, <2>1 DEF IInv, TypeOK
    <2>4. GuestsInformed'
      BY <1>1, <2>1, <2>2 DEF IInv, GuestsInformed
    <2> QED BY <1>2, <2>3, <2>4 DEF IInv
  <1>4. CASE CpuOn(cpu)
    <2>1. /\ told' \in [Cpu -> {"parked", "none", "waiting", "granted", "restarted"}]
          /\ told'[cpu] = "none"
          /\ \A c \in Cpu \ {cpu} : told'[c] = told[c]
      BY <1>4 DEF CpuOn, IInv, TypeOK
    <2>2. memory_requests[cpu] = TOKEN_NULL_PRIORITY /\ token_owner # cpu
      BY <1>4 DEF CpuOn, IInv, GuestsInformed
    <2>3. TypeOK'
      BY <1>1, <2>1 DEF IInv, TypeOK
    <2>4. GuestsInformed'
      BY <1>1, <2>1, <2>2 DEF IInv, GuestsInformed
    <2> QED BY <1>2, <2>3, <2>4 DEF IInv
  <1> QED BY <1>3, <1>4

\* Nothing changes.
LEMMA StutterKeeps ==
  ASSUME IInv, UNCHANGED vars
  PROVE  IInv'
  BY DEF vars, IInv, TypeOK, DistinctIds, PrioritiesInRange, RequestsOfLiveCells,
         TokenConsistent, OwnerIsHighest, GuestsInformed, Priority

\* Every step preserves the invariant.
LEMMA NextKeeps == IInv /\ [Next]_vars => IInv'
  BY BeginKeeps, CellCreateKeeps, WithdrawalsKeep, OthersKeep, StutterKeeps DEF Next

\* Every reachable state of the arbitration satisfies the invariant.
THEOREM Invariance == Spec => []IInv
  BY InitIInv, NextKeeps, PTL DEF Spec

\* The variables stay within their types, for every set of CPUs and every
\* width of unsigned int: priorities are naturals and only CPUs own the token.
THEOREM TypeCorrect == Spec => []TypeOK
  <1>1. IInv => TypeOK BY DEF IInv
  <1> QED BY <1>1, Invariance, PTL

\* The three pieces of arbitration state never drift apart, the token is always
\* with the highest request (request_memory, disable_memory_request), and no
\* request survives the cell it was made for.
THEOREM RecordsSafe == Spec => []RecordsAgree
  <1>1. IInv => RecordsAgree BY DEF IInv, RecordsAgree
  <1> QED BY <1>1, Invariance, PTL

\* Hypercall answers and SGIs always tell the guests where the token is.
THEOREM Informed == Spec => []GuestsInformed
  <1>1. IInv => GuestsInformed BY DEF IInv
  <1> QED BY <1>1, Invariance, PTL

\* The driver never gives two cells the same id, although ids of destroyed cells
\* are used again (jailhouse_cell_create), and no cell of a machine that fits
\* memory_requests ever gets the null priority or a wrapped one.
THEOREM OwnPriorities == Spec => []OwnPriority
  <1>1. IInv => OwnPriority BY DEF IInv, OwnPriority
  <1> QED BY <1>1, Invariance, PTL

-----------------------------------------------------------------------------
\* An owner that still requests the token loses it only to a higher priority.
THEOREM PreemptionByPriority == Spec => PreemptedOnlyByHigher
  <1> DEFINE A == \A c \in Cpu :
                    token_owner = c /\ token_owner' # c /\ memory_requests'[c] # TOKEN_NULL_PRIORITY =>
                      token_owner' \in Cpu /\ memory_requests'[token_owner'] > memory_requests'[c]
  <1>1. ASSUME IInv, Next PROVE A
    <2> SUFFICES ASSUME NEW c \in Cpu, token_owner = c, token_owner' # c,
                        memory_requests'[c] # TOKEN_NULL_PRIORITY
                 PROVE  token_owner' \in Cpu /\ memory_requests'[token_owner'] > memory_requests'[c]
      OBVIOUS
    <2>1. PICK cpu \in Cpu : \/ BeginMemPhase(cpu)
                             \/ disable_memory_request(cpu)
                             \/ UNCHANGED token_owner
      BY <1>1 DEF Next, EndMemPhase, SetLoadable, CellStart, CellCreate, CellDestroy, CpuOn,
                  arch_park_cpu, arbVars
    <2>2. ~ UNCHANGED token_owner
      OBVIOUS
    <2>3. ~ disable_memory_request(cpu)
      <3> SUFFICES ASSUME disable_memory_request(cpu) PROVE FALSE
        OBVIOUS
      <3>1. c = cpu
        BY <1>1, DisableEffect
      <3>2. memory_requests'[c] = TOKEN_NULL_PRIORITY
        BY <1>1, <3>1, DisableEffect DEF Without, IInv, TypeOK
      <3> QED BY <3>2
    <2>4. request_memory(cpu) /\ TakesToken(cpu) /\ token_owner' = cpu /\ cpu # c
      BY <2>1, <2>2, <2>3 DEF BeginMemPhase, request_memory
    <2>5. /\ memory_requests'[cpu] = Priority(cell_id[cpu])
          /\ memory_requests'[c] = memory_requests[c]
      BY <1>1, <2>4 DEF request_memory, IInv, TypeOK
    <2>6. memory_requests[c] = token_priority
      BY <1>1, CpuAssumption DEF IInv, TokenConsistent, TOKEN_FREE, MAX_CPUS
    <2> QED BY <2>4, <2>5, <2>6 DEF TakesToken
  <1>2. IInv /\ [Next]_vars => [A]_vars
    BY <1>1
  <1> QED BY <1>2, Invariance, PTL DEF Spec, PreemptedOnlyByHigher

\* What the invariant says of a state, in the words of the abstract token.
LEMMA HolderOfState ==
  ASSUME NEW req \in [Cpu -> Nat], NEW owner, NEW priority \in Nat,
         owner \in Cpu \cup {TOKEN_FREE},
         owner = TOKEN_FREE <=> priority = 0,
         owner # TOKEN_FREE => req[owner] = priority,
         \A c \in Cpu : req[c] <= priority
  PROVE  Token!IsHolder(owner, req)
  <1>1. CASE owner = TOKEN_FREE
    <2>1. Token!Asking(req) = {} BY <1>1 DEF Token!Asking
    <2> QED BY <1>1, <2>1 DEF Token!IsHolder
  <1>2. CASE owner # TOKEN_FREE
    <2>1. owner \in Token!Asking(req) BY <1>2 DEF Token!Asking
    <2> QED BY <1>2, <2>1 DEF Token!IsHolder, Token!Asking
  <1> QED BY <1>1, <1>2

\* The arbitration implements the abstract token: every hypercall and every
\* parked CPU is a step of one client, everything else a stutter.
THEOREM Implementation == Spec => ImplementsToken
  <1>1. Init => Token!TokenInit
    BY DEF Init, Token!TokenInit, TOKEN_NULL_PRIORITY
  <1>2. ASSUME IInv, IInv', Next
        PROVE  [Token!TokenNext]_(Token!tokenVars)
    <2>1. Token!IsHolder(token_owner', memory_requests')
      BY <1>2, HolderOfState
         DEF IInv, TypeOK, TokenConsistent, OwnerIsHighest, TOKEN_NULL_PRIORITY
    <2>2. PICK cpu \in Cpu : \/ BeginMemPhase(cpu)
                             \/ disable_memory_request(cpu)
                             \/ UNCHANGED arbVars
      BY <1>2 DEF Next, EndMemPhase, SetLoadable, CellStart, CellCreate, CellDestroy, CpuOn,
                  arch_park_cpu
    <2>3. CASE BeginMemPhase(cpu)
      <3>1. /\ memory_requests' = [memory_requests EXCEPT ![cpu] = Priority(cell_id[cpu])]
            /\ memory_requests'[cpu] = Priority(cell_id[cpu])
        BY <1>2, <2>3 DEF BeginMemPhase, request_memory, IInv, TypeOK
      <3>2. Priority(cell_id[cpu]) \in 1..5
        BY <1>2, <2>3 DEF BeginMemPhase, IInv, PrioritiesInRange, MAX_PRIORITY
      <3>3. memory_requests[cpu] \in {0, Priority(cell_id[cpu])}
        BY <1>2 DEF IInv, RequestsOfLiveCells, TOKEN_NULL_PRIORITY
      <3>4. /\ memory_requests'[cpu] \in Nat \ {0}
            /\ memory_requests[cpu] \in {0, memory_requests'[cpu]}
        BY <3>1, <3>2, <3>3
      <3>5. memory_requests' = [memory_requests EXCEPT ![cpu] = memory_requests'[cpu]]
        BY <3>1, Zenon
      <3>6. Token!Ask(cpu)
        BY <2>1, <3>4, <3>5, Zenon DEF Token!Ask
      <3> QED BY <3>6 DEF Token!TokenNext
    <2>4. CASE disable_memory_request(cpu)
      <3>1. Token!Withdraw(cpu)
        BY <2>1, <2>4 DEF disable_memory_request, Without, Token!Withdraw, TOKEN_NULL_PRIORITY
      <3> QED BY <3>1 DEF Token!TokenNext
    <2>5. CASE UNCHANGED arbVars
      BY <2>5 DEF arbVars, Token!tokenVars
    <2> QED BY <2>2, <2>3, <2>4, <2>5
  <1>3. IInv /\ IInv' /\ [Next]_vars => [Token!TokenNext]_(Token!tokenVars)
    BY <1>2 DEF vars, Token!tokenVars
  <1> QED BY <1>1, <1>3, Invariance, PTL DEF Spec, ImplementsToken, Token!TokenSpec

=============================================================================
