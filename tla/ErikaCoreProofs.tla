--------------------------- MODULE ErikaCoreProofs ---------------------------
(***************************************************************************)
(* Proofs about ErikaCore, for any number of tasks with any priorities     *)
(* below the ceiling.                                                      *)
(***************************************************************************)
EXTENDS ErikaCore, WellFoundedInduction, TLAPS

(***************************************************************************)
(* The inductive invariant.  First the lists: no task twice in one, and    *)
(* none in two of them.                                                    *)
(***************************************************************************)
Lists ==
  /\ IsInjective(stk) /\ IsInjective(rq) /\ IsInjective(suspended)
  /\ Range(stk) \cap Range(rq) = {}
  /\ Range(stk) \cap Range(suspended) = {}
  /\ Range(rq) \cap Range(suspended) = {}

(***************************************************************************)
(* The state in the TCB of a task says where it is: the running task is    *)
(* RUNNING and whatever else is in a list has a saved context to return to.*)
(* A task is in the ready queue only after its event was set, and keeps    *)
(* its place in WaitEvent until it runs; SetEvent finds a waiting task by  *)
(* its mask and its scheduling node.                                       *)
(***************************************************************************)
Placed(t) ==
  /\ status[t] = "RUNNING" <=> Running(t)
  /\ status[t] = "READY_STACKED" <=>
       /\ ~Running(t)
       /\ t \in Range(stk) \cup Range(rq) \cup Range(suspended)
  /\ status[t] = "SUSPENDED" <=> pc[t] = "new"
  /\ status[t] = "WAITING" <=> wait_mask[t] /\ own_sn[t]
  /\ status[t] # "READY"
  /\ wait_mask[t] \/ t \in Range(rq) => pc[t] = "waiting"
  /\ t \in Range(suspended) => pc[t] \in {"requesting", "mem"}
  /\ t \in Range(activations) => pc[t] = "new" /\ t \in Range(Activations)
  /\ pc[t] # "new" => t \in Range(Activations)

(***************************************************************************)
(* The ceiling priority belongs to the task the token is for, from the     *)
(* grant to the end of its execution phase.  A memory phase is at the top  *)
(* of the stack while the guest has the token and held back while it waits *)
(* for it.                                                                 *)
(***************************************************************************)
Phase(t) ==
  /\ pc[t] \in {"mem", "ending", "exec"} => current_prio[t] = MAX_TASK_PRIORITY
  /\ current_prio[t] = MAX_TASK_PRIORITY =>
       \/ pc[t] \in {"mem", "ending", "exec"}
       \/ pc[t] = "requesting" /\ Running(t) /\ mem_arbit_status = "ACQUIRED"
  /\ pc[t] = "mem" =>
       \/ Running(t) /\ mem_arbit_status = "ACQUIRED"
       \/ t \in Range(suspended) /\ mem_arbit_status = "REQUESTED"
  /\ pc[t] = "ending" => Running(t) /\ mem_arbit_status = "ACQUIRED"
  /\ pc[t] = "exec" => Running(t) /\ mem_arbit_status = "NONE"

OneCeiling ==
  \A t, u \in Task : current_prio[t] = MAX_TASK_PRIORITY
                     /\ current_prio[u] = MAX_TASK_PRIORITY => t = u

TokenFor ==
  /\ mem_arbit_status = "ACQUIRED" =>
       \E t \in Task : Running(t) /\ current_prio[t] = MAX_TASK_PRIORITY
  /\ mem_arbit_status = "REQUESTED" => Range(suspended) # {}
  /\ mem_arbit_status = "NONE" /\ Range(suspended) # {} =>
       \E t \in Range(stk) : pc[t] \in {"exec", "requesting"}

(***************************************************************************)
(* The two sides of the token.  An ISR has interrupted a task that had     *)
(* interrupts enabled.  A task that goes on in its request while the guest *)
(* has none on record meets no token interrupt: one that came in after the *)
(* end of the memory phase has been served by then.                        *)
(***************************************************************************)
MaskedPcs == {"waiting", "requesting", "ending", "exec"}

Sides ==
  /\ active \notin irq
  /\ active # "none" => \A t \in Task : Running(t) => pc[t] \notin MaskedPcs
  /\ mem_arbit_status = "NONE" <=> hv = "none"
  /\ mem_arbit_status = "NONE" =>
       \A t \in Task : Running(t) /\ pc[t] = "requesting"
                         => irq \cap TokenIrq = {}
  /\ ~overtaken =>
       \/ SgisDone /\ \/ hv = "owner" /\ mem_arbit_status = "ACQUIRED"
                      \/ hv = "waiting" /\ mem_arbit_status = "REQUESTED"
                      \/ hv = "none" /\ mem_arbit_status = "NONE"
       \/ /\ (irq \cup {active}) \cap TokenIrq = {"STARTED"}
          /\ hv = "owner" /\ mem_arbit_status = "REQUESTED"
       \/ /\ (irq \cup {active}) \cap TokenIrq = {"ENDED"}
          /\ \/ hv = "waiting" /\ mem_arbit_status = "ACQUIRED"
             \/ hv = "none" /\ mem_arbit_status = "NONE"

Kernel ==
  /\ Lists
  /\ \A t \in Task : Placed(t)
  /\ \A t \in Task : Phase(t)
  /\ OneCeiling /\ TokenFor

IInv == TypeOK /\ Kernel /\ Sides /\ IsInjective(activations)

-----------------------------------------------------------------------------
(* Lists as sets of tasks: what each operation does to the tasks in a list. *)

\* list_push_to_head, and list_insert_before_regular, of a task not in s.
LEMMA Pushed ==
  ASSUME NEW s \in Seq(Task), NEW t \in Task
  PROVE  /\ <<t>> \o s \in Seq(Task) /\ <<t>> \o s # <<>>
         /\ Head(<<t>> \o s) = t
         /\ Range(<<t>> \o s) = {t} \cup Range(s)
         /\ IsInjective(s) /\ t \notin Range(s) => IsInjective(<<t>> \o s)
<1> DEFINE r == <<t>> \o s
<1>1. r \in Seq(Task) /\ Len(r) = Len(s) + 1 /\ r[1] = t
      /\ \A i \in 1..Len(s) : r[i + 1] = s[i]
  OBVIOUS
<1>2. \A i \in 1..Len(r) : i = 1 \/ (i - 1 \in 1..Len(s) /\ r[i] = s[i - 1])
  OBVIOUS
<1>3. r # <<>> /\ Head(r) = t
  OBVIOUS
<1> HIDE DEF r
<1>4. Range(r) = {t} \cup Range(s)
  <2>1. ASSUME NEW x \in Range(r) PROVE x \in {t} \cup Range(s)
    BY <1>1, <1>2, <2>1 DEF Range
  <2>2. t \in Range(r)
    BY <1>1 DEF Range
  <2>3. ASSUME NEW x \in Range(s) PROVE x \in Range(r)
    <3>1. PICK i \in 1..Len(s) : x = s[i]
      BY DEF Range
    <3>2. i + 1 \in DOMAIN r /\ r[i + 1] = x
      BY <1>1, <3>1
    <3> QED
      BY <3>2 DEF Range
  <2> QED
    BY <2>1, <2>2, <2>3
<1>5. IsInjective(s) /\ t \notin Range(s) => IsInjective(r)
  BY <1>1, <1>2 DEF Range, IsInjective
<1> QED
  BY <1>1, <1>3, <1>4, <1>5 DEF r

\* The head of a list and the rest.
LEMMA Popped ==
  ASSUME NEW s \in Seq(Task), s # <<>>
  PROVE  /\ Head(s) \in Task /\ Tail(s) \in Seq(Task)
         /\ Head(s) \in Range(s)
         /\ IsInjective(s) => /\ IsInjective(Tail(s))
                              /\ Range(Tail(s)) = Range(s) \ {Head(s)}
<1>1. /\ Len(s) \in Nat \ {0} /\ Head(s) = s[1] /\ Head(s) \in Task
      /\ Tail(s) \in Seq(Task) /\ Len(Tail(s)) = Len(s) - 1
      /\ \A i \in 1..Len(s) - 1 : Tail(s)[i] = s[i + 1]
  OBVIOUS
<1>2. Head(s) \in Range(s)
  BY <1>1 DEF Range
<1>3. ASSUME IsInjective(s)
      PROVE  IsInjective(Tail(s)) /\ Range(Tail(s)) = Range(s) \ {Head(s)}
  <2> DEFINE r == Tail(s)
  <2>0. r \in Seq(Task) /\ Len(r) = Len(s) - 1 /\ Len(s) \in Nat \ {0}
        /\ \A i \in 1..Len(s) - 1 : r[i] = s[i + 1]
    BY <1>1
  <2> HIDE DEF r
  <2>1. IsInjective(r)
    <3> SUFFICES ASSUME NEW i \in 1..Len(r), NEW j \in 1..Len(r), r[i] = r[j]
                 PROVE  i = j
      BY <2>0 DEF IsInjective
    <3>1. /\ i + 1 \in 1..Len(s) /\ j + 1 \in 1..Len(s)
          /\ s[i + 1] = s[j + 1]
      BY <2>0
    <3>2. i + 1 = j + 1
      BY <3>1, <1>3 DEF IsInjective
    <3> QED
      BY <3>2
  <2>2. ASSUME NEW x \in Range(r) PROVE x \in Range(s) \ {Head(s)}
    <3>1. PICK i \in 1..Len(r) : x = r[i]
      BY <2>0 DEF Range
    <3>2. i + 1 \in 1..Len(s) /\ x = s[i + 1] /\ i + 1 # 1
      BY <3>1, <2>0
    <3> QED
      BY <3>2, <1>1, <1>3 DEF Range, IsInjective
  <2>3. ASSUME NEW x \in Range(s), x # Head(s) PROVE x \in Range(r)
    <3>1. PICK i \in 1..Len(s) : x = s[i]
      BY DEF Range
    <3>2. i - 1 \in 1..Len(r) /\ r[i - 1] = x
      BY <3>1, <2>3, <2>0, <1>1
    <3> QED
      BY <3>2, <2>0 DEF Range
  <2> QED
    BY <2>1, <2>2, <2>3 DEF r
<1> QED
  BY <1>1, <1>2, <1>3

\* A task put in at place k.
Insert(s, k, t) == SubSeq(s, 1, k - 1) \o <<t>> \o SubSeq(s, k, Len(s))

LEMMA PutIn ==
  ASSUME NEW s \in Seq(Task), NEW t \in Task, NEW k \in 1..Len(s) + 1
  PROVE  /\ Insert(s, k, t) \in Seq(Task)
         /\ Range(Insert(s, k, t)) = {t} \cup Range(s)
         /\ k > 1 => Head(Insert(s, k, t)) = Head(s)
         /\ IsInjective(s) /\ t \notin Range(s)
              => IsInjective(Insert(s, k, t))
<1> DEFINE a == SubSeq(s, 1, k - 1)
           b == SubSeq(s, k, Len(s))
           r == Insert(s, k, t)
<1>1. /\ a \in Seq(Task) /\ Len(a) = k - 1
      /\ \A i \in 1..k - 1 : a[i] = s[i]
  OBVIOUS
<1>2. /\ b \in Seq(Task) /\ Len(b) = Len(s) - k + 1
      /\ \A i \in 1..Len(s) - k + 1 : b[i] = s[i + k - 1]
  OBVIOUS
<1>3. /\ r \in Seq(Task) /\ Len(r) = Len(s) + 1 /\ r[k] = t
      /\ \A i \in 1..k - 1 : r[i] = s[i]
      /\ \A i \in k + 1..Len(s) + 1 : r[i] = s[i - 1]
  <2>1. r = a \o <<t>> \o b
    BY DEF Insert
  <2> HIDE DEF a, b, r
  <2>2. /\ a \o <<t>> \in Seq(Task) /\ Len(a \o <<t>>) = k
        /\ (a \o <<t>>)[k] = t /\ \A i \in 1..k - 1 : (a \o <<t>>)[i] = s[i]
    BY <1>1
  <2>3. /\ r \in Seq(Task) /\ Len(r) = Len(s) + 1
        /\ \A i \in 1..k : r[i] = (a \o <<t>>)[i]
        /\ \A i \in k + 1..Len(s) + 1 : r[i] = b[i - k]
    BY <2>1, <2>2, <1>2
  <2>4. \A i \in k + 1..Len(s) + 1 : b[i - k] = s[i - 1]
    <3> TAKE i \in k + 1..Len(s) + 1
    <3>1. i - k \in 1..Len(s) - k + 1 /\ (i - k) + k - 1 = i - 1
      OBVIOUS
    <3> QED
      BY <3>1, <1>2
  <2> QED
    BY <2>2, <2>3, <2>4
<1> HIDE DEF a, b, r
<1>4. Range(r) = {t} \cup Range(s)
  <2>1. ASSUME NEW x \in Range(r) PROVE x \in {t} \cup Range(s)
    <3>1. PICK i \in 1..Len(r) : x = r[i]
      BY <1>3 DEF Range
    <3>2. CASE i = k
      BY <3>1, <3>2, <1>3
    <3>3. CASE i < k
      <4>1. i \in DOMAIN s /\ x = s[i]
        BY <3>1, <3>3, <1>3
      <4> QED
        BY <4>1 DEF Range
    <3>4. CASE i > k
      <4>1. i - 1 \in DOMAIN s /\ x = s[i - 1]
        BY <3>1, <3>4, <1>3
      <4> QED
        BY <4>1 DEF Range
    <3> QED
      BY <3>2, <3>3, <3>4
  <2>2. t \in Range(r)
    BY <1>3 DEF Range
  <2>3. ASSUME NEW x \in Range(s) PROVE x \in Range(r)
    <3>1. PICK i \in 1..Len(s) : x = s[i]
      BY DEF Range
    <3>2. CASE i < k
      <4>1. i \in DOMAIN r /\ r[i] = x
        BY <3>1, <3>2, <1>3
      <4> QED
        BY <4>1 DEF Range
    <3>3. CASE i >= k
      <4>1. i + 1 \in DOMAIN r /\ r[i + 1] = x
        BY <3>1, <3>3, <1>3
      <4> QED
        BY <4>1 DEF Range
    <3> QED
      BY <3>2, <3>3
  <2> QED
    BY <2>1, <2>2, <2>3
<1>5. k > 1 => Head(r) = Head(s)
  BY <1>3
<1>6. ASSUME IsInjective(s), t \notin Range(s)
      PROVE  IsInjective(r)
  <2>1. \A i, j \in 1..Len(s) : s[i] = s[j] => i = j
    BY <1>6 DEF IsInjective
  <2>2. \A i \in 1..Len(s) : s[i] # t
    BY <1>6 DEF Range
  <2> SUFFICES ASSUME NEW i \in 1..Len(r), NEW j \in 1..Len(r), i < j,
                      r[i] = r[j]
               PROVE  FALSE
    BY <1>3 DEF IsInjective
  <2>3. CASE i = k
    <3>1. j \in k + 1..Len(s) + 1 /\ j - 1 \in 1..Len(s)
      BY <2>3, <1>3
    <3>2. r[j] = s[j - 1] /\ r[i] = t
      BY <3>1, <2>3, <1>3
    <3> QED
      BY <3>1, <3>2, <2>2
  <2>4. CASE j = k
    BY <2>4, <2>2, <1>3
  <2>5. CASE j < k
    BY <2>5, <2>1, <1>3
  <2>6. CASE i > k
    BY <2>6, <2>1, <1>3, SMTT(30)
  <2>7. CASE i < k /\ j > k
    <3>1. /\ i \in 1..k - 1 /\ j \in k + 1..Len(s) + 1
          /\ i \in 1..Len(s) /\ j - 1 \in 1..Len(s) /\ i # j - 1
      BY <2>7, <1>3
    <3>2. r[i] = s[i] /\ r[j] = s[j - 1]
      BY <3>1, <1>3
    <3> QED
      BY <3>1, <3>2, <2>1
  <2> QED
    BY <2>3, <2>4, <2>5, <2>6, <2>7, <1>3
<1> QED
  BY <1>3, <1>4, <1>5, <1>6 DEF r

\* list_insert_after_head of a task not in s.
LEMMA PutAfterHead ==
  ASSUME NEW s \in Seq(Task), NEW t \in Task, s # <<>>
  PROVE  /\ list_insert_after_head(s, t) \in Seq(Task)
         /\ list_insert_after_head(s, t) # <<>>
         /\ Head(list_insert_after_head(s, t)) = Head(s)
         /\ Range(list_insert_after_head(s, t)) = {t} \cup Range(s)
         /\ IsInjective(s) /\ t \notin Range(s)
              => IsInjective(list_insert_after_head(s, t))
<1> DEFINE r == list_insert_after_head(s, t)
<1>1. 2 \in 1..Len(s) + 1
  OBVIOUS
<1>2. r = Insert(s, 2, t)
  <2>1. /\ Insert(s, 2, t) \in Seq(Task) /\ r \in Seq(Task)
        /\ Len(Insert(s, 2, t)) = Len(s) + 1 /\ Len(r) = Len(s) + 1
    BY DEF Insert, list_insert_after_head
  <2>2. \A i \in 1..Len(s) + 1 : r[i] = Insert(s, 2, t)[i]
    BY DEF Insert, list_insert_after_head
  <2> QED
    BY <2>1, <2>2
<1>3. r # <<>>
  BY DEF list_insert_after_head
<1> HIDE DEF r
<1> QED
  BY <1>1, <1>2, <1>3, PutIn DEF r

\* A nonempty set of numbers has a least element.
Least(S) == CHOOSE x \in S : \A y \in S : x <= y

LEMMA LeastPosition ==
  ASSUME NEW S \in SUBSET Nat, S # {}
  PROVE  Least(S) \in S /\ \A x \in S : Least(S) <= x
<1> DEFINE R == {p \in Nat \X Nat : p[1] < p[2]}
<1>1. IsWellFoundedOn(R, Nat)
  BY NatLessThanWellFounded DEF OpToRel
<1>2. PICK n \in S : \A m \in S : <<m, n>> \notin R
  <2> HIDE DEF R
  <2> QED
    BY <1>1, WFMin
<1>3. ASSUME NEW m \in S
      PROVE  n <= m
  <2>1. ~(m < n)
    BY <1>2
  <2> QED
    BY <2>1
<1> QED
  BY <1>3 DEF Least

\* list_remove of a task in s.
LEMMA TakenOut ==
  ASSUME NEW s \in Seq(Task), IsInjective(s), NEW t \in Range(s)
  PROVE  /\ list_remove(s, t) \in Seq(Task) /\ IsInjective(list_remove(s, t))
         /\ Range(list_remove(s, t)) = Range(s) \ {t}
<1> DEFINE I == {i \in 1..Len(s) : s[i] = t}
           First(i) == s[i] = t /\ \A j \in 1..i - 1 : s[j] # t
           k == CHOOSE i \in DOMAIN s : First(i)
           a == SubSeq(s, 1, k - 1)
           b == SubSeq(s, k + 1, Len(s))
           r == list_remove(s, t)
<1>0. I # {} /\ I \in SUBSET Nat
  BY DEF Range
<1>1. k \in 1..Len(s) /\ s[k] = t
  <2>1. Least(I) \in I /\ \A x \in I : Least(I) <= x
    <3> HIDE DEF I
    <3> QED
      BY <1>0, LeastPosition
  <2>2. \E l \in DOMAIN s : First(l)
    <3> DEFINE l == Least(I)
    <3>1. l \in 1..Len(s) /\ s[l] = t /\ \A j \in 1..Len(s) : s[j] = t => l <= j
      BY <2>1
    <3> HIDE DEF l
    <3>2. \A j \in 1..l - 1 : s[j] # t
      BY <3>1
    <3> QED
      BY <3>1, <3>2
  <2>3. k \in DOMAIN s /\ First(k)
    <3> HIDE DEF First
    <3> QED
      BY <2>2
  <2> QED
    BY <2>3
<1>2. r = a \o b
  BY DEF list_remove
<1> HIDE DEF I, First, k, r
<1>3. /\ a \in Seq(Task) /\ Len(a) = k - 1
      /\ \A i \in 1..k - 1 : a[i] = s[i]
  BY <1>1
<1>4. /\ b \in Seq(Task) /\ Len(b) = Len(s) - k
      /\ \A i \in 1..Len(s) - k : b[i] = s[i + k]
  BY <1>1
<1>5. /\ r \in Seq(Task) /\ Len(r) = Len(s) - 1
      /\ \A i \in 1..k - 1 : r[i] = s[i]
      /\ \A i \in k..Len(s) - 1 : r[i] = s[i + 1]
  <2> HIDE DEF a, b
  <2>1. /\ r \in Seq(Task) /\ Len(r) = Len(s) - 1
        /\ \A i \in 1..k - 1 : r[i] = a[i]
        /\ \A i \in k..Len(s) - 1 : r[i] = b[i - k + 1]
    <3>1. /\ r \in Seq(Task) /\ Len(r) = Len(s) - 1
          /\ \A i \in 1..Len(r) : r[i] = IF i <= Len(a) THEN a[i]
                                         ELSE b[i - Len(a)]
      <4>1. /\ a \o b \in Seq(Task) /\ Len(a \o b) = Len(a) + Len(b)
            /\ \A i \in 1..Len(a) + Len(b) :
                 (a \o b)[i] = IF i <= Len(a) THEN a[i] ELSE b[i - Len(a)]
        BY <1>3, <1>4, SMTT(30)
      <4>2. Len(a) + Len(b) = Len(s) - 1
        BY <1>1, <1>3, <1>4
      <4> QED
        BY <4>1, <4>2, <1>2
    <3>2. \A i \in 1..k - 1 : r[i] = a[i]
      BY <3>1, <1>1, <1>3, SMTT(30)
    <3>3. \A i \in k..Len(s) - 1 : r[i] = b[i - k + 1]
      <4> TAKE i \in k..Len(s) - 1
      <4>1. i \in 1..Len(r) /\ ~(i <= Len(a)) /\ i - Len(a) = i - k + 1
        BY <3>1, <1>1, <1>3
      <4> QED
        BY <4>1, <3>1
    <3> QED
      BY <3>1, <3>2, <3>3
  <2>2. \A i \in k..Len(s) - 1 : b[i - k + 1] = s[i + 1]
    <3> TAKE i \in k..Len(s) - 1
    <3>1. i - k + 1 \in 1..Len(s) - k /\ (i - k + 1) + k = i + 1
      BY <1>1
    <3> QED
      BY <3>1, <1>4
  <2> QED
    BY <2>1, <2>2, <1>3
<1> HIDE DEF a, b
<1>6. \A i, j \in 1..Len(s) : s[i] = s[j] => i = j
  BY DEF IsInjective
<1>7. IsInjective(r)
  <2> SUFFICES ASSUME NEW i \in 1..Len(r), NEW j \in 1..Len(r), i < j,
                      r[i] = r[j]
               PROVE  FALSE
    BY <1>5 DEF IsInjective
  <2>1. CASE j < k
    BY <2>1, <1>1, <1>5, <1>6
  <2>2. CASE i >= k
    BY <2>2, <1>1, <1>5, <1>6
  <2>3. CASE i < k /\ j >= k
    BY <2>3, <1>1, <1>5, <1>6
  <2> QED
    BY <2>1, <2>2, <2>3, <1>1, <1>5
<1>8. ASSUME NEW x \in Range(r)
      PROVE  x \in Range(s) \ {t}
  <2>1. PICK i \in 1..Len(r) : x = r[i]
    BY <1>5 DEF Range
  <2>2. CASE i < k
    <3>1. i \in DOMAIN s /\ x = s[i] /\ i # k
      BY <2>1, <2>2, <1>1, <1>5
    <3> QED
      BY <3>1, <1>1, <1>6 DEF Range
  <2>3. CASE i >= k
    <3>1. i + 1 \in DOMAIN s /\ x = s[i + 1] /\ i + 1 # k
      BY <2>1, <2>3, <1>1, <1>5
    <3> QED
      BY <3>1, <1>1, <1>6 DEF Range
  <2> QED
    BY <2>2, <2>3, <1>1, <1>5
<1>9. ASSUME NEW x \in Range(s), x # t
      PROVE  x \in Range(r)
  <2>1. PICK i \in 1..Len(s) : x = s[i]
    BY DEF Range
  <2>2. CASE i < k
    <3>1. i \in DOMAIN r /\ r[i] = x
      BY <2>1, <2>2, <1>1, <1>5
    <3> QED
      BY <3>1 DEF Range
  <2>3. CASE i > k
    <3>1. i - 1 \in DOMAIN r /\ r[i - 1] = x
      BY <2>1, <2>3, <1>1, <1>5
    <3> QED
      BY <3>1 DEF Range
  <2> QED
    BY <2>1, <2>2, <2>3, <1>1, <1>9
<1> QED
  BY <1>5, <1>7, <1>8, <1>9 DEF r

\* osEE_sn_priority_insert of a task not in q finds a place for it.
LEMMA Queued ==
  ASSUME NEW q \in Seq(Task), IsInjective(q), NEW t \in Task, t \notin Range(q)
  PROVE  /\ sn_priority_insert(q, t) \in Seq(Task)
         /\ IsInjective(sn_priority_insert(q, t))
         /\ Range(sn_priority_insert(q, t)) = {t} \cup Range(q)
<1> DEFINE Fits(n) == /\ \A i \in 1..n : ready_prio[t] <= ready_prio[q[i]]
                      /\ n < Len(q) => ready_prio[q[n + 1]] < ready_prio[t]
           S == {i \in 1..Len(q) : ready_prio[q[i]] < ready_prio[t]}
           n == CHOOSE x \in 0..Len(q) : Fits(x)
<1>0. ready_prio[t] \in Nat /\ \A i \in 1..Len(q) : ready_prio[q[i]] \in Nat
  BY PrioAssumption
<1>1. \E x \in 0..Len(q) : Fits(x)
  <2>1. CASE S = {}
    <3>1. Fits(Len(q))
      BY <2>1, <1>0
    <3> QED
      BY <3>1
  <2>2. CASE S # {}
    <3> DEFINE k == Least(S)
    <3>0. S \in SUBSET Nat
      OBVIOUS
    <3>1. k \in S /\ \A x \in S : k <= x
      <4> HIDE DEF S
      <4> QED
        BY <3>0, <2>2, LeastPosition
    <3> HIDE DEF k
    <3>2. k - 1 \in 0..Len(q) /\ Fits(k - 1)
      BY <3>1, <1>0
    <3> QED
      BY <3>2
  <2> QED
    BY <2>1, <2>2
<1>2. n \in 0..Len(q)
  <2> HIDE DEF Fits
  <2> QED
    BY <1>1
<1>3. sn_priority_insert(q, t) = SubSeq(q, 1, n) \o <<t>> \o SubSeq(q, n + 1, Len(q))
  BY DEF sn_priority_insert
<1> HIDE DEF n
<1>4. n + 1 \in 1..Len(q) + 1 /\ (n + 1) - 1 = n
  BY <1>2
<1>5. sn_priority_insert(q, t) = Insert(q, n + 1, t)
  BY <1>3, <1>4 DEF Insert
<1> QED
  BY <1>4, <1>5, PutIn

(***************************************************************************)
(* The search for the highest priority finds a task of the list, and the   *)
(* one with the ceiling priority if there is one.                          *)
(***************************************************************************)
LEMMA HighestFound ==
  ASSUME TypeOK, NEW s \in Seq(Task), s # <<>>
  PROVE  /\ Highest(s) \in Task /\ Highest(s) \in Range(s)
         /\ OneCeiling => \A t \in Range(s) :
              current_prio[t] = MAX_TASK_PRIORITY => Highest(s) = t
<1> DEFINE p(i) == current_prio[s[i]]
           D == {MAX_TASK_PRIORITY - p(i) : i \in 1..Len(s)}
           I == {i \in 1..Len(s) : MAX_TASK_PRIORITY - p(i) = Least(D)}
           First(i) == \A j \in DOMAIN s : p(j) < p(i) \/ (p(j) = p(i) /\ i <= j)
           c == CHOOSE i \in DOMAIN s : First(i)
<1>1. \A i \in 1..Len(s) : p(i) \in Nat /\ p(i) <= MAX_TASK_PRIORITY
  <2> SUFFICES ASSUME NEW i \in 1..Len(s)
               PROVE  p(i) \in Nat /\ p(i) <= MAX_TASK_PRIORITY
    OBVIOUS
  <2>1. s[i] \in Task
    OBVIOUS
  <2>2. \A u \in Task : /\ current_prio[u] \in Nat
                         /\ current_prio[u] <= MAX_TASK_PRIORITY
    <3> TAKE u \in Task
    <3>1. /\ current_prio[u] \in Nat
          /\ current_prio[u] \in {ready_prio[u], dispatch_prio[u],
                                  MAX_TASK_PRIORITY}
      BY DEF TypeOK
    <3> QED
      BY <3>1, PrioAssumption
  <2> QED
    BY <2>1, <2>2
<1>m. MAX_TASK_PRIORITY \in Nat
  BY PrioAssumption
<1>l. Len(s) \in Nat \ {0}
  OBVIOUS
<1>c. Highest(s) = s[c]
  BY DEF Highest
<1> HIDE DEF p
<1>2. Least(D) \in D /\ \A x \in D : Least(D) <= x
  <2>1. D \in SUBSET Nat /\ D # {}
    BY <1>1, <1>m, <1>l
  <2> HIDE DEF D
  <2> QED
    BY <2>1, LeastPosition
<1>3. Least(I) \in I /\ \A x \in I : Least(I) <= x
  <2>1. I \in SUBSET Nat /\ I # {}
    <3>1. PICK i \in 1..Len(s) : Least(D) = MAX_TASK_PRIORITY - p(i)
      BY <1>2
    <3> HIDE DEF D
    <3> QED
      BY <3>1
  <2> HIDE DEF I
  <2> QED
    BY <2>1, LeastPosition
<1>4. Least(I) \in 1..Len(s) /\ First(Least(I))
  <2> DEFINE k == Least(I)
             d == Least(D)
  <2>1. k \in 1..Len(s) /\ MAX_TASK_PRIORITY - p(k) = d
    BY <1>3
  <2>2. \A j \in 1..Len(s) : d <= MAX_TASK_PRIORITY - p(j)
    BY <1>2
  <2>3. \A j \in 1..Len(s) : MAX_TASK_PRIORITY - p(j) = d => k <= j
    BY <1>3
  <2> HIDE DEF k, d, D, I
  <2>4. ASSUME NEW j \in 1..Len(s)
        PROVE  p(j) < p(k) \/ (p(j) = p(k) /\ k <= j)
    <3>1. p(j) \in Nat /\ p(k) \in Nat
      BY <2>1, <1>1
    <3>2. p(j) <= p(k)
      BY <3>1, <2>1, <2>2, <1>m
    <3>3. p(j) = p(k) => k <= j
      BY <2>1, <2>3
    <3>4. p(j) < p(k) \/ p(j) = p(k)
      BY <3>1, <3>2
    <3> QED
      BY <3>3, <3>4
  <2> QED
    BY <2>1, <2>4 DEF k
<1>5. c \in 1..Len(s) /\ First(c)
  <2> HIDE DEF First
  <2> QED
    BY <1>4
<1> HIDE DEF c
<1>7. Highest(s) \in Task /\ Highest(s) \in Range(s)
  BY <1>5, <1>c DEF Range
<1>8. ASSUME OneCeiling, NEW t \in Range(s), current_prio[t] = MAX_TASK_PRIORITY
      PROVE  Highest(s) = t
  <2>1. PICK j \in 1..Len(s) : t = s[j]
    BY DEF Range
  <2>2. p(j) = MAX_TASK_PRIORITY
    BY <2>1, <1>8 DEF p
  <2>3. p(c) = MAX_TASK_PRIORITY
    BY <2>2, <1>1, <1>m, <1>5
  <2>4. current_prio[s[c]] = MAX_TASK_PRIORITY /\ s[c] \in Task /\ t \in Task
    BY <2>1, <2>3, <1>5 DEF p
  <2> QED
    BY <2>4, <1>8, <1>c DEF OneCeiling
<1> QED
  BY <1>7, <1>8

\* The right side of the recursive definition in unblocked_rq.
Unblock(woken, f, n) ==
  IF n = 0 THEN rq
  ELSE IF Activations[n] \in woken
         THEN sn_priority_insert(f[n - 1], Activations[n])
         ELSE f[n - 1]

\* There is a function that this recursion defines.
LEMMA UnblockDefined ==
  ASSUME NEW woken
  PROVE  \E f : f = [n \in 0..Len(Activations) |-> Unblock(woken, f, n)]
<1> DEFINE Def(m) == \E f : f = [n \in 0..m |-> Unblock(woken, f, n)]
           S == {m \in Nat : ~Def(m)}
<1>1. SUFFICES ASSUME S # {}
               PROVE  FALSE
  <2>1. Len(Activations) \in Nat
    BY PrioAssumption
  <2> QED
    BY <2>1
<1>2. PICK k \in S : \A m \in S : k <= m
  <2>1. S \in SUBSET Nat
    OBVIOUS
  <2> HIDE DEF S
  <2> QED
    BY <2>1, <1>1, LeastPosition, Zenon
<1>3. CASE k = 0
  <2> DEFINE g == [n \in 0..0 |-> rq]
  <2>1. g = [n \in 0..0 |-> Unblock(woken, g, n)]
    BY DEF Unblock
  <2> HIDE DEF g
  <2>2. Def(0)
    BY <2>1
  <2> QED
    BY <2>2, <1>3
<1>4. CASE k # 0
  <2>1. k \in Nat /\ k - 1 \in Nat /\ k - 1 \notin S
    BY <1>2, <1>4
  <2>2. PICK f : f = [n \in 0..k - 1 |-> Unblock(woken, f, n)]
    BY <2>1
  <2> DEFINE g == [n \in 0..k |-> IF n = k THEN Unblock(woken, f, k) ELSE f[n]]
  <2>3. ASSUME NEW n \in 0..k
        PROVE  g[n] = Unblock(woken, g, n)
    <3>1. n # 0 => g[n - 1] = f[n - 1]
      BY <2>1
    <3>2. Unblock(woken, g, n) = Unblock(woken, f, n)
      <4> HIDE DEF g
      <4> QED
        BY <3>1 DEF Unblock
    <3>3. CASE n = k
      BY <3>2, <3>3
    <3>4. CASE n # k
      <4>1. n \in 0..k - 1
        BY <3>4, <2>1
      <4>2. f[n] = Unblock(woken, f, n)
        BY <4>1, <2>2
      <4> QED
        BY <4>2, <3>2, <3>4
    <3> QED
      BY <3>3, <3>4
  <2>4. g = [n \in 0..k |-> g[n]]
    OBVIOUS
  <2> HIDE DEF g
  <2>5. g = [n \in 0..k |-> Unblock(woken, g, n)]
    BY <2>3, <2>4
  <2> QED
    BY <2>5
<1> QED
  BY <1>3, <1>4

(***************************************************************************)
(* The ready queue takes in every woken task once: each of them is         *)
(* activated once by main(), and none is in the queue already.             *)
(***************************************************************************)
LEMMA Unblocked ==
  ASSUME rq \in Seq(Task), IsInjective(rq),
         NEW woken \in SUBSET Range(Activations), woken \cap Range(rq) = {}
  PROVE  /\ unblocked_rq(woken) \in Seq(Task)
         /\ IsInjective(unblocked_rq(woken))
         /\ Range(unblocked_rq(woken)) = Range(rq) \cup woken
<1> DEFINE L == Len(Activations)
           h == CHOOSE f : f = [n \in 0..L |-> Unblock(woken, f, n)]
           In(n) == {Activations[i] : i \in 1..n} \cap woken
           Good(n) == /\ h[n] \in Seq(Task) /\ IsInjective(h[n])
                      /\ Range(h[n]) = Range(rq) \cup In(n)
           S == {n \in 0..L : ~Good(n)}
<1>1. h = [n \in 0..L |-> Unblock(woken, h, n)]
  <2> HIDE DEF h
  <2> QED
    BY UnblockDefined, Zenon DEF h
<1>2. unblocked_rq(woken) = h[L]
  BY DEF unblocked_rq, Unblock
<1>3. /\ L \in Nat /\ \A i \in 1..L : Activations[i] \in Task
      /\ \A i, j \in 1..L : Activations[i] = Activations[j] => i = j
  BY PrioAssumption, SMTT(30) DEF IsInjective
<1> HIDE DEF h, L
<1>4. S = {}
  <2> SUFFICES ASSUME S # {}
               PROVE  FALSE
    OBVIOUS
  <2>1. PICK k \in S : \A m \in S : k <= m
    <3>1. S \in SUBSET Nat
      BY <1>3
    <3> HIDE DEF S
    <3> QED
      BY <3>1, LeastPosition, Zenon
  <2>2. k \in 0..L /\ ~Good(k)
    OBVIOUS
  <2>3. h[k] = Unblock(woken, h, k)
    BY <1>1, <2>2, Zenon
  <2>4. k # 0
    <3> SUFFICES ASSUME k = 0
                 PROVE  FALSE
      OBVIOUS
    <3>1. h[0] = rq
      BY <2>3 DEF Unblock
    <3>2. In(0) = {}
      OBVIOUS
    <3> HIDE DEF In
    <3> QED
      BY <3>1, <3>2, <2>2
  <2>5. k \in 1..L /\ k - 1 \in 0..L /\ k - 1 \notin S
    BY <2>1, <2>2, <2>4, <1>3
  <2>6. Good(k - 1)
    BY <2>5
  <2> DEFINE a == Activations[k]
             q == h[k - 1]
  <2>7. a \in Task /\ a \notin In(k - 1)
    BY <2>5, <1>3
  <2>8. In(k) = IF a \in woken THEN In(k - 1) \cup {a} ELSE In(k - 1)
    <3>1. \A i \in 1..k : i = k \/ i \in 1..k - 1
      BY <2>5
    <3>2. \A i \in 1..k - 1 : i \in 1..k
      BY <2>5
    <3> QED
      BY <3>1, <3>2, <2>5
  <2>9. h[k] = IF a \in woken THEN sn_priority_insert(q, a) ELSE q
    BY <2>3, <2>4 DEF Unblock
  <2> HIDE DEF In, a, q
  <2>10. q \in Seq(Task) /\ IsInjective(q) /\ Range(q) = Range(rq) \cup In(k - 1)
    BY <2>6 DEF q
  <2>11. CASE a \in woken
    <3>1. a \notin Range(q)
      BY <2>7, <2>10, <2>11
    <3>2. h[k] = sn_priority_insert(q, a)
      BY <2>9, <2>11
    <3>3. In(k) = In(k - 1) \cup {a}
      BY <2>8, <2>11
    <3>4. Good(k)
      BY <3>1, <3>2, <3>3, <2>7, <2>10, Queued
    <3> QED
      BY <3>4, <2>2
  <2>12. CASE a \notin woken
    BY <2>12, <2>8, <2>9, <2>10, <2>2
  <2> QED
    BY <2>11, <2>12
<1>5. Good(L)
  BY <1>3, <1>4
<1>6. In(L) = woken
  BY DEF Range, L
<1> HIDE DEF In
<1> QED
  BY <1>2, <1>5, <1>6

-----------------------------------------------------------------------------
(* The switch to the next task. *)

Top(s, t) == s # <<>> /\ Head(s) = t

Pc     == {"new", "wait", "waiting", "clear", "begin", "requesting", "mem",
           "ending", "exec"}
Status == {"SUSPENDED", "READY", "READY_STACKED", "WAITING", "RUNNING"}

\* The core goes on with the top of s, or with the head n of q.
GoesOn(s, q, prio) ==
  /\ Range(stk') = Range(s) /\ Range(rq') = Range(q) /\ current_prio' = prio
  /\ \A t \in Task : Running(t)' <=> Top(s, t)

Starts(n, s, q, prio) ==
  /\ Range(stk') = {n} \cup Range(s) /\ Range(rq') = Range(q) \ {n}
  /\ current_prio' = stk_next(n, prio)
  /\ \A t \in Task : Running(t)' <=> t = n
  /\ \A t \in Task : Top(s, t) => prio[t] < prio[n]

(***************************************************************************)
(* SwitchTo, in terms of the tasks in the lists.  It starts no task afresh *)
(* if all of them have a saved context.                                    *)
(***************************************************************************)
LEMMA Switched ==
  ASSUME NEW s \in Seq(Task), NEW q \in Seq(Task),
         IsInjective(s), IsInjective(q), Range(s) \cap Range(q) = {},
         NEW prio \in [Task -> Nat], NEW st \in [Task -> Status], NEW at,
         \A t \in Range(s) \cup Range(q) : st[t] = "READY_STACKED",
         SwitchTo(s, q, prio, st, at)
  PROVE  /\ pc' = at
         /\ stk' \in Seq(Task) /\ rq' \in Seq(Task)
         /\ IsInjective(stk') /\ IsInjective(rq')
         /\ status' = [t \in Task |-> IF Running(t)' THEN "RUNNING" ELSE st[t]]
         /\ GoesOn(s, q, prio) \/ \E n \in Range(q) : Starts(n, s, q, prio)
<1>1. CASE rq_preempts_stk(s, q, prio)
  <2> DEFINE n == Head(q)
  <2>1. /\ q # <<>>
        /\ s # <<>> => prio[Head(s)] < prio[n]
    BY <1>1 DEF rq_preempts_stk
  <2>2. /\ n \in Task /\ n \in Range(q) /\ Tail(q) \in Seq(Task)
        /\ IsInjective(Tail(q)) /\ Range(Tail(q)) = Range(q) \ {n}
    BY <2>1, Popped
  <2>3. /\ stk' = <<n>> \o s /\ rq' = Tail(q)
        /\ current_prio' = stk_next(n, prio)
        /\ status' = [t \in Task |->
                        IF t = n THEN "RUNNING"
                        ELSE IF s # <<>> /\ t = Head(s) THEN "READY_STACKED"
                        ELSE st[t]]
        /\ pc' = change_context(n, st, at)
    BY <1>1 DEF SwitchTo, list_push_to_head
  <2>4. n \notin Range(s)
    BY <2>2
  <2>5. /\ stk' \in Seq(Task) /\ stk' # <<>> /\ Head(stk') = n
        /\ IsInjective(stk') /\ Range(stk') = {n} \cup Range(s)
    <3> HIDE DEF n
    <3> QED
      BY <2>2, <2>3, <2>4, Pushed
  <2> HIDE DEF n
  <2>6. \A t : Running(t)' <=> t = n
    BY <2>5 DEF Running
  <2>7. pc' = at
    BY <2>2, <2>3 DEF change_context
  <2>8. s # <<>> => Head(s) \in Range(s)
    BY Popped
  <2>9. status' = [t \in Task |-> IF Running(t)' THEN "RUNNING" ELSE st[t]]
    <3>1. \A t \in Task : s # <<>> /\ t = Head(s) => st[t] = "READY_STACKED"
      BY <2>8
    <3> QED
      BY <2>3, <2>6, <3>1
  <2>10. \A t \in Task : Top(s, t) => prio[t] < prio[n]
    BY <2>1 DEF Top
  <2>11. Starts(n, s, q, prio)
    BY <2>2, <2>3, <2>5, <2>6, <2>10, Zenon DEF Starts
  <2> QED
    BY <2>2, <2>3, <2>5, <2>7, <2>9, <2>11
<1>2. CASE ~rq_preempts_stk(s, q, prio)
  <2>1. /\ stk' = s /\ rq' = q /\ current_prio' = prio
        /\ status' = [t \in Task |-> IF s # <<>> /\ t = Head(s)
                                      THEN "RUNNING" ELSE st[t]]
        /\ pc' = IF s = <<>> THEN at ELSE change_context(Head(s), st, at)
    BY <1>2 DEF SwitchTo
  <2>2. \A t : Running(t)' <=> Top(s, t)
    BY <2>1 DEF Running, Top
  <2>3. s # <<>> => st[Head(s)] = "READY_STACKED"
    BY Popped
  <2>4. pc' = at
    BY <2>1, <2>3 DEF change_context
  <2>5. status' = [t \in Task |-> IF Running(t)' THEN "RUNNING" ELSE st[t]]
    BY <2>1, <2>2 DEF Top
  <2>6. GoesOn(s, q, prio)
    BY <2>1, <2>2 DEF GoesOn
  <2> QED
    BY <2>1, <2>4, <2>5, <2>6
<1> QED
  BY <1>1, <1>2

(***************************************************************************)
(* What a primitive or an ISR2 must leave behind before it switches: the   *)
(* invariant with all tasks in lists READY_STACKED, for stack s, ready     *)
(* queue q, held back tasks u, priorities prio, states st, places at, wait *)
(* masks wm, nodes os and token status mem.                                *)
(***************************************************************************)
PrioType(prio) ==
  /\ prio \in [Task -> Nat]
  /\ \A t \in Task : prio[t] \in {ready_prio[t], dispatch_prio[t],
                                  MAX_TASK_PRIORITY}

ReadyLists(s, q, u) ==
  /\ s \in Seq(Task) /\ q \in Seq(Task) /\ u \in Seq(Task)
  /\ IsInjective(s) /\ IsInjective(q) /\ IsInjective(u)
  /\ Range(s) \cap Range(q) = {}
  /\ Range(s) \cap Range(u) = {}
  /\ Range(q) \cap Range(u) = {}

ReadyPlaced(t, s, q, u, st, at, wm, os) ==
  /\ st[t] # "RUNNING" /\ st[t] # "READY"
  /\ st[t] = "READY_STACKED" <=> t \in Range(s) \cup Range(q) \cup Range(u)
  /\ st[t] = "SUSPENDED" <=> at[t] = "new"
  /\ st[t] = "WAITING" <=> wm[t] /\ os[t]
  /\ wm[t] \/ t \in Range(q) => at[t] = "waiting"
  /\ t \in Range(u) => at[t] \in {"requesting", "mem"}
  /\ t \in Range(activations) => at[t] = "new" /\ t \in Range(Activations)
  /\ at[t] # "new" => t \in Range(Activations)

ReadyPhase(t, s, u, prio, at, mem) ==
  /\ at[t] \in {"mem", "ending", "exec"} => prio[t] = MAX_TASK_PRIORITY
  /\ prio[t] = MAX_TASK_PRIORITY =>
       \/ at[t] \in {"mem", "ending", "exec"}
       \/ at[t] = "requesting" /\ Top(s, t) /\ mem = "ACQUIRED"
  /\ at[t] = "mem" => \/ Top(s, t) /\ mem = "ACQUIRED"
                      \/ t \in Range(u) /\ mem = "REQUESTED"
  /\ at[t] = "ending" => Top(s, t) /\ mem = "ACQUIRED"
  /\ at[t] = "exec" => Top(s, t) /\ mem = "NONE"

ReadyToken(s, u, prio, at, mem) ==
  /\ \A t, v \in Task : prio[t] = MAX_TASK_PRIORITY
                        /\ prio[v] = MAX_TASK_PRIORITY => t = v
  /\ mem = "ACQUIRED" =>
       \E t \in Task : Top(s, t) /\ prio[t] = MAX_TASK_PRIORITY
  /\ mem = "REQUESTED" => Range(u) # {}
  /\ mem = "NONE" /\ Range(u) # {} =>
       \E t \in Range(s) : at[t] \in {"exec", "requesting"}

Ready(s, q, u, prio, st, at, wm, os, mem) ==
  /\ ReadyLists(s, q, u)
  /\ \A t \in Task : ReadyPlaced(t, s, q, u, st, at, wm, os)
  /\ \A t \in Task : ReadyPhase(t, s, u, prio, at, mem)
  /\ ReadyToken(s, u, prio, at, mem)

KernelTypes ==
  /\ stk \in Seq(Task) /\ rq \in Seq(Task) /\ suspended \in Seq(Task)
  /\ status \in [Task -> Status] /\ PrioType(current_prio)
  /\ pc \in [Task -> Pc]

(***************************************************************************)
(* Then the switch restores the invariant, and what runs after it is the   *)
(* top of the stack or a task in WaitEvent.                                *)
(***************************************************************************)
LEMMA Rescheduled ==
  ASSUME NEW s, NEW q, NEW prio, PrioType(prio), NEW st \in [Task -> Status],
         NEW at \in [Task -> Pc], activations' = activations,
         Ready(s, q, suspended', prio, st, at, wait_mask', own_sn',
               mem_arbit_status'),
         SwitchTo(s, q, prio, st, at)
  PROVE  /\ Kernel' /\ KernelTypes' /\ pc' = at
         /\ \A t \in Task : Running(t)' => Top(s, t) \/ pc'[t] = "waiting"
<1> DEFINE u == suspended'
           mem == mem_arbit_status'
<1>1. ReadyLists(s, q, u) /\ ReadyToken(s, u, prio, at, mem)
  BY DEF Ready
<1>2. \A t \in Task : /\ ReadyPlaced(t, s, q, u, st, at, wait_mask', own_sn')
                      /\ ReadyPhase(t, s, u, prio, at, mem)
  BY DEF Ready
<1>3. /\ s \in Seq(Task) /\ q \in Seq(Task) /\ u \in Seq(Task)
      /\ IsInjective(s) /\ IsInjective(q) /\ IsInjective(u)
      /\ Range(s) \cap Range(q) = {} /\ Range(s) \cap Range(u) = {}
      /\ Range(q) \cap Range(u) = {}
  BY <1>1 DEF ReadyLists
<1>4. Range(s) \subseteq Task /\ Range(q) \subseteq Task /\ Range(u) \subseteq Task
  BY <1>3 DEF Range
<1>5. \A t \in Range(s) \cup Range(q) : st[t] = "READY_STACKED"
  BY <1>2, <1>4 DEF ReadyPlaced
<1>6. /\ pc' = at
      /\ stk' \in Seq(Task) /\ rq' \in Seq(Task)
      /\ IsInjective(stk') /\ IsInjective(rq')
      /\ status' = [t \in Task |-> IF Running(t)' THEN "RUNNING" ELSE st[t]]
      /\ GoesOn(s, q, prio) \/ \E n \in Range(q) : Starts(n, s, q, prio)
  BY <1>3, <1>5, Switched, Zenon DEF PrioType
<1>7. status' \in [Task -> Status]
  BY <1>6 DEF Status
<1>8. \A t : Top(s, t) => t \in Range(s)
  BY <1>3, Popped DEF Top
<1>9. CASE GoesOn(s, q, prio)
  <2>1. /\ Range(stk') = Range(s) /\ Range(rq') = Range(q)
        /\ current_prio' = prio
        /\ \A t \in Task : Running(t)' <=> Top(s, t)
    BY <1>9 DEF GoesOn
  <2>2. Lists'
    BY <2>1, <1>3, <1>6 DEF Lists
  <2>3. ASSUME NEW t \in Task PROVE Placed(t)'
    BY <2>1, <1>2, <1>6, <1>8 DEF Placed, ReadyPlaced
  <2>4. ASSUME NEW t \in Task PROVE Phase(t)'
    BY <2>1, <1>2, <1>6 DEF Phase, ReadyPhase
  <2>5. OneCeiling' /\ TokenFor'
    BY <2>1, <1>1, <1>6 DEF OneCeiling, TokenFor, ReadyToken
  <2> QED
    BY <2>1, <2>2, <2>3, <2>4, <2>5, <1>3, <1>6, <1>7 DEF Kernel, KernelTypes
<1>10. ASSUME NEW n \in Range(q), Starts(n, s, q, prio)
       PROVE  /\ Kernel' /\ KernelTypes'
              /\ \A t \in Task : Running(t)' => pc'[t] = "waiting"
  <2>1. /\ Range(stk') = {n} \cup Range(s) /\ Range(rq') = Range(q) \ {n}
        /\ current_prio' = stk_next(n, prio)
        /\ \A t \in Task : Running(t)' <=> t = n
        /\ \A t \in Task : Top(s, t) => prio[t] < prio[n]
    BY <1>10 DEF Starts
  <2>2. n \in Task /\ at[n] = "waiting"
    BY <1>2, <1>4 DEF ReadyPlaced
  <2>3. prio[n] # MAX_TASK_PRIORITY
    BY <2>2, <1>2 DEF ReadyPhase
  <2>4. \A t \in Task : prio[t] \in Nat /\ prio[t] <= MAX_TASK_PRIORITY
    <3> TAKE t \in Task
    <3>1. prio[t] \in Nat
          /\ prio[t] \in {ready_prio[t], dispatch_prio[t], MAX_TASK_PRIORITY}
      BY DEF PrioType
    <3> QED
      BY <3>1, PrioAssumption
  <2>5. \A t \in Task : Top(s, t) => prio[t] # MAX_TASK_PRIORITY
    <3> SUFFICES ASSUME NEW t \in Task, Top(s, t), prio[t] = MAX_TASK_PRIORITY
                 PROVE  FALSE
      OBVIOUS
    <3>1. prio[t] < prio[n] /\ prio[n] <= MAX_TASK_PRIORITY
      BY <2>1, <2>2, <2>4
    <3> QED
      BY <3>1, <2>2, <2>4, PrioAssumption
  <2>6. \A t \in Task : t # n => current_prio'[t] = prio[t]
    BY <2>1 DEF stk_next, PrioType
  <2>7. current_prio'[n] \in {prio[n], dispatch_prio[n]}
    BY <2>1, <2>2 DEF stk_next, PrioType
  <2>8. current_prio'[n] # MAX_TASK_PRIORITY
    BY <2>2, <2>3, <2>7, PrioAssumption, SMTT(30)
  <2>9. mem # "ACQUIRED"
    BY <2>5, <1>1 DEF ReadyToken
  <2>10. PrioType(current_prio')
    <3>1. current_prio' \in [Task -> Nat]
      BY <2>1, <2>2, PrioAssumption, Zenon DEF stk_next, PrioType
    <3> QED
      BY <3>1, <2>6, <2>7 DEF PrioType
  <2>11. Lists'
    BY <2>1, <1>3, <1>6 DEF Lists
  <2>12. ASSUME NEW t \in Task PROVE Placed(t)'
    BY <2>1, <1>2, <1>6, <1>8 DEF Placed, ReadyPlaced
  <2>13. ASSUME NEW t \in Task PROVE Phase(t)'
    <3>1. CASE t = n
      BY <3>1, <2>2, <2>8, <1>6 DEF Phase
    <3>2. CASE t # n
      <4>1. current_prio'[t] = prio[t] /\ (Top(s, t) => prio[t] # MAX_TASK_PRIORITY)
        BY <3>2, <2>5, <2>6
      <4>2. /\ at[t] \notin {"ending", "exec"}
            /\ at[t] = "mem" => t \in Range(u) /\ mem = "REQUESTED"
            /\ at[t] = "mem" <=> prio[t] = MAX_TASK_PRIORITY
        BY <4>1, <2>9, <1>2 DEF ReadyPhase
      <4> QED
        BY <4>1, <4>2, <1>6 DEF Phase
    <3> QED
      BY <3>1, <3>2
  <2>14. OneCeiling'
    BY <2>6, <2>8, <1>1 DEF OneCeiling, ReadyToken
  <2>15. TokenFor'
    BY <2>1, <2>9, <1>1, <1>6 DEF TokenFor, ReadyToken
  <2> QED
    BY <2>1, <2>2, <2>10, <2>11, <2>12, <2>13, <2>14, <2>15, <1>3, <1>6, <1>7
       DEF Kernel, KernelTypes
<1> QED
  BY <1>6, <1>9, <1>10

-----------------------------------------------------------------------------
(* The steps that switch. *)

\* What Kernel says of the lists and of the running task.
LEMMA KernelFacts ==
  ASSUME TypeOK, Kernel
  PROVE  /\ ReadyLists(stk, rq, suspended) /\ KernelTypes
         /\ Range(stk) \subseteq Task /\ Range(rq) \subseteq Task
         /\ Range(suspended) \subseteq Task
         /\ \A t : Running(t) <=> Top(stk, t)
         /\ \A t : Running(t) => t \in Range(stk)
         /\ \A t, u : Running(t) /\ Running(u) => t = u
<1>1. ReadyLists(stk, rq, suspended)
  BY DEF TypeOK, Kernel, Lists, ReadyLists
<1>2. KernelTypes
  BY DEF TypeOK, KernelTypes, PrioType, Status, Pc
<1>3. /\ Range(stk) \subseteq Task /\ Range(rq) \subseteq Task
      /\ Range(suspended) \subseteq Task
  BY <1>1 DEF ReadyLists, Range
<1>4. \A t : Running(t) <=> Top(stk, t)
  BY DEF Running, Top
<1>5. \A t : Running(t) => t \in Range(stk)
  BY <1>1, Popped DEF ReadyLists, Running
<1>6. \A t, u : Running(t) /\ Running(u) => t = u
  BY DEF Running
<1> QED
  BY <1>1, <1>2, <1>3, <1>4, <1>5, <1>6

\* The running task leaves the stack.
LEMMA Unstacked ==
  ASSUME TypeOK, Kernel, NEW t \in Task, Running(t)
  PROVE  /\ ReadyLists(Tail(stk), rq, suspended)
         /\ Range(Tail(stk)) = Range(stk) \ {t}
         /\ \A u : Top(Tail(stk), u) => u \in Range(stk) \ {t}
<1>1. ReadyLists(stk, rq, suspended)
  BY KernelFacts
<1>2. /\ Tail(stk) \in Seq(Task) /\ IsInjective(Tail(stk))
      /\ Range(Tail(stk)) = Range(stk) \ {t}
  BY <1>1, Popped DEF ReadyLists, Running
<1>3. \A u : Top(Tail(stk), u) => u \in Range(Tail(stk))
  BY <1>2, Popped, Zenon DEF Top
<1> HIDE DEF Top
<1> QED
  BY <1>1, <1>2, <1>3 DEF ReadyLists

(***************************************************************************)
(* WaitEvent with the event not set: the task leaves the stack.            *)
(***************************************************************************)
LEMMA WaitKeeps ==
  ASSUME TypeOK, Kernel, NEW t \in Task, WaitEvent(t), ~event_mask[t]
  PROVE  Kernel' /\ KernelTypes' /\ pc' = [pc EXCEPT ![t] = "waiting"]
<1> DEFINE s == Tail(stk)
           st == [status EXCEPT ![t] = "WAITING"]
           at == [pc EXCEPT ![t] = "waiting"]
<1>1. /\ Running(t) /\ pc[t] = "wait"
      /\ wait_mask' = [wait_mask EXCEPT ![t] = TRUE]
      /\ own_sn' = [own_sn EXCEPT ![t] = TRUE]
      /\ SwitchTo(s, rq, current_prio, st, at)
      /\ suspended' = suspended /\ mem_arbit_status' = mem_arbit_status
      /\ activations' = activations
  BY DEF WaitEvent, Executes, boot
<1>2. /\ ReadyLists(s, rq, suspended) /\ Range(s) = Range(stk) \ {t}
      /\ \A u : Top(s, u) => u \in Range(stk) \ {t}
  BY <1>1, Unstacked
<1>3. /\ ReadyLists(stk, rq, suspended) /\ KernelTypes
      /\ Range(stk) \subseteq Task
      /\ \A u : Running(u) => u \in Range(stk)
      /\ \A u : Running(u) => u = t
  BY <1>1, KernelFacts
<1>4. st \in [Task -> Status] /\ at \in [Task -> Pc] /\ PrioType(current_prio)
  BY <1>3 DEF KernelTypes, Status, Pc
<1>5. /\ \A u \in Task : Placed(u)
      /\ \A u \in Task : Phase(u)
      /\ OneCeiling /\ TokenFor
  BY DEF Kernel
<1>6. \A u \in Task : /\ st[u] = IF u = t THEN "WAITING" ELSE status[u]
                      /\ at[u] = IF u = t THEN "waiting" ELSE pc[u]
  BY <1>3 DEF KernelTypes
<1>7. \A u \in Task : /\ u # t => /\ wait_mask'[u] = wait_mask[u]
                                  /\ own_sn'[u] = own_sn[u]
                      /\ wait_mask'[t] /\ own_sn'[t]
  BY <1>1, Zenon DEF TypeOK
<1> HIDE DEF s, st, at
<1>8. ASSUME NEW u \in Task
      PROVE  ReadyPlaced(u, s, rq, suspended, st, at, wait_mask', own_sn')
  <2>1. CASE u = t
    BY <2>1, <1>1, <1>2, <1>3, <1>5, <1>6, <1>7, ZenonT(60)
       DEF Placed, ReadyPlaced, ReadyLists
  <2>2. CASE u # t
    BY <2>2, <1>2, <1>3, <1>5, <1>6, <1>7, SMTT(30) DEF Placed, ReadyPlaced
  <2> QED
    BY <2>1, <2>2
<1>9. mem_arbit_status # "ACQUIRED" /\ current_prio[t] # MAX_TASK_PRIORITY
  BY <1>1, <1>3, <1>5 DEF TokenFor, Phase
<1>10. ASSUME NEW u \in Task
       PROVE  ReadyPhase(u, s, suspended, current_prio, at, mem_arbit_status)
  BY <1>1, <1>3, <1>5, <1>6, <1>9 DEF Phase, ReadyPhase
<1>11. ReadyToken(s, suspended, current_prio, at, mem_arbit_status)
  BY <1>1, <1>2, <1>3, <1>5, <1>6, <1>9 DEF ReadyToken, TokenFor, OneCeiling
<1>12. Ready(s, rq, suspended', current_prio, st, at, wait_mask', own_sn',
             mem_arbit_status')
  BY <1>1, <1>2, <1>8, <1>10, <1>11, Zenon DEF Ready
<1> QED
  BY <1>1, <1>4, <1>12, Rescheduled, Zenon DEF at

(***************************************************************************)
(* DPREM_suspend_running_task: the task leaves the stack for the DPREM     *)
(* queue, because the token is requested.                                  *)
(***************************************************************************)
LEMMA SuspendKeeps ==
  ASSUME TypeOK, Kernel, NEW t \in Task, Running(t),
         pc[t] \in {"begin", "requesting"}, mem_arbit_status # "ACQUIRED",
         mem_arbit_status' = "REQUESTED", activations' = activations,
         suspend_running_task(t)
  PROVE  Kernel' /\ KernelTypes' /\ pc' = [pc EXCEPT ![t] = "requesting"]
<1> DEFINE s == Tail(stk)
           u == <<t>> \o suspended
           prio == [current_prio EXCEPT ![t] = ready_prio[t]]
           st == [status EXCEPT ![t] = "READY_STACKED"]
           at == [pc EXCEPT ![t] = "requesting"]
<1>1. /\ suspended' = u
      /\ own_sn' = [own_sn EXCEPT ![t] = TRUE] /\ wait_mask' = wait_mask
      /\ SwitchTo(s, rq, prio, st, at)
  BY DEF suspend_running_task, list_push_to_head
<1>2. /\ ReadyLists(s, rq, suspended) /\ Range(s) = Range(stk) \ {t}
      /\ \A v : Top(s, v) => v \in Range(stk) \ {t}
  BY Unstacked
<1>3. /\ ReadyLists(stk, rq, suspended) /\ KernelTypes
      /\ Range(stk) \subseteq Task
      /\ \A v : Running(v) => v \in Range(stk)
      /\ \A v : Running(v) => v = t
  BY KernelFacts
<1>4. \A v \in Task : ready_prio[v] \in Nat /\ ready_prio[v] # MAX_TASK_PRIORITY
  BY PrioAssumption
<1>5. st \in [Task -> Status] /\ at \in [Task -> Pc]
  BY <1>3 DEF KernelTypes, Status, Pc
<1>6. PrioType(prio)
  BY <1>3, <1>4 DEF KernelTypes, PrioType
<1>7. /\ \A v \in Task : Placed(v)
      /\ \A v \in Task : Phase(v)
      /\ OneCeiling /\ TokenFor
  BY DEF Kernel
<1>8. \A v \in Task : /\ st[v] = IF v = t THEN "READY_STACKED" ELSE status[v]
                      /\ at[v] = IF v = t THEN "requesting" ELSE pc[v]
                      /\ prio[v] = IF v = t THEN ready_prio[v]
                                   ELSE current_prio[v]
  BY <1>3 DEF KernelTypes, PrioType
<1>9. \A v \in Task : v # t => own_sn'[v] = own_sn[v]
  BY <1>1 DEF TypeOK
<1>10. t \notin Range(suspended) /\ t \notin Range(rq) /\ t \in Range(stk)
  BY <1>3 DEF ReadyLists
<1>11. /\ u \in Seq(Task) /\ IsInjective(u) /\ Range(u) = {t} \cup Range(suspended)
  BY <1>3, <1>10, Pushed DEF ReadyLists
<1> HIDE DEF s, u, prio, st, at
<1>12. ReadyLists(s, rq, u)
  BY <1>2, <1>3, <1>10, <1>11 DEF ReadyLists
<1>13. ASSUME NEW v \in Task
       PROVE  ReadyPlaced(v, s, rq, u, st, at, wait_mask', own_sn')
  <2>1. CASE v = t
    BY <2>1, <1>1, <1>7, <1>8, <1>10, <1>11 DEF Placed, ReadyPlaced
  <2>2. CASE v # t
    BY <2>2, <1>1, <1>2, <1>3, <1>7, <1>8, <1>9, <1>11, ZenonT(60) DEF Placed, ReadyPlaced
  <2> QED
    BY <2>1, <2>2
<1>14. ASSUME NEW v \in Task
       PROVE  ReadyPhase(v, s, u, prio, at, "REQUESTED")
  <2>1. CASE v = t
    BY <2>1, <1>4, <1>8 DEF ReadyPhase
  <2>2. CASE v # t
    BY <2>2, <1>3, <1>7, <1>8, <1>11 DEF Phase, ReadyPhase
  <2> QED
    BY <2>1, <2>2
<1>15. ReadyToken(s, u, prio, at, "REQUESTED")
  BY <1>4, <1>7, <1>8, <1>11 DEF ReadyToken, OneCeiling
<1>16. Ready(s, rq, suspended', prio, st, at, wait_mask', own_sn',
             mem_arbit_status')
  BY <1>1, <1>12, <1>13, <1>14, <1>15, Zenon DEF Ready
<1> QED
  BY <1>1, <1>5, <1>6, <1>16, Rescheduled, Zenon DEF at

\* The states of the tasks once an ISR2 has preempted the running one.
LEMMA PreemptedStatus ==
  ASSUME TypeOK, Kernel
  PROVE  /\ Preempted \in [Task -> Status]
         /\ \A t \in Task : /\ Preempted[t] # "RUNNING" /\ Preempted[t] # "READY"
                            /\ Preempted[t] = "READY_STACKED" <=>
                                 t \in Range(stk) \cup Range(rq) \cup Range(suspended)
                            /\ Preempted[t] = "SUSPENDED" <=> status[t] = "SUSPENDED"
                            /\ Preempted[t] = "WAITING" <=> status[t] = "WAITING"
<1>1. /\ status \in [Task -> Status]
      /\ \A t : Running(t) => t \in Range(stk)
      /\ \A t \in Task : Placed(t)
  BY KernelFacts DEF KernelTypes, Kernel
<1>2. \A t \in Task : Preempted[t] = IF Running(t) /\ status[t] = "RUNNING"
                                      THEN "READY_STACKED" ELSE status[t]
  BY DEF Preempted
<1>3. Preempted \in [Task -> Status]
  BY <1>1 DEF Preempted, Status
<1>4. ASSUME NEW t \in Task
      PROVE  /\ Preempted[t] # "RUNNING" /\ Preempted[t] # "READY"
             /\ Preempted[t] = "READY_STACKED" <=>
                  t \in Range(stk) \cup Range(rq) \cup Range(suspended)
             /\ Preempted[t] = "SUSPENDED" <=> status[t] = "SUSPENDED"
             /\ Preempted[t] = "WAITING" <=> status[t] = "WAITING"
  BY <1>1, <1>2 DEF Placed
<1> QED
  BY <1>3, <1>4

\* An ISR2 that changes none of the lists.
LEMMA QuietIsrKeeps ==
  ASSUME TypeOK, Kernel, IsrEnds(stk, current_prio),
         UNCHANGED <<suspended, wait_mask, own_sn, mem_arbit_status, activations>>
  PROVE  /\ Kernel' /\ KernelTypes' /\ pc' = pc
         /\ \A t \in Task : Running(t)' => Running(t) \/ pc[t] = "waiting"
<1>1. SwitchTo(stk, rq, current_prio, Preempted, pc)
  BY DEF IsrEnds
<1>2. /\ ReadyLists(stk, rq, suspended) /\ KernelTypes
      /\ \A t : Running(t) <=> Top(stk, t)
  BY KernelFacts
<1>3. /\ \A t \in Task : Placed(t)
      /\ \A t \in Task : Phase(t)
      /\ OneCeiling /\ TokenFor
  BY DEF Kernel
<1>4. \A t \in Task : ReadyPlaced(t, stk, rq, suspended, Preempted, pc,
                                  wait_mask, own_sn)
  BY <1>3, PreemptedStatus DEF Placed, ReadyPlaced
<1>5. \A t \in Task : ReadyPhase(t, stk, suspended, current_prio, pc,
                                 mem_arbit_status)
  BY <1>2, <1>3 DEF Phase, ReadyPhase
<1>6. ReadyToken(stk, suspended, current_prio, pc, mem_arbit_status)
  BY <1>2, <1>3 DEF ReadyToken, OneCeiling, TokenFor
<1>7. Ready(stk, rq, suspended', current_prio, Preempted, pc, wait_mask', own_sn',
            mem_arbit_status')
  BY <1>2, <1>4, <1>5, <1>6 DEF Ready
<1>8. /\ Preempted \in [Task -> Status] /\ pc \in [Task -> Pc]
      /\ PrioType(current_prio)
  BY <1>2, PreemptedStatus DEF KernelTypes
<1> QED
  BY <1>1, <1>2, <1>7, <1>8, Rescheduled

(***************************************************************************)
(* memory_phase_started_ISR while the token is requested: the highest of   *)
(* the held back tasks goes on top of the stack.  If one of them is in its *)
(* memory phase, it is that one.                                           *)
(***************************************************************************)
LEMMA StartedKeeps ==
  ASSUME TypeOK, Kernel, mem_arbit_status = "REQUESTED",
         mem_arbit_status' = "ACQUIRED",
         UNCHANGED <<wait_mask, own_sn, activations>>,
         resume_highest_priority_task_from_ISR
  PROVE  Kernel' /\ KernelTypes' /\ pc' = pc
<1> DEFINE t == Highest(suspended)
           s == <<t>> \o stk
           u == list_remove(suspended, t)
           prio == [current_prio EXCEPT ![t] = MAX_TASK_PRIORITY]
<1>1. /\ ReadyLists(stk, rq, suspended) /\ KernelTypes
      /\ Range(stk) \subseteq Task
      /\ \A v : Running(v) => v \in Range(stk)
  BY KernelFacts
<1>2. /\ \A v \in Task : Placed(v)
      /\ \A v \in Task : Phase(v)
      /\ OneCeiling /\ TokenFor
  BY DEF Kernel
<1>3. suspended # <<>>
  BY <1>2 DEF TokenFor, Range
<1>4. /\ suspended' = u
      /\ SwitchTo(s, rq, prio, Preempted, pc)
  BY <1>3 DEF resume_highest_priority_task_from_ISR, IsrEnds,
              list_insert_before_regular
<1>5. /\ t \in Task /\ t \in Range(suspended)
      /\ \A v \in Range(suspended) : current_prio[v] = MAX_TASK_PRIORITY => t = v
  BY <1>1, <1>2, <1>3, HighestFound DEF ReadyLists
<1> HIDE DEF t
<1>6. /\ u \in Seq(Task) /\ IsInjective(u) /\ Range(u) = Range(suspended) \ {t}
  BY <1>1, <1>5, TakenOut DEF ReadyLists
<1>7. t \notin Range(stk) /\ t \notin Range(rq)
  BY <1>1, <1>5 DEF ReadyLists
<1>8. /\ s \in Seq(Task) /\ IsInjective(s) /\ Range(s) = {t} \cup Range(stk)
      /\ \A v : Top(s, v) <=> v = t
  BY <1>1, <1>5, <1>7, Pushed DEF ReadyLists, Top
<1>9. /\ \A v \in Task : prio[v] = IF v = t THEN MAX_TASK_PRIORITY
                                   ELSE current_prio[v]
      /\ PrioType(prio)
  BY <1>1, PrioAssumption, Zenon DEF KernelTypes, PrioType
<1> HIDE DEF s, u, prio
<1>10. ReadyLists(s, rq, u)
  BY <1>1, <1>5, <1>6, <1>7, <1>8 DEF ReadyLists
<1>11. ASSUME NEW v \in Task
       PROVE  ReadyPlaced(v, s, rq, u, Preempted, pc, wait_mask', own_sn')
  BY <1>2, <1>5, <1>6, <1>8, PreemptedStatus DEF Placed, ReadyPlaced
<1>12. \A v \in Task : v # t => current_prio[v] # MAX_TASK_PRIORITY
  BY <1>2, <1>5 DEF Phase
<1>13. pc[t] \in {"requesting", "mem"}
  BY <1>2, <1>5 DEF Placed
<1>14. ASSUME NEW v \in Task
       PROVE  ReadyPhase(v, s, u, prio, pc, "ACQUIRED")
  <2>1. CASE v = t
    BY <2>1, <1>8, <1>9, <1>13 DEF ReadyPhase
  <2>2. CASE v # t
    BY <2>2, <1>2, <1>9, <1>12 DEF ReadyPhase, Phase
  <2> QED
    BY <2>1, <2>2
<1>15. ReadyToken(s, u, prio, pc, "ACQUIRED")
  BY <1>5, <1>8, <1>9, <1>12 DEF ReadyToken
<1>16. Ready(s, rq, suspended', prio, Preempted, pc, wait_mask', own_sn',
             mem_arbit_status')
  BY <1>4, <1>10, <1>11, <1>14, <1>15 DEF Ready
<1>17. Preempted \in [Task -> Status] /\ pc \in [Task -> Pc]
  BY <1>1, PreemptedStatus DEF KernelTypes
<1> QED
  BY <1>4, <1>9, <1>16, <1>17, Rescheduled

(***************************************************************************)
(* memory_phase_ended_ISR while the guest has the token: the task that is  *)
(* taken off the stack is the interrupted one, in its memory phase.        *)
(***************************************************************************)
LEMMA EndedKeeps ==
  ASSUME TypeOK, Kernel, Sides, active = "ENDED",
         mem_arbit_status = "ACQUIRED", mem_arbit_status' = "REQUESTED",
         UNCHANGED <<wait_mask, own_sn, activations>>,
         suspend_highest_priority_active_task_from_ISR
  PROVE  Kernel' /\ KernelTypes' /\ pc' = pc
<1> DEFINE t == Highest(stk)
           s == list_remove(stk, t)
           u == <<t>> \o suspended
<1>1. /\ ReadyLists(stk, rq, suspended) /\ KernelTypes
      /\ Range(stk) \subseteq Task
      /\ \A v : Running(v) => v \in Range(stk)
      /\ \A v, w : Running(v) /\ Running(w) => v = w
  BY KernelFacts
<1>2. /\ \A v \in Task : Placed(v)
      /\ \A v \in Task : Phase(v)
      /\ OneCeiling /\ TokenFor
  BY DEF Kernel
<1>3. PICK r \in Task : Running(r) /\ current_prio[r] = MAX_TASK_PRIORITY
  BY <1>2 DEF TokenFor
<1>4. stk # <<>> /\ r \in Range(stk)
  BY <1>1, <1>3 DEF Running
<1>5. t = r
  BY <1>1, <1>2, <1>3, <1>4, HighestFound DEF ReadyLists
<1>6. /\ suspended' = u
      /\ SwitchTo(s, rq, current_prio, Preempted, pc)
  BY <1>4 DEF suspend_highest_priority_active_task_from_ISR, IsrEnds,
              list_push_to_head
<1> HIDE DEF t
<1>7. t \in Task /\ Running(t) /\ t \in Range(stk)
      /\ current_prio[t] = MAX_TASK_PRIORITY
  BY <1>3, <1>4, <1>5
<1>8. pc[t] = "mem"
  BY <1>2, <1>7 DEF Phase, Sides, MaskedPcs
<1>9. s \in Seq(Task) /\ IsInjective(s) /\ Range(s) = Range(stk) \ {t}
  BY <1>1, <1>7, TakenOut DEF ReadyLists
<1>10. t \notin Range(suspended) /\ t \notin Range(rq)
  BY <1>1, <1>7 DEF ReadyLists
<1>11. u \in Seq(Task) /\ IsInjective(u) /\ Range(u) = {t} \cup Range(suspended)
  BY <1>1, <1>7, <1>10, Pushed DEF ReadyLists
<1> HIDE DEF s, u
<1>12. ReadyLists(s, rq, u)
  BY <1>1, <1>7, <1>9, <1>10, <1>11 DEF ReadyLists
<1>13. ASSUME NEW v \in Task
       PROVE  ReadyPlaced(v, s, rq, u, Preempted, pc, wait_mask', own_sn')
  BY <1>2, <1>7, <1>8, <1>9, <1>11, PreemptedStatus DEF Placed, ReadyPlaced
<1>14. \A v \in Task : v # t => current_prio[v] # MAX_TASK_PRIORITY
  BY <1>2, <1>7 DEF OneCeiling
<1>15. ASSUME NEW v \in Task
       PROVE  ReadyPhase(v, s, u, current_prio, pc, "REQUESTED")
  <2>1. CASE v = t
    BY <2>1, <1>7, <1>8, <1>11 DEF ReadyPhase
  <2>2. CASE v # t
    BY <2>2, <1>2, <1>14 DEF ReadyPhase, Phase
  <2> QED
    BY <2>1, <2>2
<1>16. ReadyToken(s, u, current_prio, pc, "REQUESTED")
  BY <1>2, <1>11 DEF ReadyToken, OneCeiling
<1>17. Ready(s, rq, suspended', current_prio, Preempted, pc, wait_mask', own_sn',
             mem_arbit_status')
  BY <1>6, <1>12, <1>13, <1>15, <1>16 DEF Ready
<1>18. /\ Preempted \in [Task -> Status] /\ pc \in [Task -> Pc]
       /\ PrioType(current_prio)
  BY <1>1, PreemptedStatus DEF KernelTypes
<1> QED
  BY <1>6, <1>17, <1>18, Rescheduled

(***************************************************************************)
(* SetEvent for the tasks in due: those that wait for the event go to the  *)
(* ready queue, and no task that is stacked or held back does.             *)
(***************************************************************************)
LEMMA SetEventKeeps ==
  ASSUME TypeOK, Kernel, NEW due \in SUBSET Task, SetEvent(due),
         UNCHANGED <<suspended, wait_mask, mem_arbit_status, activations>>
  PROVE  /\ Kernel' /\ KernelTypes' /\ pc' = pc
         /\ \A t \in Task : Running(t)' => Running(t) \/ pc[t] = "waiting"
<1> DEFINE woken == {t \in due : Wakes(t)}
           q == unblocked_rq(woken)
           prio == unblocked_prio(woken)
           st == unblocked_status(woken)
<1>1. /\ own_sn' = [t \in Task |-> own_sn[t] /\ t \notin woken]
      /\ SwitchTo(stk, q, prio, st, pc)
  BY DEF SetEvent
<1>2. /\ ReadyLists(stk, rq, suspended) /\ KernelTypes
      /\ Range(stk) \subseteq Task /\ Range(rq) \subseteq Task
      /\ Range(suspended) \subseteq Task
      /\ \A t : Running(t) <=> Top(stk, t)
      /\ \A t : Running(t) => t \in Range(stk)
  BY KernelFacts
<1>3. /\ \A t \in Task : Placed(t)
      /\ \A t \in Task : Phase(t)
      /\ OneCeiling /\ TokenFor
  BY DEF Kernel
<1>4. woken \subseteq Task /\ \A t \in woken : wait_mask[t] /\ own_sn[t]
  BY DEF Wakes
<1>5. \A t \in woken : /\ status[t] = "WAITING" /\ pc[t] = "waiting"
                       /\ t \in Range(Activations)
  BY <1>3, <1>4 DEF Placed
<1>6. \A t \in woken : t \notin Range(stk) \cup Range(rq) \cup Range(suspended)
  BY <1>3, <1>4, <1>5 DEF Placed
<1>7. q \in Seq(Task) /\ IsInjective(q) /\ Range(q) = Range(rq) \cup woken
  <2>1. /\ woken \in SUBSET Range(Activations) /\ woken \cap Range(rq) = {}
        /\ rq \in Seq(Task) /\ IsInjective(rq)
    BY <1>2, <1>5, <1>6 DEF ReadyLists
  <2> HIDE DEF woken
  <2> QED
    BY <2>1, Unblocked
<1> HIDE DEF woken
<1>8. /\ \A t \in Task : prio[t] = IF t \in woken THEN ready_prio[t]
                                   ELSE current_prio[t]
      /\ PrioType(prio)
  BY <1>2, PrioAssumption DEF unblocked_prio, KernelTypes, PrioType
<1>9. /\ \A t \in Task : st[t] = IF t \in woken THEN "READY_STACKED"
                                 ELSE Preempted[t]
      /\ st \in [Task -> Status]
  BY PreemptedStatus DEF unblocked_status, Status
<1> HIDE DEF q, prio, st
<1>10. ReadyLists(stk, q, suspended)
  BY <1>2, <1>6, <1>7 DEF ReadyLists
<1>11. ASSUME NEW t \in Task
       PROVE  ReadyPlaced(t, stk, q, suspended, st, pc, wait_mask', own_sn')
  <2>1. CASE t \in woken
    <3>1. ~own_sn'[t]
      BY <2>1, <1>1, Zenon
    <3> QED
      BY <3>1, <2>1, <1>3, <1>5, <1>6, <1>7, <1>9, Zenon DEF Placed, ReadyPlaced
  <2>2. CASE t \notin woken
    <3>1. own_sn'[t] <=> own_sn[t]
      BY <2>2, <1>1, Zenon
    <3> QED
      BY <3>1, <2>2, <1>3, <1>7, <1>9, PreemptedStatus, Zenon DEF Placed, ReadyPlaced
  <2> QED
    BY <2>1, <2>2
<1>12. \A t \in Task : ready_prio[t] # MAX_TASK_PRIORITY
  BY PrioAssumption
<1>13. ASSUME NEW t \in Task
       PROVE  ReadyPhase(t, stk, suspended, prio, pc, mem_arbit_status)
  <2>1. CASE t \in woken
    BY <2>1, <1>5, <1>8, <1>12 DEF ReadyPhase
  <2>2. CASE t \notin woken
    <3>1. prio[t] = current_prio[t]
      BY <2>2, <1>8
    <3>2. Phase(t) /\ (Running(t) <=> Top(stk, t))
      BY <1>2, <1>3, Zenon
    <3> QED
      BY <3>1, <3>2, Zenon DEF ReadyPhase, Phase
  <2> QED
    BY <2>1, <2>2
<1>14. ReadyToken(stk, suspended, prio, pc, mem_arbit_status)
  <2>1. \A t \in Task : Running(t) => t \notin woken
    BY <1>2, <1>6
  <2> QED
    BY <2>1, <1>2, <1>3, <1>8, <1>12 DEF ReadyToken, OneCeiling, TokenFor
<1>15. Ready(stk, q, suspended', prio, st, pc, wait_mask', own_sn',
             mem_arbit_status')
  BY <1>10, <1>11, <1>13, <1>14 DEF Ready
<1>16. pc \in [Task -> Pc]
  BY <1>2 DEF KernelTypes
<1> QED
  BY <1>1, <1>2, <1>8, <1>9, <1>15, <1>16, Rescheduled, Zenon

-----------------------------------------------------------------------------
(* The steps that do not switch. *)

\* The running task t goes on to place x, and the lists stay as they are.
InPlace(t, x) ==
  /\ pc' = [pc EXCEPT ![t] = x]
  /\ ~wait_mask'[t] /\ \A v \in Task : v # t => wait_mask'[v] = wait_mask[v]
  /\ UNCHANGED <<stk, rq, suspended, status, own_sn, activations>>

LEMMA InPlaceKeeps ==
  ASSUME TypeOK, Kernel, NEW t \in Task, Running(t), NEW x \in Pc \ {"new"},
         InPlace(t, x)
  PROVE  /\ Lists' /\ \A v \in Task : Placed(v)'
         /\ \A v : Running(v)' <=> v = t
         /\ \A v : Running(v) <=> v = t
         /\ \A v \in Task : pc'[v] = IF v = t THEN x ELSE pc[v]
         /\ pc' \in [Task -> Pc]
<1>1. /\ ReadyLists(stk, rq, suspended) /\ KernelTypes
      /\ \A v : Running(v) => v \in Range(stk)
      /\ \A v, w : Running(v) /\ Running(w) => v = w
  BY KernelFacts
<1>2. Lists /\ \A v \in Task : Placed(v)
  BY DEF Kernel
<1>3. Lists'
  BY <1>2 DEF Lists, InPlace
<1>4. \A v : Running(v)' <=> v = t
  BY DEF Running, InPlace
<1>5. \A v : Running(v) <=> v = t
  BY <1>1
<1>6. /\ pc' \in [Task -> Pc]
      /\ \A v \in Task : pc'[v] = IF v = t THEN x ELSE pc[v]
  BY <1>1, Zenon DEF KernelTypes, InPlace
<1>7. ASSUME NEW v \in Task
      PROVE  Placed(v)'
  <2>1. CASE v = t
    <3>1. t \notin Range(rq) /\ t \notin Range(suspended)
      BY <1>1 DEF ReadyLists
    <3>2. /\ status[t] = "RUNNING" /\ pc[t] # "new"
          /\ t \notin Range(activations) /\ t \in Range(Activations)
      BY <1>2 DEF Placed
    <3> QED
      BY <2>1, <3>1, <3>2, <1>4, <1>6 DEF Placed, InPlace
  <2>2. CASE v # t
    BY <2>2, <1>2, <1>4, <1>5, <1>6 DEF Placed, InPlace
  <2> QED
    BY <2>1, <2>2
<1> QED
  BY <1>3, <1>4, <1>5, <1>6, <1>7

\* A step of the running task outside of its phases.
LEMMA EventStepKeeps ==
  ASSUME TypeOK, Kernel, NEW t \in Task, Running(t),
         pc[t] \in {"wait", "waiting", "clear"}, NEW x \in {"clear", "begin"},
         InPlace(t, x), UNCHANGED <<current_prio, mem_arbit_status>>
  PROVE  Kernel' /\ KernelTypes'
<1>1. /\ Lists' /\ \A v \in Task : Placed(v)'
      /\ \A v : Running(v)' <=> v = t
      /\ \A v : Running(v) <=> v = t
      /\ \A v \in Task : pc'[v] = IF v = t THEN x ELSE pc[v]
      /\ pc' \in [Task -> Pc]
  BY InPlaceKeeps DEF Pc
<1>2. KernelTypes'
  BY <1>1, KernelFacts DEF KernelTypes, InPlace, PrioType
<1>3. (\A v \in Task : Phase(v)) /\ OneCeiling /\ TokenFor
  BY DEF Kernel
<1>4. ASSUME NEW v \in Task
      PROVE  Phase(v)'
  BY <1>1, <1>3, Zenon DEF Phase, InPlace
<1>5. OneCeiling' /\ TokenFor'
  <2>1. OneCeiling'
    BY <1>3 DEF OneCeiling
  <2>2. Range(stk) \subseteq Task
    BY KernelFacts
  <2>3. TokenFor'
    BY <1>1, <1>3, <2>2, Zenon DEF TokenFor, InPlace
  <2> QED
    BY <2>1, <2>3
<1> QED
  BY <1>1, <1>2, <1>4, <1>5 DEF Kernel

(***************************************************************************)
(* The memory phase begins: with the token at hand, the running task is    *)
(* the one with the ceiling priority, if there is one.                     *)
(***************************************************************************)
LEMMA EnterKeeps ==
  ASSUME TypeOK, Kernel, NEW t \in Task, Running(t),
         pc[t] \in {"begin", "requesting"}, mem_arbit_status # "REQUESTED",
         mem_arbit_status' = "ACQUIRED", activations' = activations,
         enter_memory_phase(t)
  PROVE  Kernel' /\ KernelTypes' /\ pc' = [pc EXCEPT ![t] = "mem"]
<1>1. /\ pc' = [pc EXCEPT ![t] = "mem"]
      /\ current_prio' = [current_prio EXCEPT ![t] = MAX_TASK_PRIORITY]
      /\ UNCHANGED <<stk, rq, suspended, status, wait_mask, own_sn>>
  BY DEF enter_memory_phase, queues
<1>2. InPlace(t, "mem")
  BY <1>1 DEF InPlace, Kernel, Placed
<1>3. /\ Lists' /\ \A v \in Task : Placed(v)'
      /\ \A v : Running(v)' <=> v = t
      /\ \A v : Running(v) <=> v = t
      /\ \A v \in Task : pc'[v] = IF v = t THEN "mem" ELSE pc[v]
      /\ pc' \in [Task -> Pc]
  BY <1>2, InPlaceKeeps DEF Pc
<1>4. KernelTypes
  BY KernelFacts
<1>5. \A v \in Task : current_prio'[v] = IF v = t THEN MAX_TASK_PRIORITY
                                         ELSE current_prio[v]
  BY <1>1, <1>4 DEF KernelTypes, PrioType
<1>6. PrioType(current_prio')
  BY <1>1, <1>4, PrioAssumption DEF KernelTypes, PrioType
<1>7. KernelTypes'
  BY <1>1, <1>3, <1>4, <1>6 DEF KernelTypes
<1>8. (\A v \in Task : Phase(v)) /\ OneCeiling /\ TokenFor
  BY DEF Kernel
<1>9. \A v \in Task : v # t => current_prio[v] # MAX_TASK_PRIORITY
  BY <1>3, <1>8, Zenon DEF Phase, TokenFor, OneCeiling, TypeOK
<1>10. ASSUME NEW v \in Task
       PROVE  Phase(v)'
  <2>1. CASE v = t
    BY <2>1, <1>3, <1>5 DEF Phase
  <2>2. CASE v # t
    BY <2>2, <1>3, <1>5, <1>8, <1>9, Zenon DEF Phase
  <2> QED
    BY <2>1, <2>2
<1>11. OneCeiling' /\ TokenFor'
  BY <1>3, <1>5, <1>9 DEF OneCeiling, TokenFor
<1> QED
  BY <1>1, <1>3, <1>7, <1>10, <1>11 DEF Kernel

\* Interrupts are masked for the end of the memory phase.
LEMMA MaskKeeps ==
  ASSUME TypeOK, Kernel, NEW t \in Task, end_memory_phase_masks(t)
  PROVE  Kernel' /\ KernelTypes'
<1>1. /\ Running(t) /\ pc[t] = "mem" /\ pc' = [pc EXCEPT ![t] = "ending"]
      /\ UNCHANGED <<stk, rq, suspended, status, current_prio, wait_mask, own_sn,
                     mem_arbit_status, activations>>
  BY DEF end_memory_phase_masks, Executes, queues, tcbs, boot
<1>2. InPlace(t, "ending")
  BY <1>1 DEF InPlace, Kernel, Placed
<1>3. /\ Lists' /\ \A v \in Task : Placed(v)'
      /\ \A v : Running(v)' <=> v = t
      /\ \A v : Running(v) <=> v = t
      /\ \A v \in Task : pc'[v] = IF v = t THEN "ending" ELSE pc[v]
      /\ pc' \in [Task -> Pc]
  BY <1>1, <1>2, InPlaceKeeps DEF Pc
<1>4. /\ KernelTypes /\ ReadyLists(stk, rq, suspended)
      /\ \A v : Running(v) => v \in Range(stk)
  BY KernelFacts
<1>5. KernelTypes'
  BY <1>1, <1>3, <1>4 DEF KernelTypes, PrioType
<1>6. (\A v \in Task : Phase(v)) /\ OneCeiling /\ TokenFor
  BY DEF Kernel
<1>7. mem_arbit_status = "ACQUIRED" /\ current_prio[t] = MAX_TASK_PRIORITY
  BY <1>1, <1>4, <1>6 DEF Phase, ReadyLists
<1>8. ASSUME NEW v \in Task
      PROVE  Phase(v)'
  BY <1>1, <1>3, <1>6, <1>7 DEF Phase
<1>9. OneCeiling' /\ TokenFor'
  BY <1>1, <1>3, <1>6, <1>7 DEF OneCeiling, TokenFor
<1> QED
  BY <1>3, <1>5, <1>8, <1>9 DEF Kernel

\* The end of the memory phase.
LEMMA EndMemoryKeeps ==
  ASSUME TypeOK, Kernel, NEW t \in Task, end_memory_phase(t)
  PROVE  Kernel' /\ KernelTypes'
<1>1. /\ Running(t) /\ pc[t] = "ending" /\ pc' = [pc EXCEPT ![t] = "exec"]
      /\ mem_arbit_status' = "NONE"
      /\ UNCHANGED <<stk, rq, suspended, status, current_prio, wait_mask, own_sn,
                     activations>>
  BY DEF end_memory_phase, Executes, queues, tcbs, boot
<1>2. InPlace(t, "exec")
  BY <1>1 DEF InPlace, Kernel, Placed
<1>3. /\ Lists' /\ \A v \in Task : Placed(v)'
      /\ \A v : Running(v)' <=> v = t
      /\ \A v : Running(v) <=> v = t
      /\ \A v \in Task : pc'[v] = IF v = t THEN "exec" ELSE pc[v]
      /\ pc' \in [Task -> Pc]
  BY <1>1, <1>2, InPlaceKeeps DEF Pc
<1>4. KernelTypes /\ t \in Range(stk)
  BY <1>1, KernelFacts
<1>5. KernelTypes'
  BY <1>1, <1>3, <1>4 DEF KernelTypes, PrioType
<1>6. (\A v \in Task : Phase(v)) /\ OneCeiling /\ TokenFor
  BY DEF Kernel
<1>7. current_prio[t] = MAX_TASK_PRIORITY
  BY <1>1, <1>6 DEF Phase
<1>8. \A v \in Task : v # t => current_prio[v] # MAX_TASK_PRIORITY
  BY <1>6, <1>7 DEF OneCeiling
<1>9. ASSUME NEW v \in Task
      PROVE  Phase(v)'
  <2>1. CASE v = t
    BY <2>1, <1>1, <1>3, <1>7 DEF Phase
  <2>2. CASE v # t
    BY <2>2, <1>1, <1>3, <1>6, <1>8 DEF Phase
  <2> QED
    BY <2>1, <2>2
<1>10. OneCeiling' /\ TokenFor'
  BY <1>1, <1>3, <1>4, <1>6 DEF OneCeiling, TokenFor
<1> QED
  BY <1>3, <1>5, <1>9, <1>10 DEF Kernel

(***************************************************************************)
(* The end of the execution phase: the highest of the held back tasks goes *)
(* below the running one.  It is about to ask for the token again, because *)
(* no memory phase is held back without a request on record.               *)
(***************************************************************************)
LEMMA EndExecutionKeeps ==
  ASSUME TypeOK, Kernel, NEW t \in Task, end_execution_phase(t)
  PROVE  Kernel' /\ KernelTypes' /\ \A v : Running(v)' => v = t
<1> DEFINE h == Highest(suspended)
<1>1. /\ Running(t) /\ pc[t] = "exec" /\ pc' = [pc EXCEPT ![t] = "wait"]
      /\ current_prio' = [current_prio EXCEPT ![t] = dispatch_prio[t]]
      /\ resume_highest_priority_task
      /\ UNCHANGED <<rq, status, wait_mask, own_sn, mem_arbit_status, activations>>
  BY DEF end_execution_phase, Executes, boot, Entry
<1>2. /\ ReadyLists(stk, rq, suspended) /\ KernelTypes
      /\ Range(stk) \subseteq Task /\ Range(suspended) \subseteq Task
      /\ t \in Range(stk) /\ \A v : Running(v) <=> v = t
  BY <1>1, KernelFacts
<1>3. /\ \A v \in Task : Placed(v)
      /\ \A v \in Task : Phase(v)
      /\ OneCeiling /\ TokenFor
  BY DEF Kernel
<1>4. mem_arbit_status = "NONE" /\ current_prio[t] = MAX_TASK_PRIORITY
  BY <1>1, <1>3 DEF Phase
<1>5. \A v \in Task : v # t => current_prio[v] # MAX_TASK_PRIORITY
  BY <1>3, <1>4 DEF OneCeiling
<1>6. /\ \A v \in Task : pc'[v] = IF v = t THEN "wait" ELSE pc[v]
      /\ pc' \in [Task -> Pc]
  BY <1>1, <1>2 DEF KernelTypes, Pc
<1>7. /\ \A v \in Task : current_prio'[v] = IF v = t THEN dispatch_prio[v]
                                            ELSE current_prio[v]
      /\ PrioType(current_prio')
  BY <1>1, <1>2, PrioAssumption DEF KernelTypes, PrioType
<1>8. dispatch_prio[t] # MAX_TASK_PRIORITY
  BY PrioAssumption
<1>9. /\ ReadyLists(stk', rq, suspended')
      /\ \A v : Running(v)' <=> v = t
      /\ Range(stk') \cup Range(suspended') = Range(stk) \cup Range(suspended)
      /\ Range(suspended') \subseteq Range(suspended)
      /\ suspended' # suspended => \E v \in Range(stk') :
                                     v \in Range(suspended)
  <2>1. CASE suspended = <<>>
    <3>1. stk' = stk /\ suspended' = suspended
      BY <2>1, <1>1 DEF resume_highest_priority_task
    <3> QED
      BY <3>1, <1>2 DEF Running
  <2>2. CASE suspended # <<>>
    <3>1. /\ stk' = list_insert_after_head(stk, h)
          /\ suspended' = list_remove(suspended, h)
      BY <2>2, <1>1 DEF resume_highest_priority_task
    <3>2. h \in Task /\ h \in Range(suspended)
      BY <2>2, <1>2, HighestFound DEF ReadyLists
    <3> HIDE DEF h
    <3>3. /\ suspended' \in Seq(Task) /\ IsInjective(suspended')
          /\ Range(suspended') = Range(suspended) \ {h}
      BY <3>1, <3>2, <1>2, TakenOut DEF ReadyLists
    <3>4. h \notin Range(stk) /\ h \notin Range(rq)
      BY <3>2, <1>2 DEF ReadyLists
    <3>5. stk # <<>> /\ Head(stk) = t
      BY <1>1 DEF Running
    <3>6. /\ stk' \in Seq(Task) /\ stk' # <<>> /\ Head(stk') = t
          /\ IsInjective(stk') /\ Range(stk') = {h} \cup Range(stk)
      BY <3>1, <3>2, <3>4, <3>5, <1>2, PutAfterHead, Zenon DEF ReadyLists
    <3>7. ReadyLists(stk', rq, suspended')
      BY <3>2, <3>3, <3>4, <3>6, <1>2 DEF ReadyLists
    <3>8. \A v : Running(v)' <=> v = t
      BY <3>6 DEF Running
    <3> QED
      BY <3>2, <3>3, <3>6, <3>7, <3>8
  <2> QED
    BY <2>1, <2>2
<1>10. KernelTypes'
  BY <1>1, <1>2, <1>6, <1>7, <1>9, Zenon DEF KernelTypes, ReadyLists
<1>11. Lists'
  BY <1>1, <1>9 DEF Lists, ReadyLists
<1>12. ASSUME NEW v \in Task
       PROVE  Placed(v)'
  <2>1. CASE v = t
    <3>1. /\ t \notin Range(rq) /\ t \notin Range(suspended')
      BY <1>2, <1>9 DEF ReadyLists
    <3>2. Placed(t)
      BY <1>3
    <3> QED
      BY <2>1, <3>1, <3>2, <1>1, <1>6, <1>9, Zenon DEF Placed
  <2>2. CASE v # t
    BY <2>2, <1>1, <1>2, <1>3, <1>6, <1>9, Zenon DEF Placed
  <2> QED
    BY <2>1, <2>2
<1>13. ASSUME NEW v \in Task
       PROVE  Phase(v)'
  <2>1. CASE v = t
    BY <2>1, <1>6, <1>7, <1>8, Zenon DEF Phase
  <2>2. CASE v # t
    BY <2>2, <1>1, <1>2, <1>3, <1>4, <1>5, <1>6, <1>7, Zenon DEF Phase
  <2> QED
    BY <2>1, <2>2
<1>14. OneCeiling'
  BY <1>5, <1>7, <1>8 DEF OneCeiling
<1>15. TokenFor'
  <2>1. ASSUME Range(suspended') # {}
        PROVE  \E v \in Range(stk') : pc'[v] \in {"exec", "requesting"}
    <3>1. suspended # <<>>
      BY <2>1, <1>9, SMTT(30) DEF Range
    <3>2. h \in Range(suspended)
      BY <3>1, <1>2, HighestFound DEF ReadyLists
    <3>3. suspended' # suspended
      <4>1. suspended' = list_remove(suspended, h)
        BY <3>1, <1>1 DEF resume_highest_priority_task
      <4>2. Range(list_remove(suspended, h)) = Range(suspended) \ {h}
        BY <3>2, <1>2, TakenOut DEF ReadyLists
      <4> QED
        BY <4>1, <4>2, <3>2
    <3>4. PICK v \in Range(stk') : v \in Range(suspended)
      BY <3>3, <1>9
    <3>5. v \in Task /\ v # t
      BY <3>4, <1>2 DEF ReadyLists
    <3>6. pc[v] = "requesting"
      BY <3>4, <3>5, <1>3, <1>4 DEF Placed, Phase
    <3> QED
      BY <3>4, <3>5, <3>6, <1>6
  <2> QED
    BY <2>1, <1>1, <1>4 DEF TokenFor
<1> QED
  BY <1>9, <1>10, <1>11, <1>12, <1>13, <1>14, <1>15 DEF Kernel

(***************************************************************************)
(* ActivateTask from main().  The core is idle, so nothing is held back    *)
(* either.                                                                 *)
(***************************************************************************)
LEMMA ActivateKeeps ==
  ASSUME TypeOK, Kernel, IsInjective(activations), ActivateTask
  PROVE  /\ Kernel' /\ KernelTypes'
         /\ activations' \in Seq(Task) /\ IsInjective(activations')
         /\ \A v : Running(v)' => pc'[v] = "wait"
<1> DEFINE t == Head(activations)
<1>1. /\ stk = <<>> /\ activations # <<>> /\ activations' = Tail(activations)
      /\ stk' = <<t>> \o stk /\ status' = [status EXCEPT ![t] = "RUNNING"]
      /\ pc' = [pc EXCEPT ![t] = "wait"]
      /\ UNCHANGED <<rq, suspended, current_prio, wait_mask, own_sn,
                     mem_arbit_status>>
  BY DEF ActivateTask, Idle, list_push_to_head, Entry
<1>2. activations \in Seq(Task)
  BY DEF TypeOK
<1>3. /\ t \in Task /\ t \in Range(activations) /\ activations' \in Seq(Task)
      /\ IsInjective(activations')
      /\ Range(activations') = Range(activations) \ {t}
  BY <1>1, <1>2, Popped
<1> HIDE DEF t
<1>4. /\ ReadyLists(stk, rq, suspended) /\ KernelTypes
      /\ Range(stk) = {}
  BY <1>1, KernelFacts DEF Range
<1>5. /\ \A v \in Task : Placed(v)
      /\ \A v \in Task : Phase(v)
      /\ OneCeiling /\ TokenFor
  BY DEF Kernel
<1>6. /\ pc[t] = "new" /\ status[t] = "SUSPENDED" /\ t \in Range(Activations)
      /\ ~wait_mask[t]
  BY <1>3, <1>5 DEF Placed
<1>7. t \notin Range(stk) \cup Range(rq) \cup Range(suspended)
  BY <1>3, <1>4, <1>5, <1>6 DEF Placed
<1>8. /\ stk' \in Seq(Task) /\ IsInjective(stk') /\ Range(stk') = {t}
      /\ \A v : Running(v)' <=> v = t
  <2>1. stk' = <<t>> \o stk
    BY <1>1
  <2>2. /\ stk' \in Seq(Task) /\ stk' # <<>> /\ Head(stk') = t
        /\ IsInjective(stk') /\ Range(stk') = {t}
    BY <2>1, <1>3, <1>4, <1>7, Pushed, SMTT(30) DEF ReadyLists
  <2> QED
    BY <2>2 DEF Running
<1>9. \A v : ~Running(v)
  BY <1>1 DEF Running
<1>10. /\ \A v \in Task : /\ pc'[v] = IF v = t THEN "wait" ELSE pc[v]
                          /\ status'[v] = IF v = t THEN "RUNNING" ELSE status[v]
       /\ pc' \in [Task -> Pc] /\ status' \in [Task -> Status]
  BY <1>1, <1>4, Zenon DEF KernelTypes, Pc, Status
<1>11. KernelTypes'
  BY <1>1, <1>4, <1>8, <1>10 DEF KernelTypes, PrioType
<1>12. Lists'
  BY <1>1, <1>4, <1>7, <1>8 DEF Lists, ReadyLists
<1>13. ASSUME NEW v \in Task
       PROVE  Placed(v)'
  <2>1. CASE v = t
    BY <2>1, <1>1, <1>3, <1>6, <1>7, <1>8, <1>10, Zenon DEF Placed
  <2>2. CASE v # t
    BY <2>2, <1>1, <1>3, <1>4, <1>5, <1>8, <1>9, <1>10, Zenon DEF Placed
  <2> QED
    BY <2>1, <2>2
<1>14. mem_arbit_status # "ACQUIRED"
  BY <1>5, <1>9 DEF TokenFor
<1>15. ASSUME NEW v \in Task
       PROVE  Phase(v)'
  <2>1. CASE v = t
    <3>1. current_prio[t] # MAX_TASK_PRIORITY
      BY <1>3, <1>5, <1>6, <1>9 DEF Phase
    <3> QED
      BY <2>1, <3>1, <1>1, <1>10 DEF Phase
  <2>2. CASE v # t
    BY <2>2, <1>1, <1>5, <1>9, <1>10 DEF Phase
  <2> QED
    BY <2>1, <2>2
<1>16. OneCeiling' /\ TokenFor'
  BY <1>1, <1>4, <1>5, <1>14 DEF OneCeiling, TokenFor
<1> QED
  BY <1>3, <1>8, <1>10, <1>11, <1>12, <1>13, <1>15, <1>16, Zenon DEF Kernel

\* A step of the interrupt controller or of the hypervisor.
LEMMA KernelFrame ==
  ASSUME TypeOK, Kernel,
         UNCHANGED <<queues, tcbs, mem_arbit_status, pc, activations>>
  PROVE  Kernel' /\ KernelTypes' /\ \A t : Running(t)' <=> Running(t)
<1>1. KernelTypes
  BY KernelFacts
<1>2. KernelTypes'
  BY <1>1 DEF KernelTypes, PrioType, queues, tcbs
<1>3. \A t : Running(t)' <=> Running(t)
  BY DEF Running, queues
<1>4. Lists'
  BY DEF Kernel, Lists, queues
<1>5. \A t \in Task : Placed(t)'
  BY <1>3, Zenon DEF Kernel, Placed, queues, tcbs
<1>6. \A t \in Task : Phase(t)'
  BY <1>3, Zenon DEF Kernel, Phase, queues, tcbs
<1>7. OneCeiling' /\ TokenFor'
  BY <1>3 DEF Kernel, OneCeiling, TokenFor, queues, tcbs
<1> QED
  BY <1>2, <1>3, <1>4, <1>5, <1>6, <1>7 DEF Kernel

-----------------------------------------------------------------------------
(* The inductive invariant. *)

LEMMA InitInv == Init => IInv
<1> SUFFICES ASSUME Init
             PROVE  IInv
  OBVIOUS
<1>1. /\ ready_prio \in [Task -> Nat] /\ Activations \in Seq(Task)
      /\ IsInjective(Activations)
      /\ \A t \in Task : ready_prio[t] # MAX_TASK_PRIORITY
  BY PrioAssumption
<1>2. Range(<<>>) = {} /\ IsInjective(<<>>)
  BY DEF Range, IsInjective
<1>3. \A t : ~Running(t)
  BY DEF Init, Running
<1>4. TypeOK
  <2>1. armed \in BOOLEAN /\ overtaken \in BOOLEAN
    BY Zenon DEF Init
  <2> QED
    BY <2>1, <1>1 DEF Init, TypeOK
<1>5. Kernel
  <2>1. Lists
    BY <1>2 DEF Init, Lists
  <2>2. \A t \in Task : Placed(t)
    BY <1>2, <1>3 DEF Init, Placed
  <2>3. \A t \in Task : Phase(t)
    BY <1>1 DEF Init, Phase
  <2>4. OneCeiling /\ TokenFor
    BY <1>1, <1>2 DEF Init, OneCeiling, TokenFor
  <2> QED
    BY <2>1, <2>2, <2>3, <2>4 DEF Kernel
<1>6. Sides
  BY DEF Init, Sides, SgisDone, TokenIrq
<1> QED
  BY <1>1, <1>4, <1>5, <1>6 DEF IInv, Init

\* A task that runs with interrupts enabled has none pending.
LEMMA NothingPending ==
  ASSUME NEW t, Executes(t)
  PROVE  /\ active = "none"
         /\ pc[t] \notin MaskedPcs => irq = {}
  BY DEF Executes, Running, Uninterrupted, Masked, MaskedPcs

\* The steps that change nothing of the interrupts and of the token.
LEMMA SidesFrame ==
  ASSUME Sides, active = "none", UNCHANGED <<mem_arbit_status, hv, irq, overtaken>>,
         active' = "none",
         \A t \in Task : Running(t)' /\ pc'[t] = "requesting"
           => irq \cap TokenIrq = {} \/ (Running(t) /\ pc[t] = "requesting")
  PROVE  Sides'
  BY DEF Sides, SgisDone

\* What is left of TypeOK after KernelTypes.
LEMMA TypesTogether ==
  ASSUME KernelTypes',
         event_mask' \in [Task -> BOOLEAN], wait_mask' \in [Task -> BOOLEAN],
         own_sn' \in [Task -> BOOLEAN],
         mem_arbit_status' \in {"NONE", "REQUESTED", "ACQUIRED"},
         activations' \in Seq(Task), armed' \in BOOLEAN,
         hv' \in {"none", "waiting", "owner"},
         irq' \subseteq Irq, active' \in {"none"} \cup Irq, overtaken' \in BOOLEAN
  PROVE  TypeOK'
  BY DEF TypeOK, KernelTypes, PrioType, Status, Pc

LEMMA WaitEventInv ==
  ASSUME IInv, NEW t \in Task, WaitEvent(t)
  PROVE  IInv'
<1>1. TypeOK /\ Kernel /\ Sides /\ IsInjective(activations)
  BY DEF IInv
<1>2. /\ Running(t) /\ pc[t] = "wait" /\ active = "none" /\ irq = {}
      /\ UNCHANGED <<mem_arbit_status, activations, armed, hv, irq, active, overtaken>>
  BY NothingPending DEF WaitEvent, Executes, MaskedPcs, boot, env
<1>3. CASE event_mask[t]
  <2>1. /\ pc' = [pc EXCEPT ![t] = "clear"]
        /\ UNCHANGED <<queues, tcbs>>
    BY <1>3 DEF WaitEvent
  <2>2. InPlace(t, "clear")
    BY <2>1, <1>1, <1>2, Zenon DEF InPlace, Kernel, Placed, queues, tcbs
  <2>3. Kernel' /\ KernelTypes'
    BY <2>1, <2>2, <1>1, <1>2, EventStepKeeps DEF tcbs
  <2> QED
    BY <2>1, <2>3, <1>1, <1>2, TypesTogether, SidesFrame, Zenon DEF IInv, TypeOK, tcbs
<1>4. CASE ~event_mask[t]
  <2>1. /\ wait_mask' = [wait_mask EXCEPT ![t] = TRUE]
        /\ own_sn' = [own_sn EXCEPT ![t] = TRUE] /\ event_mask' = event_mask
    BY <1>4 DEF WaitEvent
  <2>2. Kernel' /\ KernelTypes'
    BY <1>1, <1>4, WaitKeeps
  <2>3. wait_mask' \in [Task -> BOOLEAN] /\ own_sn' \in [Task -> BOOLEAN]
    BY <2>1, <1>1 DEF TypeOK
  <2> QED
    BY <2>1, <2>2, <2>3, <1>1, <1>2, TypesTogether, SidesFrame, Zenon DEF IInv, TypeOK
<1> QED
  BY <1>3, <1>4

LEMMA EventStepInv ==
  ASSUME IInv, NEW t \in Task, WaitEventReturns(t) \/ ClearEvent(t)
  PROVE  IInv'
<1>1. TypeOK /\ Kernel /\ Sides /\ IsInjective(activations)
  BY DEF IInv
<1>2. /\ Running(t) /\ active = "none"
      /\ UNCHANGED <<stk, rq, suspended, status, current_prio, own_sn,
                     mem_arbit_status, activations, armed, hv, irq, active,
                     overtaken>>
  BY NothingPending DEF WaitEventReturns, ClearEvent, Executes, queues, boot, env
<1>3. PICK x \in {"clear", "begin"} :
        /\ pc[t] \in {"waiting", "clear"} /\ pc' = [pc EXCEPT ![t] = x]
        /\ wait_mask' \in [Task -> BOOLEAN] /\ event_mask' \in [Task -> BOOLEAN]
        /\ ~wait_mask'[t] /\ \A v \in Task : v # t => wait_mask'[v] = wait_mask[v]
  <2>1. CASE WaitEventReturns(t)
    BY <2>1, <1>1, Zenon DEF WaitEventReturns, TypeOK
  <2>2. CASE ClearEvent(t)
    BY <2>2, <1>1, Zenon DEF ClearEvent, TypeOK, Kernel, Placed
  <2> QED
    BY <2>1, <2>2
<1>4. InPlace(t, x)
  BY <1>2, <1>3 DEF InPlace
<1>5. Kernel' /\ KernelTypes'
  BY <1>1, <1>2, <1>3, <1>4, EventStepKeeps
<1>6. \A v \in Task : Running(v)' /\ pc'[v] = "requesting" => FALSE
  BY <1>1, <1>2, <1>3, <1>4, InPlaceKeeps, SMTT(30) DEF Pc
<1> QED
  BY <1>1, <1>2, <1>3, <1>5, <1>6, TypesTogether, SidesFrame, Zenon DEF IInv, TypeOK

(***************************************************************************)
(* DPREM_begin_memory_phase: when the guest asks for the token, nothing of *)
(* an earlier use of it is pending.                                        *)
(***************************************************************************)
LEMMA AsksWithNothingPending ==
  ASSUME IInv, NEW t \in Task, AtLoop(t), mem_arbit_status = "NONE"
  PROVE  active = "none" /\ irq \cap TokenIrq = {} /\ hv = "none"
  BY NothingPending DEF IInv, Sides, AtLoop, Executes, MaskedPcs

LEMMA BeginInv ==
  ASSUME IInv, NEW t \in Task, begin_memory_phase(t)
  PROVE  IInv'
<1>1. TypeOK /\ Kernel /\ Sides /\ IsInjective(activations)
  BY DEF IInv
<1>2. /\ AtLoop(t) /\ Running(t) /\ pc[t] \in {"begin", "requesting"}
      /\ active = "none"
      /\ UNCHANGED <<activations, armed, irq, active, overtaken>>
  BY NothingPending DEF begin_memory_phase, begin_has_token, begin_hvc_ACK,
     begin_hvc_NACK, begin_suspend, AtLoop, Executes, boot, env
<1>3. ASSUME enter_memory_phase(t), mem_arbit_status # "REQUESTED",
             mem_arbit_status' = "ACQUIRED"
      PROVE  /\ Kernel' /\ KernelTypes'
             /\ UNCHANGED <<event_mask, wait_mask, own_sn>>
             /\ \A v \in Task : ~(Running(v)' /\ pc'[v] = "requesting")
  <2>1. /\ UNCHANGED <<event_mask, wait_mask, own_sn, stk>>
    BY <1>3 DEF enter_memory_phase, queues
  <2>2. Kernel' /\ KernelTypes' /\ pc' = [pc EXCEPT ![t] = "mem"]
    BY <1>1, <1>2, <1>3, EnterKeeps
  <2>3. \A v \in Task : Running(v)' => v = t
    BY <2>1, <1>2 DEF Running
  <2> QED
    BY <2>1, <2>2, <2>3, <1>1 DEF TypeOK
<1>4. ASSUME suspend_running_task(t), mem_arbit_status # "ACQUIRED",
             mem_arbit_status' = "REQUESTED"
      PROVE  /\ Kernel' /\ KernelTypes' /\ own_sn' \in [Task -> BOOLEAN]
             /\ UNCHANGED <<event_mask, wait_mask>>
  <2>1. /\ own_sn' = [own_sn EXCEPT ![t] = TRUE]
        /\ UNCHANGED <<event_mask, wait_mask>>
    BY <1>4 DEF suspend_running_task
  <2>2. Kernel' /\ KernelTypes'
    BY <1>1, <1>2, <1>4, SuspendKeeps
  <2> QED
    BY <2>1, <2>2, <1>1 DEF TypeOK
<1>5. CASE begin_has_token(t)
  <2>1. /\ enter_memory_phase(t) /\ mem_arbit_status = "ACQUIRED"
        /\ UNCHANGED <<mem_arbit_status, hv>>
    BY <1>5 DEF begin_has_token, env
  <2>2. /\ Kernel' /\ KernelTypes' /\ UNCHANGED <<event_mask, wait_mask, own_sn>>
        /\ \A v \in Task : ~(Running(v)' /\ pc'[v] = "requesting")
    BY <2>1, <1>3
  <2> QED
    BY <2>1, <2>2, <1>1, <1>2, TypesTogether, SidesFrame, Zenon DEF IInv, TypeOK
<1>6. CASE begin_hvc_ACK(t)
  <2>1. /\ enter_memory_phase(t) /\ mem_arbit_status = "NONE"
        /\ mem_arbit_status' = "ACQUIRED" /\ hv' = "owner"
    BY <1>6 DEF begin_hvc_ACK
  <2>2. /\ Kernel' /\ KernelTypes' /\ UNCHANGED <<event_mask, wait_mask, own_sn>>
    BY <2>1, <1>3
  <2>3. irq \cap TokenIrq = {}
    BY <2>1, <1>2, AsksWithNothingPending
  <2>4. Sides'
    BY <2>1, <2>3, <1>1, <1>2 DEF Sides, SgisDone, TokenIrq
  <2> QED
    BY <2>1, <2>2, <2>4, <1>1, <1>2, TypesTogether, Zenon DEF IInv, TypeOK
<1>7. CASE begin_hvc_NACK(t)
  <2>1. /\ suspend_running_task(t) /\ mem_arbit_status = "NONE"
        /\ mem_arbit_status' = "REQUESTED" /\ hv' = "waiting"
    BY <1>7 DEF begin_hvc_NACK
  <2>2. /\ Kernel' /\ KernelTypes' /\ own_sn' \in [Task -> BOOLEAN]
        /\ UNCHANGED <<event_mask, wait_mask>>
    BY <2>1, <1>4
  <2>3. irq \cap TokenIrq = {}
    BY <2>1, <1>2, AsksWithNothingPending
  <2>4. Sides'
    BY <2>1, <2>3, <1>1, <1>2, Zenon DEF Sides, SgisDone, TokenIrq
  <2> QED
    BY <2>1, <2>2, <2>4, <1>1, <1>2, TypesTogether, Zenon DEF IInv, TypeOK
<1>8. CASE begin_suspend(t)
  <2>1. /\ suspend_running_task(t) /\ mem_arbit_status = "REQUESTED"
        /\ UNCHANGED <<mem_arbit_status, hv>>
    BY <1>8 DEF begin_suspend, env
  <2>2. /\ Kernel' /\ KernelTypes' /\ own_sn' \in [Task -> BOOLEAN]
        /\ UNCHANGED <<event_mask, wait_mask>>
    BY <2>1, <1>4
  <2>3. Sides'
    BY <2>1, <1>1, <1>2 DEF Sides, SgisDone
  <2> QED
    BY <2>1, <2>2, <2>3, <1>1, <1>2, TypesTogether, Zenon DEF IInv, TypeOK
<1> QED
  BY <1>5, <1>6, <1>7, <1>8 DEF begin_memory_phase

LEMMA EndInv ==
  ASSUME IInv, NEW t \in Task,
         end_memory_phase_masks(t) \/ end_memory_phase(t) \/ end_execution_phase(t)
  PROVE  IInv'
<1>1. TypeOK /\ Kernel /\ Sides /\ IsInjective(activations)
  BY DEF IInv
<1>2. /\ Running(t) /\ active = "none"
      /\ UNCHANGED <<event_mask, wait_mask, own_sn, activations, armed, irq,
                     active, overtaken>>
  BY NothingPending DEF end_memory_phase_masks, end_memory_phase,
     end_execution_phase, Executes, tcbs, boot, env
<1>3. \A v \in Task : Running(v) => v = t
  BY <1>1, <1>2, KernelFacts
<1>4. CASE end_memory_phase_masks(t)
  <2>1. /\ pc' = [pc EXCEPT ![t] = "ending"]
        /\ UNCHANGED <<stk, mem_arbit_status, hv>>
    BY <1>4 DEF end_memory_phase_masks, queues, env
  <2>2. Kernel' /\ KernelTypes'
    BY <1>1, <1>4, MaskKeeps
  <2>3. \A v \in Task : ~(Running(v)' /\ pc'[v] = "requesting")
    BY <2>1, <1>1, <1>2 DEF Running, TypeOK
  <2> QED
    BY <2>1, <2>2, <2>3, <1>1, <1>2, TypesTogether, SidesFrame, Zenon DEF IInv, TypeOK
<1>5. CASE end_memory_phase(t)
  <2>1. /\ pc[t] = "ending" /\ pc' = [pc EXCEPT ![t] = "exec"]
        /\ stk' = stk /\ mem_arbit_status' = "NONE" /\ hv' = "none"
    BY <1>5 DEF end_memory_phase, queues
  <2>2. Kernel' /\ KernelTypes'
    BY <1>1, <1>5, EndMemoryKeeps
  <2>3. \A v \in Task : ~(Running(v)' /\ pc'[v] = "requesting")
    BY <2>1, <1>1, <1>2 DEF Running, TypeOK
  <2>4. mem_arbit_status = "ACQUIRED"
    BY <2>1, <1>1 DEF Kernel, Phase
  <2>5. Sides'
    BY <2>1, <2>3, <2>4, <1>1, <1>2 DEF Sides, SgisDone
  <2> QED
    BY <2>1, <2>2, <2>5, <1>1, <1>2, TypesTogether, Zenon DEF IInv, TypeOK
<1>6. CASE end_execution_phase(t)
  <2>1. pc' = [pc EXCEPT ![t] = "wait"] /\ UNCHANGED <<mem_arbit_status, hv>>
    BY <1>6 DEF end_execution_phase, Entry, env
  <2>2. Kernel' /\ KernelTypes' /\ \A v : Running(v)' => v = t
    BY <1>1, <1>6, EndExecutionKeeps
  <2>3. \A v \in Task : ~(Running(v)' /\ pc'[v] = "requesting")
    BY <2>1, <2>2, <1>1 DEF TypeOK
  <2> QED
    BY <2>1, <2>2, <2>3, <1>1, <1>2, TypesTogether, SidesFrame, Zenon DEF IInv, TypeOK
<1> QED
  BY <1>4, <1>5, <1>6

LEMMA MainInv ==
  ASSUME IInv, ActivateTask \/ StartTimer
  PROVE  IInv'
<1>1. TypeOK /\ Kernel /\ Sides /\ IsInjective(activations)
  BY DEF IInv
<1>2. active = "none" /\ UNCHANGED <<wait_mask, own_sn, mem_arbit_status, hv, irq,
                                     active, overtaken>>
  BY DEF ActivateTask, StartTimer, Uninterrupted, tcbs, env
<1>3. CASE ActivateTask
  <2>1. /\ Kernel' /\ KernelTypes'
        /\ activations' \in Seq(Task) /\ IsInjective(activations')
        /\ \A v : Running(v)' => pc'[v] = "wait"
    BY <1>1, <1>3, ActivateKeeps
  <2>2. event_mask' \in [Task -> BOOLEAN] /\ armed' = armed
    BY <1>1, <1>3 DEF ActivateTask, TypeOK
  <2> QED
    BY <2>1, <2>2, <1>1, <1>2, TypesTogether, SidesFrame, Zenon DEF IInv, TypeOK
<1>4. CASE StartTimer
  <2>1. UNCHANGED <<queues, tcbs, mem_arbit_status, pc, activations>>
    BY <1>4 DEF StartTimer
  <2>2. Kernel' /\ KernelTypes' /\ \A v : Running(v)' <=> Running(v)
    BY <2>1, <1>1, KernelFrame
  <2>3. armed' \in BOOLEAN
    BY <1>4, Zenon DEF StartTimer
  <2> QED
    BY <2>1, <2>2, <2>3, <1>1, <1>2, TypesTogether, SidesFrame, Zenon
       DEF IInv, TypeOK, tcbs
<1> QED
  BY <1>3, <1>4

LEMMA AcknowledgeInv ==
  ASSUME IInv, Acknowledge
  PROVE  IInv'
<1>1. TypeOK /\ Kernel /\ Sides /\ IsInjective(activations)
  BY DEF IInv
<1>2. PICK i \in irq : active' = i /\ irq' = irq \ {i}
  BY DEF Acknowledge
<1>3. /\ active = "none" /\ ~Masked
      /\ UNCHANGED <<queues, tcbs, mem_arbit_status, pc, activations, armed,
                     overtaken, hv>>
  BY DEF Acknowledge, boot
<1>4. Kernel' /\ KernelTypes' /\ \A v : Running(v)' <=> Running(v)
  BY <1>1, <1>3, KernelFrame
<1>5. \A v \in Task : Running(v) => pc[v] \notin MaskedPcs
  BY <1>3 DEF Masked, Running, MaskedPcs
<1>6. (irq' \cup {active'}) \cap TokenIrq = (irq \cup {active}) \cap TokenIrq
  BY <1>2, <1>3 DEF TokenIrq
<1>7. Sides'
  BY <1>1, <1>2, <1>3, <1>4, <1>5, <1>6 DEF Sides, SgisDone
<1>8. irq' \subseteq Irq /\ active' \in Irq
  BY <1>1, <1>2 DEF TypeOK
<1> QED
  BY <1>1, <1>3, <1>4, <1>7, <1>8, TypesTogether, Zenon DEF IInv, TypeOK, tcbs

LEMMA ActivationIsrInv ==
  ASSUME IInv, task_activation_isr
  PROVE  IInv'
<1>1. TypeOK /\ Kernel /\ Sides /\ IsInjective(activations)
  BY DEF IInv
<1>2. PICK due \in SUBSET Task : SetEvent(due)
  BY DEF task_activation_isr
<1>3. /\ active = "TIMER" /\ active' = "none"
      /\ UNCHANGED <<suspended, wait_mask, mem_arbit_status, activations, armed,
                     overtaken, hv, irq>>
  BY DEF task_activation_isr, boot
<1>4. /\ Kernel' /\ KernelTypes' /\ pc' = pc
      /\ \A t \in Task : Running(t)' => Running(t) \/ pc[t] = "waiting"
  BY <1>1, <1>2, <1>3, SetEventKeeps
<1>5. event_mask' \in [Task -> BOOLEAN] /\ own_sn' \in [Task -> BOOLEAN]
  BY <1>1, <1>2, Zenon DEF SetEvent, TypeOK
<1>6. (irq' \cup {active'}) \cap TokenIrq = (irq \cup {active}) \cap TokenIrq
  BY <1>3 DEF TokenIrq
<1>7. Sides'
  <2>1. \A t \in Task : ~(Running(t)' /\ pc'[t] = "requesting")
    BY <1>1, <1>3, <1>4 DEF Sides, MaskedPcs
  <2>2. active' \notin irq'
    BY <1>1, <1>3 DEF TypeOK, Irq, TokenIrq
  <2> QED
    BY <2>1, <2>2, <1>1, <1>3, <1>6 DEF Sides, SgisDone
<1> QED
  BY <1>1, <1>3, <1>4, <1>5, <1>7, TypesTogether, Zenon DEF IInv, TypeOK

(***************************************************************************)
(* The two ISRs of the token.                                              *)
(***************************************************************************)
LEMMA TokenIsrInv ==
  ASSUME IInv, memory_phase_started_ISR \/ memory_phase_ended_ISR
  PROVE  IInv'
<1>1. TypeOK /\ Kernel /\ Sides /\ IsInjective(activations)
  BY DEF IInv
<1>2. /\ active \in TokenIrq /\ active' = "none" /\ active # "none"
      /\ UNCHANGED <<event_mask, wait_mask, own_sn, activations, armed,
                     overtaken, hv, irq>>
  BY DEF memory_phase_started_ISR, memory_phase_ended_ISR, boot, TokenIrq
<1>3. active' \notin irq'
  BY <1>1, <1>2 DEF TypeOK, Irq, TokenIrq
<1>4. (irq' \cup {active'}) \cap TokenIrq = ((irq \cup {active}) \cap TokenIrq) \ {active}
  BY <1>1, <1>2 DEF Sides, TokenIrq
<1>5. CASE /\ mem_arbit_status = "REQUESTED" /\ mem_arbit_status' = "ACQUIRED"
           /\ active = "STARTED" /\ resume_highest_priority_task_from_ISR
  <2>1. Kernel' /\ KernelTypes'
    BY <1>1, <1>2, <1>5, StartedKeeps
  <2>2. Sides'
    BY <1>1, <1>2, <1>3, <1>4, <1>5, Zenon DEF Sides, SgisDone, TokenIrq
  <2> QED
    BY <2>1, <2>2, <1>1, <1>2, <1>5, TypesTogether, Zenon DEF IInv, TypeOK
<1>6. CASE /\ mem_arbit_status = "ACQUIRED" /\ mem_arbit_status' = "REQUESTED"
           /\ active = "ENDED" /\ suspend_highest_priority_active_task_from_ISR
  <2>1. Kernel' /\ KernelTypes'
    BY <1>1, <1>2, <1>6, EndedKeeps
  <2>2. Sides'
    BY <1>1, <1>2, <1>3, <1>4, <1>6 DEF Sides, SgisDone, TokenIrq
  <2> QED
    BY <2>1, <2>2, <1>1, <1>2, <1>6, TypesTogether, Zenon DEF IInv, TypeOK
<1>7. CASE /\ \/ active = "STARTED" /\ mem_arbit_status # "REQUESTED"
              \/ active = "ENDED" /\ mem_arbit_status # "ACQUIRED"
           /\ IsrEnds(stk, current_prio)
           /\ UNCHANGED <<suspended, mem_arbit_status>>
  <2>1. /\ Kernel' /\ KernelTypes' /\ pc' = pc
        /\ \A t \in Task : Running(t)' => Running(t) \/ pc[t] = "waiting"
    BY <1>1, <1>2, <1>7, QuietIsrKeeps
  <2>2. \A t \in Task : ~(Running(t)' /\ pc'[t] = "requesting")
    BY <2>1, <1>1, <1>2, Zenon DEF Sides, MaskedPcs
  <2>3. Sides'
    BY <2>2, <1>1, <1>2, <1>3, <1>4, <1>7 DEF Sides, SgisDone, TokenIrq
  <2> QED
    BY <2>1, <2>3, <1>1, <1>2, <1>7, TypesTogether, Zenon DEF IInv, TypeOK
<1> QED
  BY <1>5, <1>6, <1>7 DEF memory_phase_started_ISR, memory_phase_ended_ISR

LEMMA EnvironmentInv ==
  ASSUME IInv, Grant \/ Revoke \/ TimerExpires
  PROVE  IInv'
<1>1. TypeOK /\ Kernel /\ Sides /\ IsInjective(activations)
  BY DEF IInv
<1>2. UNCHANGED <<queues, tcbs, mem_arbit_status, pc, activations, armed, active>>
  BY DEF Grant, Revoke, TimerExpires, boot
<1>3. Kernel' /\ KernelTypes' /\ \A v : Running(v)' <=> Running(v)
  BY <1>1, <1>2, KernelFrame
<1>4. PICK i \in Irq : irq' = IF i = active THEN irq ELSE irq \cup {i}
  BY DEF Grant, Revoke, TimerExpires, inject_irq, Irq, TokenIrq
<1>5. irq' \subseteq Irq /\ active \notin irq'
  BY <1>1, <1>4 DEF TypeOK, Sides
<1>6. overtaken' \in BOOLEAN /\ hv' \in {"none", "waiting", "owner"}
  <2>1. overtaken' \in BOOLEAN
    BY <1>1, Zenon DEF Grant, Revoke, TimerExpires, TypeOK
  <2>2. hv' \in {"none", "waiting", "owner"}
    BY <1>1 DEF Grant, Revoke, TimerExpires, TypeOK
  <2> QED
    BY <2>1, <2>2
<1>7. Sides'
  <2>1. CASE Grant
    <3>1. /\ hv = "waiting" /\ hv' = "owner" /\ mem_arbit_status # "NONE"
          /\ irq' = IF "STARTED" = active THEN irq ELSE irq \cup {"STARTED"}
          /\ ~overtaken' => ~overtaken /\ SgisDone
      BY <2>1, <1>1, Zenon DEF Grant, inject_irq, Sides
    <3>2. SgisDone => (irq' \cup {active'}) \cap TokenIrq = {"STARTED"}
      BY <3>1, <1>2 DEF SgisDone, TokenIrq
    <3>3. SgisDone /\ ~overtaken => mem_arbit_status = "REQUESTED"
      BY <3>1, <1>1 DEF Sides, SgisDone
    <3> QED
      BY <3>1, <3>2, <3>3, <1>1, <1>2, <1>3, <1>5 DEF Sides
  <2>2. CASE Revoke
    <3>1. /\ hv = "owner" /\ hv' = "waiting" /\ mem_arbit_status # "NONE"
          /\ irq' = IF "ENDED" = active THEN irq ELSE irq \cup {"ENDED"}
          /\ ~overtaken' => ~overtaken /\ SgisDone
      BY <2>2, <1>1, Zenon DEF Revoke, inject_irq, Sides
    <3>2. SgisDone => (irq' \cup {active'}) \cap TokenIrq = {"ENDED"}
      BY <3>1, <1>2 DEF SgisDone, TokenIrq
    <3>3. SgisDone /\ ~overtaken => mem_arbit_status = "ACQUIRED"
      BY <3>1, <1>1 DEF Sides, SgisDone
    <3> QED
      BY <3>1, <3>2, <3>3, <1>1, <1>2, <1>3, <1>5 DEF Sides
  <2>3. CASE TimerExpires
    <3>1. /\ UNCHANGED <<hv, overtaken>> /\ irq' \cap TokenIrq = irq \cap TokenIrq
      BY <2>3 DEF TimerExpires, inject_irq, TokenIrq
    <3>2. (irq' \cup {active'}) \cap TokenIrq = (irq \cup {active}) \cap TokenIrq
      BY <3>1, <1>2
    <3> QED
      BY <3>1, <3>2, <1>1, <1>2, <1>3, <1>5 DEF Sides, SgisDone
  <2> QED
    BY <2>1, <2>2, <2>3
<1> QED
  BY <1>1, <1>2, <1>3, <1>5, <1>6, <1>7, TypesTogether, Zenon DEF IInv, TypeOK, tcbs

LEMMA TaskStepInv ==
  ASSUME IInv, NEW t \in Task, TaskStep(t)
  PROVE  IInv'
  BY WaitEventInv, EventStepInv, BeginInv, EndInv DEF TaskStep

LEMMA StepInv == IInv /\ [Next]_vars => IInv'
<1> SUFFICES ASSUME IInv, [Next]_vars
             PROVE  IInv'
  OBVIOUS
<1>1. CASE CoreStep
  BY <1>1, MainInv, AcknowledgeInv, ActivationIsrInv, TokenIsrInv, TaskStepInv
     DEF CoreStep
<1>2. CASE Grant \/ Revoke \/ TimerExpires
  BY <1>2, EnvironmentInv
<1>3. CASE UNCHANGED vars
  <2>1. UNCHANGED <<queues, tcbs, mem_arbit_status, pc, activations, armed, env>>
    BY <1>3 DEF vars, boot
  <2>2. TypeOK /\ Kernel /\ Sides /\ IsInjective(activations)
    BY DEF IInv
  <2>3. Kernel' /\ KernelTypes' /\ \A v : Running(v)' <=> Running(v)
    BY <2>1, <2>2, KernelFrame
  <2>4. Sides'
    BY <2>1, <2>2, <2>3 DEF Sides, SgisDone, env
  <2>5. /\ UNCHANGED <<event_mask, wait_mask, own_sn, mem_arbit_status, activations,
                       armed, hv, irq, active, overtaken>>
    BY <2>1 DEF tcbs, env
  <2> QED
    BY <2>2, <2>3, <2>4, <2>5, TypesTogether, Zenon DEF IInv, TypeOK
<1> QED
  BY <1>1, <1>2, <1>3 DEF Next

\* The invariant holds in every reachable state.
THEOREM Invariance == Spec => []IInv
  BY InitInv, StepInv, PTL DEF Spec

-----------------------------------------------------------------------------
(* What follows from it. *)

\* A task is once in a list of different tasks, or not at all.
LEMMA OnePosition ==
  ASSUME NEW s \in Seq(Task), IsInjective(s), NEW t
  PROVE  IF t \in Range(s) THEN \E k : Positions(s, t) = {k}
                           ELSE Positions(s, t) = {}
<1>1. CASE t \in Range(s)
  <2>1. PICK k \in DOMAIN s : s[k] = t
    BY <1>1 DEF Range
  <2>2. Positions(s, t) = {k}
    BY <2>1 DEF IsInjective, Positions
  <2> QED
    BY <2>2, <1>1
<1>2. CASE t \notin Range(s)
  BY <1>2 DEF Range, Positions
<1> QED
  BY <1>1, <1>2

LEMMA OnePlaceFollows == IInv => OnePlace
<1> SUFFICES ASSUME IInv
             PROVE  OnePlace
  OBVIOUS
<1>1. TypeOK /\ Kernel
  BY DEF IInv
<1>2. /\ ReadyLists(stk, rq, suspended)
      /\ \A t : Running(t) => t \in Range(stk)
      /\ \A t \in Task : Placed(t)
  BY <1>1, KernelFacts DEF Kernel
<1>3. ASSUME NEW t \in Task
      PROVE  IF pc[t] = "new" THEN Places(t) = {}
             ELSE \E place \in Places(t) : Places(t) = {place}
  <2> DEFINE a == Positions(stk, t)
             b == Positions(rq, t)
             c == Positions(suspended, t)
  <2>1. /\ IF t \in Range(stk) THEN \E k : a = {k} ELSE a = {}
        /\ IF t \in Range(rq) THEN \E k : b = {k} ELSE b = {}
        /\ IF t \in Range(suspended) THEN \E k : c = {k} ELSE c = {}
    BY <1>2, OnePosition DEF ReadyLists
  <2>2. Places(t) = ({"stk"} \X a) \cup ({"rq"} \X b) \cup ({"suspended"} \X c)
                    \cup {w \in {<<"waiting", 0>>} : status[t] = "WAITING"}
    BY DEF Places
  <2> HIDE DEF a, b, c
  <2>3. status[t] \in {"SUSPENDED", "READY", "READY_STACKED", "WAITING", "RUNNING"}
    BY <1>1 DEF TypeOK
  <2>4. Placed(t)
    BY <1>2
  <2>5. CASE t \in Range(stk)
    <3>1. pc[t] # "new" /\ status[t] # "WAITING"
      BY <2>4, <2>5 DEF Placed
    <3>2. PICK k : a = {k} /\ b = {} /\ c = {}
      BY <2>1, <2>5, <1>2 DEF ReadyLists
    <3>3. Places(t) = {<<"stk", k>>}
      BY <2>2, <3>1, <3>2
    <3> QED
      BY <3>1, <3>3
  <2>6. CASE t \in Range(rq)
    <3>1. pc[t] # "new" /\ status[t] # "WAITING"
      BY <2>4, <2>6, <1>2, Zenon DEF Placed, ReadyLists
    <3>2. PICK k : a = {} /\ b = {k} /\ c = {}
      BY <2>1, <2>6, <1>2 DEF ReadyLists
    <3>3. Places(t) = {<<"rq", k>>}
      BY <2>2, <3>1, <3>2
    <3> QED
      BY <3>1, <3>3
  <2>7. CASE t \in Range(suspended)
    <3>1. pc[t] # "new" /\ status[t] # "WAITING"
      BY <2>4, <2>7, <1>2, Zenon DEF Placed, ReadyLists
    <3>2. PICK k : a = {} /\ b = {} /\ c = {k}
      BY <2>1, <2>7, <1>2 DEF ReadyLists
    <3>3. Places(t) = {<<"suspended", k>>}
      BY <2>2, <3>1, <3>2, SMTT(30)
    <3> QED
      BY <3>1, <3>3
  <2>8. CASE t \notin Range(stk) \cup Range(rq) \cup Range(suspended)
    <3>1. status[t] = "WAITING" <=> pc[t] # "new"
      BY <2>3, <2>4, <2>8, <1>2, Zenon DEF Placed
    <3>2. a = {} /\ b = {} /\ c = {}
      BY <2>1, <2>8
    <3>3. Places(t) = {w \in {<<"waiting", 0>>} : status[t] = "WAITING"}
      BY <2>2, <3>2
    <3> QED
      BY <3>1, <3>3
  <2> QED
    BY <2>5, <2>6, <2>7, <2>8
<1> QED
  BY <1>1, <1>3 DEF OnePlace

(***************************************************************************)
(* Every activated task is in exactly one of the stack, the ready queue,   *)
(* the DPREM queue and the waiting state, whatever the number of tasks and *)
(* the moments of interrupts, grants and revocations (dprem.c,             *)
(* ee_oo_scheduler.c).                                                     *)
(***************************************************************************)
THEOREM OnePlaceHolds == Spec => []OnePlace
  BY Invariance, OnePlaceFollows, PTL

LEMMA TokenStatusFollows == IInv => TokenStatusTrue
<1> SUFFICES ASSUME IInv
             PROVE  TokenStatusTrue
  OBVIOUS
<1>1. TypeOK /\ Kernel /\ Sides
  BY DEF IInv
<1>2. /\ ReadyLists(stk, rq, suspended)
      /\ \A t : Running(t) => t \in Range(stk)
      /\ \A t \in Task : Phase(t)
      /\ OneCeiling /\ TokenFor
  BY <1>1, KernelFacts DEF Kernel
<1>3. TokenHasTask
  <2>1. ASSUME mem_arbit_status = "ACQUIRED"
        PROVE  /\ stk # <<>>
               /\ pc[Head(stk)] \in {"requesting", "mem", "ending"}
               /\ current_prio[Head(stk)] = MAX_TASK_PRIORITY
               /\ Highest(stk) = Head(stk)
    <3>1. PICK t \in Task : Running(t) /\ current_prio[t] = MAX_TASK_PRIORITY
      BY <2>1, <1>2 DEF TokenFor
    <3>2. stk # <<>> /\ Head(stk) = t /\ t \in Range(stk)
      BY <3>1, <1>2 DEF Running
    <3>3. Highest(stk) = t
      BY <3>1, <3>2, <1>1, <1>2, HighestFound DEF ReadyLists
    <3>4. pc[t] \in {"requesting", "mem", "ending"}
      BY <3>1, <2>1, <1>2 DEF Phase
    <3> QED
      BY <3>1, <3>2, <3>3, <3>4
  <2>2. mem_arbit_status = "REQUESTED" => suspended # <<>>
    BY <1>2 DEF TokenFor, Range
  <2> QED
    BY <2>1, <2>2 DEF TokenHasTask
<1>4. MemoryOnlyWithToken
  BY <1>2 DEF MemoryOnlyWithToken, Phase, ReadyLists
<1>5. NoForgottenTask
  <2> SUFFICES ASSUME suspended # <<>>, mem_arbit_status = "NONE"
               PROVE  \E i \in DOMAIN stk : pc[stk[i]] \in {"exec", "requesting"}
    BY DEF NoForgottenTask
  <2>1. Range(suspended) # {}
    BY <1>2, Popped DEF ReadyLists
  <2>2. PICK t \in Range(stk) : pc[t] \in {"exec", "requesting"}
    BY <2>1, <1>2 DEF TokenFor
  <2> QED
    BY <2>2 DEF Range
<1>6. ViewsAgree
  BY <1>1, Zenon DEF ViewsAgree, Sides, SgisDone, TypeOK
<1> QED
  BY <1>3, <1>4, <1>5, <1>6 DEF TokenStatusTrue

(***************************************************************************)
(* What the guest has on record of the token is true in every reachable    *)
(* state: of the task the token is for, of the tasks held back, and of the *)
(* hypervisor unless one of its decisions has overtaken an interrupt.  The *)
(* error messages of dprem.c:323, 347 and 394 are never printed.           *)
(***************************************************************************)
THEOREM TokenStatusHolds == Spec => []TokenStatusTrue
  BY Invariance, TokenStatusFollows, PTL

\* Task t goes to place y and all others stay where they are.
Moves(t, y) == /\ pc' = [pc EXCEPT ![t] = y]
               /\ pc[t] = y \/ <<pc[t], y>> \in Order

LEMMA OrderKept ==
  ASSUME IInv, [Next]_vars
  PROVE  OrderStep
<1>1. /\ TypeOK /\ Kernel /\ Sides /\ IsInjective(activations)
      /\ pc \in [Task -> Pc]
  BY KernelFacts DEF IInv, KernelTypes
<1>2. ASSUME NEW t \in Task, NEW y, Moves(t, y)
      PROVE  OrderStep
  BY <1>1, <1>2 DEF Moves, OrderStep
<1>3. ASSUME pc' = pc
      PROVE  OrderStep
  BY <1>3 DEF OrderStep
<1>4. ASSUME NEW t \in Task, TaskStep(t)
      PROVE  \E y : Moves(t, y)
  <2>1. CASE WaitEvent(t)
    <3>1. pc[t] = "wait"
      BY <2>1 DEF WaitEvent
    <3>2. CASE event_mask[t]
      BY <2>1, <3>1, <3>2 DEF WaitEvent, Moves, Order
    <3>3. CASE ~event_mask[t]
      BY <2>1, <3>1, <3>3, <1>1, WaitKeeps DEF Moves, Order
    <3> QED
      BY <3>2, <3>3
  <2>2. CASE WaitEventReturns(t)
    BY <2>2, Zenon DEF WaitEventReturns, Moves, Order
  <2>3. CASE ClearEvent(t)
    BY <2>3, Zenon DEF ClearEvent, Moves, Order
  <2>4. CASE begin_has_token(t) \/ begin_hvc_ACK(t)
    <3>1. pc[t] \in {"begin", "requesting"} /\ pc' = [pc EXCEPT ![t] = "mem"]
      BY <2>4 DEF begin_has_token, begin_hvc_ACK, AtLoop, enter_memory_phase
    <3> QED
      BY <3>1, Zenon DEF Moves, Order
  <2>5. CASE begin_hvc_NACK(t) \/ begin_suspend(t)
    <3>1. /\ Running(t) /\ pc[t] \in {"begin", "requesting"}
          /\ mem_arbit_status # "ACQUIRED" /\ mem_arbit_status' = "REQUESTED"
          /\ activations' = activations /\ suspend_running_task(t)
      BY <2>5 DEF begin_hvc_NACK, begin_suspend, AtLoop, Executes, boot
    <3>2. pc' = [pc EXCEPT ![t] = "requesting"]
      BY <3>1, <1>1, SuspendKeeps
    <3> QED
      BY <3>1, <3>2, Zenon DEF Moves, Order
  <2>6. CASE end_memory_phase_masks(t)
    BY <2>6, Zenon DEF end_memory_phase_masks, Moves, Order
  <2>7. CASE end_memory_phase(t)
    BY <2>7, Zenon DEF end_memory_phase, Moves, Order
  <2>8. CASE end_execution_phase(t)
    BY <2>8, Zenon DEF end_execution_phase, Moves, Order, Entry
  <2> QED
    BY <1>4, <2>1, <2>2, <2>3, <2>4, <2>5, <2>6, <2>7, <2>8
       DEF TaskStep, begin_memory_phase
<1>5. CASE ActivateTask
  <2> DEFINE t == Head(activations)
  <2>1. /\ activations # <<>> /\ activations \in Seq(Task)
        /\ pc' = [pc EXCEPT ![t] = "wait"]
    BY <1>1, <1>5 DEF ActivateTask, Entry, TypeOK
  <2>2. t \in Task /\ t \in Range(activations)
    BY <2>1, Popped
  <2> HIDE DEF t
  <2>3. pc[t] = "new"
    BY <2>2, <1>1, Zenon DEF Kernel, Placed
  <2>4. Moves(t, "wait")
    BY <2>1, <2>3 DEF Moves, Order
  <2> QED
    BY <2>2, <2>4, <1>2
<1>6. CASE task_activation_isr
  <2>1. PICK due \in SUBSET Task : SetEvent(due)
    BY <1>6 DEF task_activation_isr
  <2>2. UNCHANGED <<suspended, wait_mask, mem_arbit_status, activations>>
    BY <1>6 DEF task_activation_isr, boot
  <2> QED
    BY <2>1, <2>2, <1>1, <1>3, SetEventKeeps
<1>7. CASE memory_phase_started_ISR
  <2>1. UNCHANGED <<wait_mask, own_sn, activations>>
    BY <1>7 DEF memory_phase_started_ISR, boot
  <2>2. CASE mem_arbit_status = "REQUESTED"
    BY <2>1, <2>2, <1>1, <1>3, <1>7, StartedKeeps DEF memory_phase_started_ISR
  <2>3. CASE mem_arbit_status # "REQUESTED"
    BY <2>1, <2>3, <1>1, <1>3, <1>7, QuietIsrKeeps DEF memory_phase_started_ISR
  <2> QED
    BY <2>2, <2>3
<1>8. CASE memory_phase_ended_ISR
  <2>1. active = "ENDED" /\ UNCHANGED <<wait_mask, own_sn, activations>>
    BY <1>8 DEF memory_phase_ended_ISR, boot
  <2>2. CASE mem_arbit_status = "ACQUIRED"
    BY <2>1, <2>2, <1>1, <1>3, <1>8, EndedKeeps DEF memory_phase_ended_ISR
  <2>3. CASE mem_arbit_status # "ACQUIRED"
    BY <2>1, <2>3, <1>1, <1>3, <1>8, QuietIsrKeeps DEF memory_phase_ended_ISR
  <2> QED
    BY <2>2, <2>3
<1>9. CASE UNCHANGED vars \/ StartTimer \/ Acknowledge \/ Grant \/ Revoke
           \/ TimerExpires
  BY <1>9, <1>3 DEF vars, StartTimer, Acknowledge, Grant, Revoke, TimerExpires
<1> QED
  BY <1>2, <1>4, <1>5, <1>6, <1>7, <1>8, <1>9 DEF Next, CoreStep

(***************************************************************************)
(* A memory phase that is no longer the running one is held back with a    *)
(* request on record, and only the ENDED interrupt turns the token into a  *)
(* request.                                                                *)
(***************************************************************************)
LEMMA PreemptionKept ==
  ASSUME IInv, IInv', [Next]_vars
  PROVE  PreemptionStep
<1> SUFFICES ASSUME NEW t \in Task, Running(t), pc[t] = "mem", pc'[t] = "mem",
                    ~Running(t)'
             PROVE  active = "ENDED" /\ mem_arbit_status' = "REQUESTED"
  BY DEF PreemptionStep
<1>1. TypeOK /\ Kernel /\ Kernel'
  BY DEF IInv
<1>2. t \in Range(stk) /\ t \notin Range(suspended)
  BY <1>1, KernelFacts, Zenon DEF ReadyLists
<1>3. mem_arbit_status = "ACQUIRED"
  BY <1>1, <1>2, Zenon DEF Kernel, Phase
<1>4. mem_arbit_status' = "REQUESTED"
  BY <1>1, Zenon DEF Kernel, Phase
<1>5. CASE memory_phase_ended_ISR
  BY <1>4, <1>5 DEF memory_phase_ended_ISR
<1>6. CASE ~memory_phase_ended_ISR
  <2>1. mem_arbit_status' # "REQUESTED"
    BY <1>3, <1>6, Zenon DEF Next, CoreStep, TaskStep, ActivateTask, StartTimer,
       Acknowledge, task_activation_isr, memory_phase_started_ISR, WaitEvent,
       WaitEventReturns, ClearEvent, begin_memory_phase, begin_has_token,
       begin_hvc_ACK, begin_hvc_NACK, begin_suspend, end_memory_phase_masks,
       end_memory_phase, end_execution_phase, Grant, Revoke, TimerExpires, vars
  <2> QED
    BY <2>1, <1>4
<1> QED
  BY <1>5, <1>6

(***************************************************************************)
(* Every task goes through its phases in order and loses the core in a     *)
(* memory phase only to the revocation of the token, for any set of tasks  *)
(* and priorities (dprem.c, ee_std_change_context.c:65).                   *)
(***************************************************************************)
THEOREM PhasesHold == Spec => PhasesKept
<1>1. IInv /\ IInv' /\ [Next]_vars => OrderStep
  BY OrderKept
<1>2. IInv /\ IInv' /\ [Next]_vars => PreemptionStep
  BY PreemptionKept
<1> QED
  BY <1>1, <1>2, Invariance, PTL DEF Spec, PhasesKept, PhasesInOrder,
     MemoryPhaseNotPreempted

-----------------------------------------------------------------------------
(* The core is one client of the token. *)

LEMMA ClientStep ==
  ASSUME IInv, [Next]_vars
  PROVE  [Client!ClientNext]_(Client!clientVars)
<1>1. TypeOK /\ Kernel /\ Sides
  BY DEF IInv
<1>2. CASE UNCHANGED <<mem_arbit_status, hv, irq, active>>
  BY <1>2 DEF Client!clientVars
<1>3. ASSUME NEW t \in Task, begin_hvc_ACK(t) \/ begin_hvc_NACK(t)
      PROVE  Client!Begin
  <2>1. AtLoop(t) /\ mem_arbit_status = "NONE" /\ UNCHANGED <<irq, active>>
    BY <1>3 DEF begin_hvc_ACK, begin_hvc_NACK
  <2>2. active = "none" /\ irq \cap TokenIrq = {}
    BY <2>1, AsksWithNothingPending
  <2>3. \/ mem_arbit_status' = "ACQUIRED" /\ hv' = "owner"
        \/ mem_arbit_status' = "REQUESTED" /\ hv' = "waiting"
    BY <1>3 DEF begin_hvc_ACK, begin_hvc_NACK
  <2> QED
    BY <2>1, <2>2, <2>3 DEF Client!Begin
<1>4. ASSUME NEW t \in Task, end_memory_phase(t)
      PROVE  Client!End
  <2>1. /\ active = "none" /\ pc[t] = "ending" /\ UNCHANGED <<irq, active>>
        /\ mem_arbit_status' = "NONE" /\ hv' = "none"
    BY <1>4, NothingPending DEF end_memory_phase
  <2>2. mem_arbit_status = "ACQUIRED"
    BY <2>1, <1>1 DEF Kernel, Phase
  <2> QED
    BY <2>1, <2>2 DEF Client!End
<1>5. CASE Acknowledge
  <2>1. PICK k \in irq : active' = k /\ irq' = irq \ {k}
    BY <1>5 DEF Acknowledge
  <2>2. active = "none" /\ UNCHANGED <<mem_arbit_status, hv>>
    BY <1>5 DEF Acknowledge
  <2>3. CASE k \in TokenIrq
    BY <2>1, <2>2, <2>3 DEF Client!Acknowledge, Client!ClientNext, TokenIrq
  <2>4. CASE k \notin TokenIrq
    BY <2>1, <2>2, <2>4 DEF Client!clientVars, TokenIrq
  <2> QED
    BY <2>3, <2>4
<1>6. CASE task_activation_isr
  BY <1>6 DEF task_activation_isr, Client!clientVars, TokenIrq
<1>7. ASSUME memory_phase_started_ISR
      PROVE  Client!Serve
  BY <1>7 DEF memory_phase_started_ISR, Client!Serve, TokenIrq
<1>8. ASSUME memory_phase_ended_ISR
      PROVE  Client!Serve
  BY <1>8 DEF memory_phase_ended_ISR, Client!Serve, TokenIrq
<1>9. ASSUME Grant
      PROVE  Client!Grant
  BY <1>9 DEF Grant, inject_irq, Client!Grant, Client!Inject, TokenIrq
<1>10. ASSUME Revoke
       PROVE  Client!Revoke
  BY <1>10 DEF Revoke, inject_irq, Client!Revoke, Client!Inject, TokenIrq
<1>11. CASE TimerExpires
  BY <1>11 DEF TimerExpires, inject_irq, Client!clientVars, TokenIrq
<1>12. CASE ActivateTask \/ StartTimer
  BY <1>12, <1>2 DEF ActivateTask, StartTimer, env
<1>13. ASSUME NEW t \in Task,
              \/ WaitEvent(t) \/ WaitEventReturns(t) \/ ClearEvent(t)
              \/ begin_has_token(t) \/ begin_suspend(t)
              \/ end_memory_phase_masks(t) \/ end_execution_phase(t)
       PROVE  UNCHANGED <<mem_arbit_status, hv, irq, active>>
  BY <1>13, Zenon DEF WaitEvent, WaitEventReturns, ClearEvent, begin_has_token,
     begin_suspend, end_memory_phase_masks, end_execution_phase, env
<1>14. CASE UNCHANGED vars
  BY <1>14, <1>2 DEF vars, env
<1> QED
  BY <1>2, <1>3, <1>4, <1>5, <1>6, <1>7, <1>8, <1>9, <1>10, <1>11, <1>12, <1>13,
     <1>14
  DEF Next, CoreStep, TaskStep, begin_memory_phase, Client!ClientNext

(***************************************************************************)
(* A core with any set of tasks implements the client of the token that    *)
(* MemoryCentric composes with the arbitration: hypercalls, served         *)
(* interrupts and the guest's record of the token come in no other order.  *)
(***************************************************************************)
THEOREM CoreIsClient == Spec => ImplementsClient
<1>1. Init => Client!ClientInit
  BY DEF Init, Client!ClientInit, TokenIrq
<1>2. IInv /\ [Next]_vars => [Client!ClientNext]_(Client!clientVars)
  BY ClientStep
<1> QED
  BY <1>1, <1>2, Invariance, PTL DEF Spec, ImplementsClient, Client!ClientSpec

=============================================================================
