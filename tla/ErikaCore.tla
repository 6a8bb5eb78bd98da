----------------------------- MODULE ErikaCore -----------------------------
(***************************************************************************)
(* One core running Erika with the DPREM extension: periodic tasks, the    *)
(* kernel queues they move between, the events that release them and the   *)
(* guest's side of the memory token.                                       *)
(*                                                                         *)
(* The hypervisor is the environment: hv is what it has on record for this *)
(* core ("none": no request, "waiting": request not granted, "owner"), and *)
(* it may grant or revoke at any moment.  irq is the set of interrupts     *)
(* pending at the core and active the one acknowledged and not completed.  *)
(* A list register holds an interrupt id at most once, so an interrupt     *)
(* sent while the same id is pending or active is dropped (gic-v2.c:295).  *)
(* Which of several pending interrupts comes first is the choice of the    *)
(* interrupt controller.  overtaken records that the hypervisor has once   *)
(* changed its mind before the core had completed the previous token       *)
(* interrupt.                                                              *)
(*                                                                         *)
(* Kernel primitives and ISR2 bodies run with interrupts masked, so each   *)
(* is one step.  A context switch inside a primitive leaves the new task   *)
(* inside the primitive it was suspended in, still masked: that is Masked. *)
(***************************************************************************)
EXTENDS Integers, Sequences, Functions

CONSTANTS
  Task,              \* the regular tasks of the core
  ready_prio, dispatch_prio,  \* OsEE_TDB fields, one entry per task
  MAX_TASK_PRIORITY, \* ceiling priority of a memory phase
  Activations        \* the order in which main() activates the tasks, once each

ASSUME PrioAssumption ==
  /\ ready_prio \in [Task -> Nat \ {0}]
  /\ dispatch_prio \in [Task -> Nat \ {0}]
  /\ MAX_TASK_PRIORITY \in Nat
  /\ \A t \in Task : /\ ready_prio[t] <= dispatch_prio[t]
                     /\ dispatch_prio[t] < MAX_TASK_PRIORITY
  /\ Activations \in Seq(Task) /\ IsInjective(Activations)

VARIABLES
  stk, rq, suspended, \* OsEE_CCB: p_stk_sn, rq, p_suspended_sn
  status, current_prio, event_mask, wait_mask, own_sn,   \* OsEE_TCB
  mem_arbit_status,   \* OsEE_CCB
  pc,                 \* where each task is in its function
  activations,        \* tasks main() has still to activate
  armed,              \* main() has started the activation timer
  hv, irq, active,
  overtaken           \* see above

queues == <<stk, rq, suspended>>
tcbs   == <<status, current_prio, event_mask, wait_mask, own_sn>>
boot   == <<activations, armed>>
env    == <<hv, irq, active, overtaken>>
vars   == <<queues, tcbs, mem_arbit_status, pc, boot, env>>

TokenIrq == {"STARTED", "ENDED"}
Irq      == TokenIrq \cup {"TIMER"}

\* The types of the kernel's fields: a task has one of its two configured
\* priorities or the ceiling of a memory phase.
TypeOK ==
  /\ stk \in Seq(Task) /\ rq \in Seq(Task) /\ suspended \in Seq(Task)
  /\ status \in [Task -> {"SUSPENDED", "READY", "READY_STACKED", "WAITING",
                          "RUNNING"}]
  /\ current_prio \in [Task -> Nat]
  /\ \A t \in Task : current_prio[t] \in {ready_prio[t], dispatch_prio[t],
                                          MAX_TASK_PRIORITY}
  /\ event_mask \in [Task -> BOOLEAN]
  /\ wait_mask \in [Task -> BOOLEAN]
  /\ own_sn \in [Task -> BOOLEAN]
  /\ mem_arbit_status \in {"NONE", "REQUESTED", "ACQUIRED"}
  /\ pc \in [Task -> {"new", "wait", "waiting", "clear", "begin",
                      "requesting", "mem", "ending", "exec"}]
  /\ activations \in Seq(Task) /\ armed \in BOOLEAN
  /\ hv \in {"none", "waiting", "owner"}
  /\ irq \subseteq Irq /\ active \in {"none"} \cup Irq
  /\ overtaken \in BOOLEAN

Init ==
  /\ stk = <<>> /\ rq = <<>> /\ suspended = <<>>
  /\ status = [t \in Task |-> "SUSPENDED"]
  /\ current_prio = ready_prio
  /\ event_mask = [t \in Task |-> FALSE]
  /\ wait_mask = [t \in Task |-> FALSE]
  /\ own_sn = [t \in Task |-> FALSE]
  /\ mem_arbit_status = "NONE"
  /\ pc = [t \in Task |-> "new"]
  /\ activations = Activations /\ armed = FALSE
  /\ hv = "none" /\ irq = {} /\ active = "none" /\ overtaken = FALSE

-----------------------------------------------------------------------------
(* Lists and queues. *)

Idle == stk = <<>>
Running(t) == stk # <<>> /\ Head(stk) = t

\* Interrupts are off in the rest of WaitEvent and of DPREM_begin_memory_phase
\* after the switch back to the task, and from the end of the memory phase to
\* the end of the execution phase.
Masked ==
  stk # <<>> /\ pc[Head(stk)] \in {"waiting", "requesting", "ending", "exec"}

\* An enabled pending interrupt is taken before the next instruction.
Uninterrupted == active = "none" /\ (Masked \/ irq = {})
Executes(t) == Running(t) /\ Uninterrupted

\* Faulty: the lowest instead.
Highest_lowest(s) ==
  s[CHOOSE i \in DOMAIN s :
      \A j \in DOMAIN s : \/ current_prio[s[j]] > current_prio[s[i]]
                          \/ current_prio[s[j]] = current_prio[s[i]] /\ i <= j]

\* Search for the highest current_prio: the first of the equals wins.
Highest(s) ==
  s[CHOOSE i \in DOMAIN s :
      \A j \in DOMAIN s : \/ current_prio[s[j]] < current_prio[s[i]]
                          \/ current_prio[s[j]] = current_prio[s[i]] /\ i <= j]

\* Unlinks the first entry for t, if there is one.
list_remove(s, t) ==
  IF t \in Range(s)
    THEN LET k == CHOOSE k \in DOMAIN s : /\ s[k] = t
                                         /\ \A j \in 1..k - 1 : s[j] # t
         IN  SubSeq(s, 1, k - 1) \o SubSeq(s, k + 1, Len(s))
    ELSE s
list_push_to_head(s, t) == <<t>> \o s
list_insert_after_head(s, t) ==
  IF s = <<>> THEN <<t>> ELSE <<Head(s), t>> \o Tail(s)

\* Before the first regular task of the stack, that is below the ISR2 only.
list_insert_before_regular(s, t) == <<t>> \o s

\* Behind every entry of the same or a higher ready priority.
sn_priority_insert(q, t) ==
  LET n == CHOOSE n \in 0..Len(q) :
             /\ \A i \in 1..n : ready_prio[t] <= ready_prio[q[i]]
             /\ n < Len(q) => ready_prio[q[n + 1]] < ready_prio[t]
  IN  SubSeq(q, 1, n) \o <<t>> \o SubSeq(q, n + 1, Len(q))

\* The head of the ready queue goes on top of the stack s only if its
\* priority is strictly higher than that of the top of s.
rq_preempts_stk(s, q, prio) ==
  q # <<>> /\ (s # <<>> => prio[Head(s)] < prio[Head(q)])

\* Where a task starts when its context is not a saved one.
Entry == "wait"

\* A task taken from the ready queue gets at least its dispatch priority.
stk_next(t, prio) ==
  [prio EXCEPT ![t] = IF @ < dispatch_prio[t] THEN dispatch_prio[t] ELSE @]

\* A task whose state is not READY_STACKED has no saved context to restore.
change_context(t, st, at) ==
  IF st[t] = "READY_STACKED" THEN at ELSE [at EXCEPT ![t] = Entry]

\* The core goes on with the head of ready queue q or the top of stack s, or
\* with the idle task.  prio, st and at are the priorities, the states and
\* the places of the tasks before the switch.
SwitchTo(s, q, prio, st, at) ==
  IF rq_preempts_stk(s, q, prio)
    THEN /\ stk' = list_push_to_head(s, Head(q)) /\ rq' = Tail(q)
         /\ current_prio' = stk_next(Head(q), prio)
         /\ status' = [t \in Task |->
                         IF t = Head(q) THEN "RUNNING"
                         ELSE IF s # <<>> /\ t = Head(s) THEN "READY_STACKED"
                         ELSE st[t]]
         /\ pc' = change_context(Head(q), st, at)
    ELSE /\ stk' = s /\ rq' = q /\ current_prio' = prio
         /\ status' = [t \in Task |-> IF s # <<>> /\ t = Head(s)
                                       THEN "RUNNING" ELSE st[t]]
         /\ pc' = IF s = <<>> THEN at ELSE change_context(Head(s), st, at)

\* osEE_scheduler_task_set_running: the states of the tasks once an ISR2 has
\* preempted the running one.
Preempted == [t \in Task |-> IF Running(t) /\ status[t] = "RUNNING"
                               THEN "READY_STACKED" ELSE status[t]]

\* The end of an ISR2 that leaves the regular tasks stacked as in s.
IsrEnds(s, prio) == SwitchTo(s, rq, prio, Preempted, pc)

-----------------------------------------------------------------------------
(* main() and the kernel's event services. *)

\* ActivateTask from main(), that is from the idle task: the activated task
\* has a higher priority and takes the core at once.
ActivateTask ==
  /\ Idle /\ Uninterrupted /\ activations # <<>>
  /\ LET t == Head(activations) IN
       /\ stk' = list_push_to_head(stk, t)
       /\ status' = [status EXCEPT ![t] = "RUNNING"]
       /\ event_mask' = [event_mask EXCEPT ![t] = FALSE]
       /\ pc' = [pc EXCEPT ![t] = Entry]
  /\ activations' = Tail(activations)
  /\ UNCHANGED <<rq, suspended, current_prio, wait_mask, own_sn,
                 mem_arbit_status, armed, env>>

StartTimer ==
  /\ Idle /\ Uninterrupted /\ activations = <<>> /\ ~armed
  /\ armed' = TRUE
  /\ UNCHANGED <<queues, tcbs, mem_arbit_status, pc, activations, env>>

WaitEvent(t) ==
  /\ Executes(t) /\ pc[t] = "wait"
  /\ IF event_mask[t]
       THEN /\ pc' = [pc EXCEPT ![t] = "clear"]
            /\ UNCHANGED <<queues, tcbs>>
       ELSE /\ wait_mask' = [wait_mask EXCEPT ![t] = TRUE]
            /\ own_sn' = [own_sn EXCEPT ![t] = TRUE]
            /\ SwitchTo(Tail(stk), rq, current_prio,
                        [status EXCEPT ![t] = "WAITING"],
                        [pc EXCEPT ![t] = "waiting"])
            /\ UNCHANGED <<suspended, event_mask>>
  /\ UNCHANGED <<mem_arbit_status, boot, env>>

\* Faulty: the mask waited for is left in place.
WaitEventReturns_keep_mask(t) ==
  /\ Executes(t) /\ pc[t] = "waiting"
  /\ pc' = [pc EXCEPT ![t] = "clear"]
  /\ UNCHANGED <<queues, tcbs, mem_arbit_status, boot, env>>

\* The switch in WaitEvent returns: the wait is over.
WaitEventReturns(t) ==
  /\ Executes(t) /\ pc[t] = "waiting"
  /\ wait_mask' = [wait_mask EXCEPT ![t] = FALSE]
  /\ pc' = [pc EXCEPT ![t] = "clear"]
  /\ UNCHANGED <<queues, status, current_prio, event_mask, own_sn,
                 mem_arbit_status, boot, env>>

ClearEvent(t) ==
  /\ Executes(t) /\ pc[t] = "clear"
  /\ event_mask' = [event_mask EXCEPT ![t] = FALSE]
  /\ pc' = [pc EXCEPT ![t] = "begin"]
  /\ UNCHANGED <<queues, status, current_prio, wait_mask, own_sn,
                 mem_arbit_status, boot, env>>

\* osEE_aarch64_isr_wrapper reads the id of a pending interrupt; the ISR2 it
\* activates completes it at its end.
Acknowledge ==
  /\ active = "none" /\ ~Masked
  /\ \E i \in irq : active' = i /\ irq' = irq \ {i}
  /\ UNCHANGED <<queues, tcbs, mem_arbit_status, pc, boot, overtaken, hv>>

\* SetEvent hands out the scheduling node of a task that waits for the event
\* and has not been given away already.
Wakes(t) == wait_mask[t] /\ own_sn[t]

\* osEE_scheduler_task_unblocked, for each of the woken tasks in turn.
unblocked_rq(woken) ==
  LET q[n \in 0..Len(Activations)] ==
        IF n = 0 THEN rq
        ELSE IF Activations[n] \in woken
               THEN sn_priority_insert(q[n - 1], Activations[n])
               ELSE q[n - 1]
  IN  q[Len(Activations)]
unblocked_prio(woken) ==
  [t \in Task |-> IF t \in woken THEN ready_prio[t] ELSE current_prio[t]]
unblocked_status(woken) ==
  [t \in Task |-> IF t \in woken THEN "READY_STACKED" ELSE Preempted[t]]

\* SetEvent for each of the tasks in due, and the end of the ISR2 it is in.
SetEvent(due) ==
  LET woken == {t \in due : Wakes(t)} IN
    /\ event_mask' = [t \in Task |-> t \in due \/ event_mask[t]]
    /\ own_sn' = [t \in Task |-> own_sn[t] /\ t \notin woken]
    /\ SwitchTo(stk, unblocked_rq(woken), unblocked_prio(woken),
                unblocked_status(woken), pc)

\* The activation ISR releases the tasks whose time has come (TaskRelease
\* models which these are).
task_activation_isr ==
  /\ active = "TIMER" /\ active' = "none"
  /\ \E due \in SUBSET Task : SetEvent(due)
  /\ UNCHANGED <<suspended, wait_mask, mem_arbit_status, boot, overtaken, hv, irq>>

-----------------------------------------------------------------------------
(* DPREM. *)

\* Faulty: the task keeps the state RUNNING and will be started afresh.
suspend_running_task_running(t) ==
  /\ suspended' = list_push_to_head(suspended, t)
  /\ own_sn' = [own_sn EXCEPT ![t] = TRUE]
  /\ SwitchTo(Tail(stk), rq, [current_prio EXCEPT ![t] = ready_prio[t]],
              status, [pc EXCEPT ![t] = "requesting"])
  /\ UNCHANGED <<event_mask, wait_mask>>

\* DPREM_suspend_running_task, with the priority and the state it leaves in
\* the TCB.
suspend_running_task(t) ==
  /\ suspended' = list_push_to_head(suspended, t)
  /\ own_sn' = [own_sn EXCEPT ![t] = TRUE]
  /\ SwitchTo(Tail(stk), rq, [current_prio EXCEPT ![t] = ready_prio[t]],
              [status EXCEPT ![t] = "READY_STACKED"],
              [pc EXCEPT ![t] = "requesting"])
  /\ UNCHANGED <<event_mask, wait_mask>>

enter_memory_phase(t) ==
  /\ current_prio' = [current_prio EXCEPT ![t] = MAX_TASK_PRIORITY]
  /\ pc' = [pc EXCEPT ![t] = "mem"]
  /\ UNCHANGED <<queues, status, event_mask, wait_mask, own_sn>>

\* The body of the loop of DPREM_begin_memory_phase, entered from the call
\* ("begin") or from the return of a suspension ("requesting").
AtLoop(t) == Executes(t) /\ pc[t] \in {"begin", "requesting"}

begin_has_token(t) ==
  /\ AtLoop(t) /\ mem_arbit_status = "ACQUIRED"
  /\ enter_memory_phase(t)
  /\ UNCHANGED <<mem_arbit_status, boot, env>>

begin_hvc_ACK(t) ==
  /\ AtLoop(t) /\ mem_arbit_status = "NONE"
  /\ hv' = "owner" /\ mem_arbit_status' = "ACQUIRED"
  /\ enter_memory_phase(t)
  /\ UNCHANGED <<boot, overtaken, irq, active>>

begin_hvc_NACK(t) ==
  /\ AtLoop(t) /\ mem_arbit_status = "NONE"
  /\ hv' = "waiting" /\ mem_arbit_status' = "REQUESTED"
  /\ suspend_running_task(t)
  /\ UNCHANGED <<boot, overtaken, irq, active>>

\* Faulty: the token is asked for although a request is on record.
begin_suspend_after_hvc(t) ==
  /\ AtLoop(t) /\ mem_arbit_status = "REQUESTED"
  /\ hv' \in {"owner", "waiting"}
  /\ mem_arbit_status' = IF hv' = "owner" THEN "ACQUIRED" ELSE "REQUESTED"
  /\ suspend_running_task(t)
  /\ UNCHANGED <<boot, overtaken, irq, active>>

begin_suspend(t) ==
  /\ AtLoop(t) /\ mem_arbit_status = "REQUESTED"
  /\ suspend_running_task(t)
  /\ UNCHANGED <<mem_arbit_status, boot, env>>

begin_memory_phase(t) ==
  \/ begin_has_token(t)
  \/ begin_hvc_ACK(t)
  \/ begin_hvc_NACK(t)
  \/ begin_suspend(t)

\* Between masking interrupts and the hypercall the token may be revoked.
end_memory_phase_masks(t) ==
  /\ Executes(t) /\ pc[t] = "mem"
  /\ pc' = [pc EXCEPT ![t] = "ending"]
  /\ UNCHANGED <<queues, tcbs, mem_arbit_status, boot, env>>

end_memory_phase(t) ==
  /\ Executes(t) /\ pc[t] = "ending"
  /\ hv' = "none" /\ mem_arbit_status' = "NONE"
  /\ pc' = [pc EXCEPT ![t] = "exec"]
  /\ UNCHANGED <<queues, tcbs, boot, overtaken, irq, active>>

\* Faulty: the tasks that found no token are not released.
resume_highest_priority_task_none ==
  UNCHANGED <<stk, suspended>>

\* DPREM_resume_highest_priority_task: below the head of the stack.
resume_highest_priority_task ==
  IF suspended = <<>>
    THEN UNCHANGED <<stk, suspended>>
    ELSE /\ stk' = list_insert_after_head(stk, Highest(suspended))
         /\ suspended' = list_remove(suspended, Highest(suspended))

end_execution_phase(t) ==
  /\ Executes(t) /\ pc[t] = "exec"
  /\ current_prio' = [current_prio EXCEPT ![t] = dispatch_prio[t]]
  /\ resume_highest_priority_task
  /\ pc' = [pc EXCEPT ![t] = Entry]
  /\ UNCHANGED <<rq, status, event_mask, wait_mask, own_sn, mem_arbit_status,
                 boot, env>>

\* The resumed task goes on top of the regular tasks with the ceiling
\* priority.
resume_highest_priority_task_from_ISR ==
  IF suspended = <<>>
    THEN IsrEnds(stk, current_prio) /\ UNCHANGED suspended
    ELSE LET t == Highest(suspended) IN
         /\ suspended' = list_remove(suspended, t)
         /\ IsrEnds(list_insert_before_regular(stk, t),
                    [current_prio EXCEPT ![t] = MAX_TASK_PRIORITY])

suspend_highest_priority_active_task_from_ISR ==
  IF stk = <<>>
    THEN IsrEnds(stk, current_prio) /\ UNCHANGED suspended
    ELSE /\ suspended' = list_push_to_head(suspended, Highest(stk))
         /\ IsrEnds(list_remove(stk, Highest(stk)), current_prio)

\* Both ISRs act only in the state their interrupt is meant for.
memory_phase_started_ISR ==
  /\ active = "STARTED" /\ active' = "none"
  /\ IF mem_arbit_status = "REQUESTED"
       THEN /\ mem_arbit_status' = "ACQUIRED"
            /\ resume_highest_priority_task_from_ISR
       ELSE /\ IsrEnds(stk, current_prio)
            /\ UNCHANGED <<suspended, mem_arbit_status>>
  /\ UNCHANGED <<event_mask, wait_mask, own_sn, boot, overtaken, hv, irq>>

memory_phase_ended_ISR ==
  /\ active = "ENDED" /\ active' = "none"
  /\ IF mem_arbit_status = "ACQUIRED"
       THEN /\ mem_arbit_status' = "REQUESTED"
            /\ suspend_highest_priority_active_task_from_ISR
       ELSE /\ IsrEnds(stk, current_prio)
            /\ UNCHANGED <<suspended, mem_arbit_status>>
  /\ UNCHANGED <<event_mask, wait_mask, own_sn, boot, overtaken, hv, irq>>

-----------------------------------------------------------------------------
(* The environment. *)

\* No token interrupt is pending or being served.
SgisDone == (irq \cup {active}) \cap TokenIrq = {}

\* gicv2_inject_irq: no second list register for the same id.
inject_irq(i) == irq' = IF i = active THEN irq ELSE irq \cup {i}

Grant ==
  /\ hv = "waiting" /\ hv' = "owner" /\ inject_irq("STARTED")
  /\ overtaken' = (overtaken \/ ~SgisDone)
  /\ UNCHANGED <<queues, tcbs, mem_arbit_status, pc, boot, active>>

Revoke ==
  /\ hv = "owner" /\ hv' = "waiting" /\ inject_irq("ENDED")
  /\ overtaken' = (overtaken \/ ~SgisDone)
  /\ UNCHANGED <<queues, tcbs, mem_arbit_status, pc, boot, active>>

\* The timer interrupt is a hardware one: it does not come again before the
\* guest has completed it.
TimerExpires ==
  /\ armed /\ "TIMER" \notin irq \cup {active}
  /\ inject_irq("TIMER")
  /\ UNCHANGED <<queues, tcbs, mem_arbit_status, pc, boot, overtaken, hv, active>>

TaskStep(t) ==
  \/ WaitEvent(t) \/ WaitEventReturns(t) \/ ClearEvent(t)
  \/ begin_memory_phase(t) \/ end_memory_phase_masks(t) \/ end_memory_phase(t)
  \/ end_execution_phase(t)

CoreStep ==
  \/ ActivateTask \/ StartTimer \/ Acknowledge
  \/ task_activation_isr \/ memory_phase_started_ISR \/ memory_phase_ended_ISR
  \/ \E t \in Task : TaskStep(t)

Next == CoreStep \/ Grant \/ Revoke \/ TimerExpires

Spec == Init /\ [][Next]_vars

\* A pending interrupt is taken, and a task that is the running one
\* again and again makes progress: the timer interrupt is periodic and a
\* memory phase continues where it was interrupted.  The hypervisor gives a
\* waiting core its turn.
Fairness ==
  /\ \A i \in Irq : SF_vars(Acknowledge /\ active' = i)
  /\ WF_vars(task_activation_isr)
  /\ WF_vars(memory_phase_started_ISR) /\ WF_vars(memory_phase_ended_ISR)
  /\ \A t \in Task : SF_vars(TaskStep(t))
  /\ WF_vars(Grant)

FairSpec == Spec /\ Fairness

-----------------------------------------------------------------------------
(* Properties. *)

Positions(s, t) == {i \in DOMAIN s : s[i] = t}
Places(t) == ({"stk"} \X Positions(stk, t)) \cup ({"rq"} \X Positions(rq, t))
             \cup ({"suspended"} \X Positions(suspended, t))
             \cup {w \in {<<"waiting", 0>>} : status[t] = "WAITING"}

(***************************************************************************)
(* Every activated task is in exactly one place: the stack, the ready      *)
(* queue, the DPREM queue, or waiting for its event.  The queues are       *)
(* linked through the one scheduling node of the task (dprem.c:89-150,     *)
(* ee_oo_scheduler.c), so a task in two places corrupts both lists and a   *)
(* task in none never runs again.  An event that is set for a task         *)
(* suspended by DPREM must not release it.                                 *)
(***************************************************************************)
OnePlace ==
  /\ TypeOK
  /\ \A t \in Task : IF pc[t] = "new"
                      THEN Places(t) = {}
                      ELSE \E place \in Places(t) : Places(t) = {place}

(***************************************************************************)
(* While the guest believes it has the token (MEMORY_TOKEN_ACQUIRED), the  *)
(* core runs the task the token is for, with the ceiling priority, and     *)
(* that task is the one an ENDED interrupt suspends.  When the guest waits *)
(* for the token, a task is there to be resumed.  So the messages of       *)
(* dprem.c:323, 347 and 394 are never printed.                             *)
(***************************************************************************)
TokenHasTask ==
  /\ mem_arbit_status = "ACQUIRED" =>
       /\ stk # <<>>
       /\ pc[Head(stk)] \in {"requesting", "mem", "ending"}
       /\ current_prio[Head(stk)] = MAX_TASK_PRIORITY
       /\ Highest(stk) = Head(stk)
  /\ mem_arbit_status = "REQUESTED" => suspended # <<>>

(***************************************************************************)
(* A task only executes its memory phase while the guest has the token:    *)
(* a task at that point of its function that is the running task implies   *)
(* MEMORY_TOKEN_ACQUIRED (dprem.c:397-415, 343-349).                       *)
(***************************************************************************)
MemoryOnlyWithToken ==
  \A t \in Task : Running(t) /\ pc[t] \in {"mem", "ending"}
                    => mem_arbit_status = "ACQUIRED"

(***************************************************************************)
(* No suspended task is forgotten: if DPREM holds a task back while no     *)
(* request of the core is outstanding, then a stacked task is in its       *)
(* execution phase and will release it (dprem.c:467-470), or is about to   *)
(* ask for the token again.                                                *)
(***************************************************************************)
NoForgottenTask ==
  suspended # <<>> /\ mem_arbit_status = "NONE" =>
    \E i \in DOMAIN stk : pc[stk[i]] \in {"exec", "requesting"}

(***************************************************************************)
(* A task goes through its function in order, however often it is          *)
(* preempted, suspended and resumed.  A task that is switched to with the  *)
(* wrong state in its TCB would start afresh (ee_std_change_context.c:65)  *)
(* in the middle of a phase.                                               *)
(***************************************************************************)
Order == {<<"new", "wait">>, <<"wait", "waiting">>, <<"wait", "clear">>,
          <<"waiting", "clear">>, <<"clear", "begin">>,
          <<"begin", "mem">>, <<"begin", "requesting">>,
          <<"requesting", "mem">>, <<"mem", "ending">>, <<"ending", "exec">>,
          <<"exec", "wait">>}

OrderStep == \A t \in Task : pc'[t] # pc[t] => <<pc[t], pc'[t]>> \in Order

PhasesInOrder == [][OrderStep]_vars

(***************************************************************************)
(* A memory phase in progress is left only by its end, or by the loss of   *)
(* the token: no release of another task takes the core away from it       *)
(* (the ceiling priority of dprem.c:415 and 228).                          *)
(***************************************************************************)
PreemptionStep ==
  \A t \in Task :
    Running(t) /\ pc[t] = "mem" /\ pc'[t] = "mem" /\ ~Running(t)'
      => active = "ENDED" /\ mem_arbit_status' = "REQUESTED"

MemoryPhaseNotPreempted == [][PreemptionStep]_vars

(***************************************************************************)
(* A released task gets its memory phase: the task of highest priority     *)
(* that is released reaches DPREM_begin_memory_phase, and if it finds the  *)
(* token taken it is eventually in its memory phase.  This needs moments   *)
(* at which all other tasks wait for their next release, because the end   *)
(* of an execution phase is no preemption point and puts the task it       *)
(* releases below the running one (dprem.c:465, 266), and a suspended      *)
(* memory phase keeps its ceiling and is resumed first; and a hypervisor   *)
(* whose decisions do not overtake its interrupts (see ViewsAgree).        *)
(***************************************************************************)
HighestTask(t) == \A u \in Task : ready_prio[u] <= ready_prio[t]

RequestServed ==
  \A t \in Task : HighestTask(t) =>
    ([]~overtaken /\ []<>(\A u \in Task \ {t} : status[u] = "WAITING")
      => /\ (pc[t] = "requesting") ~> (pc[t] = "mem")
         /\ (event_mask[t] /\ pc[t] = "waiting") ~> (pc[t] = "begin"))

(***************************************************************************)
(* MEMORY_TOKEN_ACQUIRED is "memory access granted" and                    *)
(* MEMORY_TOKEN_REQUESTED "memory access requested but not granted"        *)
(* (ee_kernel_types.h:133-134).  Once every token interrupt has been       *)
(* served, this is also what the hypervisor has on record, as long as no   *)
(* decision has overtaken an interrupt.                                    *)
(***************************************************************************)
ViewsAgree ==
  ~overtaken /\ SgisDone =>
    hv = IF mem_arbit_status = "ACQUIRED" THEN "owner"
         ELSE IF mem_arbit_status = "REQUESTED" THEN "waiting" ELSE "none"

\* What the guest believes of the token is true: of its tasks in each of the
\* three states, of the one in its memory phase, and of the hypervisor.
TokenStatusTrue == TokenHasTask /\ MemoryOnlyWithToken /\ NoForgottenTask /\ ViewsAgree

\* A task goes through its phases in order, and leaves its memory phase only as
\* the memory arbitration wants it to.
PhasesKept == PhasesInOrder /\ MemoryPhaseNotPreempted

(***************************************************************************)
(* With all its tasks and queues the core is one client of the token: the  *)
(* hypervisor sees requests, releases and served interrupts in the order   *)
(* that TokenClient allows.                                                *)
(***************************************************************************)
Client == INSTANCE TokenClient WITH
  irq <- irq \cap TokenIrq,
  active <- IF active \in TokenIrq THEN active ELSE "none"

ImplementsClient == Client!ClientSpec
=============================================================================
