----------------------------- MODULE TaskRelease -----------------------------
(***************************************************************************)
(* The periodic release of the application tasks and their deadline        *)
(* bookkeeping (main.c).  ErikaCore lets the activation ISR release any    *)
(* set of tasks; this module says which, and what is recorded.  In return  *)
(* it lets the steps of the jobs interleave in any way.                    *)
(*                                                                         *)
(* Points in time are kept relative to the present: next and expiry are    *)
(* the ticks that remain to an activation and to the timer interrupt, and  *)
(* negative once they are overdue; since_release and since_start are the   *)
(* ticks since task_release_ticks and release_ts were taken, counted up to *)
(* MaxAge.  A countdown that is started with a negative value expires at   *)
(* once.                                                                   *)
(***************************************************************************)
EXTENDS Integers, FiniteSets, FiniteSetsExt

CONSTANTS
  Task,
  period,     \* task_activation_period_ticks of each task
  MaxLate,    \* bound on how long the activation interrupt is kept waiting
  MaxMissed,  \* bound on task_deadlines_missed
  MaxAge

ASSUME ReleaseAssumption ==
  /\ IsFiniteSet(Task) /\ Task # {}
  /\ period \in [Task -> Nat \ {0}]
  /\ MaxLate \in Nat /\ MaxMissed \in Nat \ {0} /\ MaxAge \in Nat

VARIABLES
  next, expiry,
  finished, deadlines_missed,  \* task_finished, task_deadlines_missed
  since_release, since_start,
  event,                       \* the release event of the task is set
  pc                           \* where the task is in its loop

books == <<finished, deadlines_missed, since_release>>
job == <<event, pc, since_start>>
release_vars == <<next, expiry, books, job>>

get_next_timer_ticks(n) == Min({n[t] : t \in Task})

ReleaseInit ==
  /\ next = period
  /\ expiry = get_next_timer_ticks(period)
  /\ finished = [t \in Task |-> TRUE]
  /\ deadlines_missed = [t \in Task |-> 0]
  /\ since_release = [t \in Task |-> MaxAge]
  /\ since_start = [t \in Task |-> MaxAge]
  /\ event = [t \in Task |-> FALSE]
  /\ pc = [t \in Task |-> "waiting"]

\* Interrupts are masked in execution phases.
Masked == \E t \in Task : pc[t] = "execution"

Due == {t \in Task : next[t] <= 0}

update_activation_ticks ==
  next' = [t \in Task |-> IF t \in Due THEN next[t] + period[t] ELSE next[t]]

\* Faulty: the timer is always restarted for a whole period.
RestartTimer_relative == expiry' = get_next_timer_ticks(period)

RestartTimer == expiry' = get_next_timer_ticks(next')

\* Faulty: a release does not mark the job as unfinished.
CheckDeadlines_finished_kept ==
  /\ deadlines_missed' = [t \in Task |->
       IF t \notin Due THEN deadlines_missed[t]
       ELSE IF finished[t] THEN 0 ELSE deadlines_missed[t] + 1]
  /\ since_release' = [t \in Task |-> IF t \in Due /\ finished[t]
                                        THEN 0 ELSE since_release[t]]
  /\ UNCHANGED finished

\* A job that is still unfinished at its successor's release has missed its
\* deadline; otherwise the successor's bookkeeping starts.
CheckDeadlines ==
  /\ deadlines_missed' = [t \in Task |->
       IF t \notin Due THEN deadlines_missed[t]
       ELSE IF finished[t] THEN 0 ELSE deadlines_missed[t] + 1]
  /\ finished' = [t \in Task |-> finished[t] /\ t \notin Due]
  /\ since_release' = [t \in Task |-> IF t \in Due /\ finished[t]
                                        THEN 0 ELSE since_release[t]]

task_activation_isr ==
  /\ expiry <= 0 /\ ~Masked
  /\ \A t \in Due : finished[t] \/ deadlines_missed[t] < MaxMissed
  /\ update_activation_ticks
  /\ CheckDeadlines
  /\ event' = [t \in Task |-> event[t] \/ t \in Due]
  /\ RestartTimer
  /\ UNCHANGED <<pc, since_start>>

-----------------------------------------------------------------------------
(* The loop of application_task1_func and application_task2_func. *)

MovesTo(t, from, to) == pc[t] = from /\ pc' = [pc EXCEPT ![t] = to]

WaitEvent(t) ==
  /\ event[t] /\ MovesTo(t, "waiting", "released")
  /\ UNCHANGED <<next, expiry, books, event, since_start>>

ClearEvent(t) ==
  /\ MovesTo(t, "released", "cleared")
  /\ event' = [event EXCEPT ![t] = FALSE]
  /\ UNCHANGED <<next, expiry, books, since_start>>

\* release_ts is taken at the call, before the task waits for the token.
begin_memory_phase(t) ==
  /\ MovesTo(t, "cleared", "blocked")
  /\ since_start' = [since_start EXCEPT ![t] = 0]
  /\ UNCHANGED <<next, expiry, books, event>>

\* Faulty: the job goes to its execution phase without its data.
begin_memory_phase_skips(t) ==
  /\ ~Masked /\ MovesTo(t, "blocked", "execution")
  /\ UNCHANGED <<next, expiry, books, event, since_start>>

begin_memory_phase_returns(t) ==
  /\ MovesTo(t, "blocked", "memory")
  /\ UNCHANGED <<next, expiry, books, event, since_start>>

end_memory_phase(t) ==
  /\ ~Masked /\ MovesTo(t, "memory", "execution")
  /\ UNCHANGED <<next, expiry, books, event, since_start>>

\* Faulty: the job does not report that it is done.
end_execution_phase_unreported(t) ==
  /\ MovesTo(t, "execution", "waiting")
  /\ UNCHANGED <<next, expiry, books, event, since_start>>

\* The job reports its end and the response time, which are the last things
\* it does in its execution phase.
end_execution_phase(t) ==
  /\ MovesTo(t, "execution", "waiting")
  /\ finished' = [finished EXCEPT ![t] = TRUE]
  /\ UNCHANGED <<next, expiry, deadlines_missed, since_release, event,
                 since_start>>

Job(t) == \/ WaitEvent(t) \/ ClearEvent(t) \/ begin_memory_phase(t)
          \/ begin_memory_phase_returns(t)
          \/ end_memory_phase(t) \/ end_execution_phase(t)

Older(age) == [t \in Task |-> Min({age[t] + 1, MaxAge})]

TimePasses ==
  /\ \A t \in Task : next[t] > -MaxLate
  /\ next' = [t \in Task |-> next[t] - 1]
  /\ expiry' = expiry - 1
  /\ since_release' = Older(since_release)
  /\ since_start' = Older(since_start)
  /\ UNCHANGED <<finished, deadlines_missed, event, pc>>

ReleaseNext == TimePasses \/ task_activation_isr \/ \E t \in Task : Job(t)

ReleaseSpec == ReleaseInit /\ [][ReleaseNext]_release_vars

\* Time passes, the pending timer interrupt is taken when an execution phase
\* ends, and jobs make progress.
FairReleaseSpec ==
  /\ ReleaseSpec
  /\ WF_release_vars(TimePasses) /\ SF_release_vars(task_activation_isr)
  /\ \A t \in Task : SF_release_vars(Job(t))

-----------------------------------------------------------------------------
\* The types of the variables; the ages are bounded by MaxAge.
ReleaseTypeOK ==
  /\ next \in [Task -> Int] /\ expiry \in Int
  /\ \A t \in Task : next[t] \in (-MaxLate)..period[t]
  /\ finished \in [Task -> BOOLEAN]
  /\ deadlines_missed \in [Task -> 0..MaxMissed]
  /\ since_release \in [Task -> 0..MaxAge]
  /\ since_start \in [Task -> 0..MaxAge]
  /\ event \in [Task -> BOOLEAN]
  /\ pc \in [Task -> {"waiting", "released", "cleared", "blocked", "memory",
                      "execution"}]

Unfinished(t) == event[t] \/ pc[t] # "waiting"

NoMiss == \A t \in Task : deadlines_missed[t] = 0

JobsWatched ==
  \A t \in Task :
    /\ pc[t] \in {"blocked", "memory", "execution"}
         => since_release[t] >= since_start[t]
    /\ Unfinished(t) => ~finished[t]

(***************************************************************************)
(* The timer never sleeps past an activation: it expires when the next     *)
(* task of main.c:71-78 is due, also after activations were served late.   *)
(***************************************************************************)
TimerForNextActivation ==
  ReleaseTypeOK /\ \A t \in Task : expiry <= next[t]

(***************************************************************************)
(* No false alarm: task_finished is false only while a job is released or  *)
(* under way, so each deadline miss counted in the ISR is a real one.      *)
(***************************************************************************)
MissesAreReal == \A t \in Task : ~finished[t] => Unfinished(t)

(***************************************************************************)
(* As long as no deadline is missed, task_release_ticks is the release of  *)
(* the job under way: the block time release_ts - task_release_ticks of    *)
(* main.c:158 does not wrap, and no job runs without being watched.        *)
(***************************************************************************)
ResponseTimesMeaningful == []NoMiss => []JobsWatched

(***************************************************************************)
(* Every release is answered: a task whose event is set comes to its       *)
(* memory phase.                                                           *)
(***************************************************************************)
ReleasedTaskRuns == \A t \in Task : event[t] ~> (pc[t] = "memory")

(***************************************************************************)
(* "check if deadline was missed" (main.c:95): a task that is released     *)
(* before its previous job is done has missed a deadline, and is seen to.  *)
(***************************************************************************)
EveryMissIsCounted ==
  [][\A t \in Task : task_activation_isr /\ t \in Due /\ Unfinished(t)
                       => deadlines_missed'[t] > 0]_release_vars
=============================================================================
