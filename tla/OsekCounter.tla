----------------------------- MODULE OsekCounter -----------------------------
(***************************************************************************)
(* A counter of the Erika kernel with its alarms and schedule tables       *)
(* (ee_oo_counter.c, ee_oo_alarm.c, ee_ar_sched_table.c), in the           *)
(* multi-core build: the core that owns the counter increments it and      *)
(* handles the triggers that expire; it releases its lock for the actions, *)
(* and other cores may then call the services of alarms and tables.        *)
(*                                                                         *)
(* The list of pending triggers is a sequence.  NextScheduleTable, which   *)
(* takes no lock, is called on the owning core only.                       *)
(***************************************************************************)
EXTENDS Integers, Sequences, SequencesExt

CONSTANTS
  Alarm, Table,
  MaxAllowed,        \* maxallowedvalue of the counter
  TickMod,    \* TickType holds 0..TickMod-1
  Offsets,    \* Offsets[s]: the offsets of the expiry points of table s
  Duration, Repeated,
  Cycles,     \* the cycles alarms are set with; 0 is a single shot
  Remote      \* triggers that other cores use

Trigger == Alarm \cup Table

VARIABLES
  value,           \* of the counter
  trigger_queue,
  trigger,         \* control block of a trigger: status and when
  cycle,           \* of an alarm
  st,              \* control block of a schedule table
  core,            \* where the owning core is in osEE_counter_increment
  due,             \* history: ticks until the trigger has to expire
  upset            \* history: conditions the services do not cope with

vars == <<value, trigger_queue, trigger, cycle, st, core, due, upset>>

NONE == "none"
INVALID_POSITION == 0

\* OsEE_trigger_status; the code compares the values.
INACTIVE == 0
CANCELED == 1
ACTIVE == 2
EXPIRED == 3
REENABLED == 4

ASSUME CounterAssumption == MaxAllowed \in Nat \ {0} /\ TickMod \in Nat /\ TickMod > MaxAllowed
ASSUME TriggerAssumption == Alarm \cap Table = {} /\ NONE \notin Trigger /\ Remote \subseteq Trigger

Idle == [pc |-> "idle", chain |-> <<>>, cur |-> NONE]

Init ==
  /\ value = 0
  /\ trigger_queue = <<>>
  /\ trigger = [t \in Trigger |-> [status |-> INACTIVE, when |-> 0]]
  /\ cycle = [a \in Alarm |-> 0]
  /\ st = [s \in Table |-> [st_status |-> "stopped", position |-> 1, start |-> 0, next |-> NONE]]
  /\ core = Idle
  /\ due = [t \in Trigger |-> 0]
  /\ upset = {}

-----------------------------------------------------------------------------
(* Ticks and the queue.  Faulty variants carry a suffix that names the     *)
(* fault; no specification uses them.                                      *)

TickType(x) == x % TickMod

\* osEE_counter_eval_when
eval_when(delta) ==
  IF TickType(MaxAllowed - delta) >= value THEN TickType(value + delta)
                                    ELSE TickType(delta - (MaxAllowed - value) - 1)

\* osEE_counter_eval_delta
eval_delta(when) == IF when > value THEN when - value ELSE (MaxAllowed - value) + when + 1

Behind_one_loop(when, c) == when >= trigger[c].when
\* The new trigger comes after trigger c of the queue.
Behind(when, c) ==
  LET current_when == trigger[c].when IN
    IF current_when > value THEN when >= current_when \/ when <= value
                            ELSE when <= value /\ when >= current_when

\* osEE_counter_insert_abs_trigger
Inserted(t, when) ==
  LET stop == SelectInSeq(trigger_queue, LAMBDA c : ~Behind(when, c))
  IN IF stop = 0 THEN Append(trigger_queue, t) ELSE InsertAt(trigger_queue, stop, t)

\* Insertion of a trigger that has to expire after the given ticks.
Insert(t, when, ticks) ==
  /\ trigger_queue' = Inserted(t, when)
  /\ due' = [due EXCEPT ![t] = ticks]
  /\ upset' = upset \cup (IF core.pc = "expire" THEN {"race"} ELSE {})
                    \cup (IF when > MaxAllowed \/ ticks > MaxAllowed + 1 THEN {"range"} ELSE {})

Armed(when) == [status |-> ACTIVE, when |-> when]

-----------------------------------------------------------------------------
(* The services. *)

\* Other cores call at any time the lock is free, the owning core between
\* increments.
MayCall(t) == core.pc = "idle" \/ t \in Remote

\* osEE_alarm_set_rel and osEE_alarm_set_abs for the tick they determine.
SetAlarm(a, when, ticks, c) ==
  /\ MayCall(a)
  /\ trigger[a].status <= CANCELED
  /\ cycle' = [cycle EXCEPT ![a] = c]
  /\ IF trigger[a].status = CANCELED
       THEN /\ trigger' = [trigger EXCEPT ![a] = [status |-> REENABLED, when |-> when]]
            /\ UNCHANGED <<trigger_queue, due, upset>>
       ELSE /\ trigger' = [trigger EXCEPT ![a] = Armed(when)]
            /\ Insert(a, when, ticks)
  /\ UNCHANGED <<value, st, core>>

SetRelAlarm(a, increment, c) == SetAlarm(a, eval_when(increment), increment, c)
SetAbsAlarm(a, start, c) == SetAlarm(a, start, eval_delta(start), c)

\* The status after a cancellation: one that is being handled is marked.
Canceled(t) == IF trigger[t].status >= EXPIRED THEN CANCELED ELSE INACTIVE

Removed_kept(t) == trigger_queue
\* osEE_counter_cancel_trigger
Removed(t) == SelectSeq(trigger_queue, LAMBDA c : c # t)

\* What osEE_alarm_cancel and osEE_st_stop have in common.
Cancel(t) ==
  /\ MayCall(t)
  /\ trigger[t].status > CANCELED
  /\ trigger' = [trigger EXCEPT ![t].status = Canceled(t)]
  /\ trigger_queue' = IF trigger[t].status >= EXPIRED THEN trigger_queue ELSE Removed(t)
  /\ upset' = IF Canceled(t) = CANCELED THEN upset \cup {"canceled"} ELSE upset
  /\ due' = [due EXCEPT ![t] = 0]
  /\ UNCHANGED <<value, cycle, core>>

CancelAlarm(a) == Cancel(a) /\ UNCHANGED st

\* osEE_st_start_rel and osEE_st_start_abs; first is the tick of the first
\* expiry point.
StartTable(s, start, first, ticks) ==
  /\ MayCall(s)
  /\ st[s].st_status = "stopped" /\ trigger[s].status <= CANCELED
  /\ st' = [st EXCEPT ![s] = [st_status |-> "running", position |-> 1,
                              start |-> start, next |-> NONE]]
  /\ IF trigger[s].status = CANCELED
       THEN /\ trigger' = [trigger EXCEPT ![s] = [status |-> REENABLED, when |-> start]]
            /\ UNCHANGED <<trigger_queue, due, upset>>
       ELSE /\ trigger' = [trigger EXCEPT ![s] = Armed(first)]
            /\ Insert(s, first, ticks)
  /\ UNCHANGED <<value, cycle, core>>

StartScheduleTableRel(s, offset) ==
  LET delta == offset + Offsets[s][1] IN
    StartTable(s, eval_when(offset), eval_when(TickType(delta)), delta)
StartScheduleTableAbs(s, start) ==
  LET first == TickType(start + Offsets[s][1]) IN
    StartTable(s, start, first, eval_delta(first))

Stopped_next_kept(s) == [st EXCEPT ![s].st_status = "stopped"]
\* A table that waits for the end of s is stopped too.
Stopped(s) ==
  [u \in Table |-> IF u = s \/ u = st[s].next THEN [st[u] EXCEPT !.st_status = "stopped"]
                                              ELSE st[u]]

StopScheduleTable(s) == Cancel(s) /\ st' = Stopped(s)

NextScheduleTable(s, u) ==
  /\ core.pc = "idle"
  /\ st[s].st_status = "running" /\ st[u].st_status = "stopped"
  /\ st' = [v \in Table |-> CASE v = s -> [st[s] EXCEPT !.next = u]
                              [] v = u -> [st[u] EXCEPT !.st_status = "next"]
                              [] v = st[s].next /\ v # u -> [st[v] EXCEPT !.st_status = "stopped"]
                              [] OTHER -> st[v]]
  /\ upset' = IF st[u].next # NONE THEN upset \cup {"stale"} ELSE upset
  /\ UNCHANGED <<value, trigger_queue, trigger, cycle, core, due>>

-----------------------------------------------------------------------------
(* osEE_counter_increment: the owning core counts outside its lock, takes  *)
(* the expired triggers off the queue, and handles them one by one.        *)

\* What the core does after a trigger: the next one of the list.
Proceed(chain) ==
  core' = IF chain = <<>> THEN Idle
          ELSE [pc |-> IF Head(chain) \in Alarm THEN "alarm" ELSE "point",
                chain |-> Tail(chain), cur |-> Head(chain)]

Wrapped == IF value >= MaxAllowed THEN 0 ELSE value + 1

Increment ==
  /\ core.pc = "idle"
  /\ value' = Wrapped
  /\ core' = [core EXCEPT !.pc = "expire"]
  /\ due' = [t \in Trigger |-> IF trigger[t].status = ACTIVE /\ due[t] >= 0
                               THEN due[t] - 1 ELSE due[t]]
  /\ UNCHANGED <<trigger_queue, trigger, cycle, st, upset>>

\* How many triggers at the front of the queue expire now.
Triggered ==
  LET later == SelectInSeq(trigger_queue, LAMBDA c : trigger[c].when # value)
  IN IF later = 0 THEN Len(trigger_queue) ELSE later - 1

Expire ==
  LET chain == SubSeq(trigger_queue, 1, Triggered) IN
  /\ core.pc = "expire"
  /\ trigger' = [t \in Trigger |-> IF t \in Range(chain) THEN [trigger[t] EXCEPT !.status = EXPIRED]
                                                        ELSE trigger[t]]
  /\ trigger_queue' = SubSeq(trigger_queue, Triggered + 1, Len(trigger_queue))
  /\ Proceed(chain)
  /\ UNCHANGED <<value, cycle, st, due, upset>>

StillExpired_unchecked(t) == TRUE
\* The test after an action: no service has touched the trigger meanwhile.
StillExpired(t) == trigger[t].status = EXPIRED

\* osEE_counter_handle_alarm, after the action of the alarm.
HandleAlarm ==
  LET a == core.cur IN
  /\ core.pc = "alarm"
  /\ CASE ~StillExpired(a) -> UNCHANGED <<trigger_queue, trigger, due, upset>>
       [] StillExpired(a) /\ cycle[a] > 0 ->
            /\ trigger' = [trigger EXCEPT ![a] = Armed(eval_when(cycle[a]))]
            /\ Insert(a, eval_when(cycle[a]), cycle[a])
       [] OTHER -> /\ trigger' = [trigger EXCEPT ![a].status = INACTIVE]
                   /\ UNCHANGED <<trigger_queue, due, upset>>
  /\ Proceed(core.chain)
  /\ UNCHANGED <<value, cycle, st>>

\* The end of an iteration over table s: the trigger is inserted if the next
\* point is some ticks away, and otherwise the core goes on with the table.
Reinsert(base, s, start, ticks, offset) ==
  IF ticks > 0
    THEN /\ trigger' = [base EXCEPT ![s] = Armed(TickType(start + offset))]
         /\ Insert(s, TickType(start + offset), ticks)
         /\ Proceed(core.chain)
    ELSE /\ trigger' = base
         /\ core' = [core EXCEPT !.pc = "point", !.cur = s]
         /\ UNCHANGED <<trigger_queue, due>>
         /\ upset' = IF base[s].status # EXPIRED THEN upset \cup {"zero"} ELSE upset

\* osEE_counter_handle_st_expiry_point up to the actions of the point.
StopHandling ==
  /\ core.pc = "point" /\ ~StillExpired(core.cur)
  /\ Proceed(core.chain)
  /\ UNCHANGED <<value, trigger_queue, trigger, cycle, st, due, upset>>

ExpiryPoint ==
  /\ core.pc = "point" /\ StillExpired(core.cur)
  /\ st[core.cur].position # INVALID_POSITION
  /\ core' = [core EXCEPT !.pc = "acted"]
  /\ UNCHANGED <<value, trigger_queue, trigger, cycle, st, due, upset>>

Restarted(s) == [st[s] EXCEPT !.st_status = "running", !.position = 1, !.start = value]

NextTable_repeats(s) == IF s \in Repeated THEN NONE ELSE st[s].next
NextTable(s) == st[s].next

\* After the final delay the table gives way to the next one...
TakeOver ==
  LET s == core.cur
      u == NextTable(s) IN
  /\ core.pc = "point" /\ StillExpired(s)
  /\ st[s].position = INVALID_POSITION /\ u # NONE
  /\ st' = [st EXCEPT ![s].st_status = "stopped", ![u] = Restarted(u)]
  /\ Reinsert([trigger EXCEPT ![s].status = INACTIVE], u, value, Offsets[u][1], Offsets[u][1])
  /\ UNCHANGED <<value, cycle>>

\* ... or starts again.
Repeat ==
  LET s == core.cur IN
  /\ core.pc = "point" /\ StillExpired(s)
  /\ st[s].position = INVALID_POSITION /\ NextTable(s) = NONE
  /\ st' = [st EXCEPT ![s] = Restarted(s)]
  /\ Reinsert(trigger, s, value, Offsets[s][1], Offsets[s][1])
  /\ UNCHANGED <<value, cycle>>

IsLast(s) == st[s].position = Len(Offsets[s])
Ends(s) == IsLast(s) /\ st[s].next = NONE /\ s \notin Repeated

\* The part after the actions.
PointCanceled ==
  /\ core.pc = "acted" /\ ~StillExpired(core.cur)
  /\ Proceed(core.chain)
  /\ UNCHANGED <<value, trigger_queue, trigger, cycle, st, due, upset>>

LastPoint ==
  LET s == core.cur IN
  /\ core.pc = "acted" /\ StillExpired(s) /\ Ends(s)
  /\ st' = [st EXCEPT ![s].st_status = "stopped"]
  /\ trigger' = [trigger EXCEPT ![s].status = INACTIVE]
  /\ Proceed(core.chain)
  /\ UNCHANGED <<value, trigger_queue, cycle, due, upset>>

NextPoint ==
  LET s == core.cur
      position == IF IsLast(s) THEN INVALID_POSITION ELSE st[s].position + 1
      offset == IF IsLast(s) THEN Duration[s] ELSE Offsets[s][position] IN
  /\ core.pc = "acted" /\ StillExpired(s) /\ ~Ends(s)
  /\ st' = [st EXCEPT ![s].position = position]
  /\ Reinsert(trigger, s, st[s].start, offset - Offsets[s][st[s].position], offset)
  /\ UNCHANGED <<value, cycle>>

Service ==
  \/ \E a \in Alarm, c \in Cycles :
       \/ \E increment \in 1 .. MaxAllowed : SetRelAlarm(a, increment, c)
       \/ \E start \in 0 .. MaxAllowed : SetAbsAlarm(a, start, c)
  \/ \E a \in Alarm : CancelAlarm(a)
  \/ \E s \in Table :
       \/ \E offset \in 1 .. MaxAllowed : StartScheduleTableRel(s, offset)
       \/ \E start \in 0 .. MaxAllowed : StartScheduleTableAbs(s, start)
       \/ StopScheduleTable(s)
       \/ \E u \in Table : NextScheduleTable(s, u)

CounterStep ==
  \/ Increment \/ Expire \/ HandleAlarm
  \/ StopHandling \/ ExpiryPoint \/ TakeOver \/ Repeat
  \/ PointCanceled \/ LastPoint \/ NextPoint

Next == Service \/ CounterStep

Spec == Init /\ [][Next]_vars

\* The timer interrupt that increments the counter goes on, and its handler
\* runs to its end.
FairSpec == Spec /\ WF_vars(CounterStep)

\* From then on the lists of the code may share triggers.
Exact == "stale" \notin upset

-----------------------------------------------------------------------------
(* Properties.  Each names the conditions the code does not cope with:     *)
(*   "race"      a trigger inserted between the increment and the lock     *)
(*   "range"     a tick the counter does not reach within one loop         *)
(*   "canceled"  a trigger canceled while the core handles it              *)
(*   "zero"      a next table whose first point has offset zero            *)
(*   "stale"     a next table that still names a next table of its own     *)

\* The value stays in the range of the counter, and the control blocks hold
\* what their types allow.
TypeOK ==
  /\ value \in 0 .. MaxAllowed
  /\ trigger_queue \in Seq(Trigger)
  /\ trigger \in [Trigger -> [status : INACTIVE .. REENABLED, when : 0 .. TickMod - 1]]
  /\ cycle \in [Alarm -> Cycles \cup {0}]
  /\ \A s \in Table : st[s] \in [st_status : {"stopped", "next", "running"},
                               position : 0 .. Len(Offsets[s]),
                               start : 0 .. MaxAllowed, next : Table \cup {NONE}]
  /\ core \in [pc : {"idle", "expire", "alarm", "point", "acted"},
              chain : Seq(Trigger), cur : Trigger \cup {NONE}]
  /\ due \in [Trigger -> Int]
  /\ upset \subseteq {"race", "range", "canceled", "zero", "stale"}

\* The queue of a counter holds exactly the active triggers, each once, and a
\* trigger the core is going to handle is not in it: services that arm, cancel
\* or re-arm a trigger while its action runs never lose or double it.
QueueHoldsActive ==
  /\ TypeOK
  /\ Exact =>
       /\ \A i, j \in DOMAIN trigger_queue : trigger_queue[i] = trigger_queue[j] => i = j
       /\ \A t \in Trigger : t \in Range(trigger_queue) <=> trigger[t].status = ACTIVE

\* A trigger expires exactly when the ticks it was set for have passed, over
\* the wrap of the counter and whatever was inserted or canceled meanwhile: no
\* active trigger is overdue, and one that is handled is due now.
ExpiresOnTime ==
  upset \cap {"race", "range", "stale"} = {} =>
    \A t \in Trigger :
      /\ trigger[t].status = ACTIVE => due[t] >= (IF core.pc = "expire" THEN 0 ELSE 1)
      /\ trigger[t].status = EXPIRED => due[t] = 0

\* The actions of an expiry point run when the counter is at the start of the
\* table plus the offset of the point, in every round of a repeating table and
\* after a take-over.
PointsOnTime ==
  upset \cap {"race", "range", "stale"} = {} /\ core.pc = "acted" /\ StillExpired(core.cur) =>
    LET s == core.cur IN
      value = (st[s].start + Offsets[s][st[s].position]) % (MaxAllowed + 1)

\* Triggers and the points of tables come when they should.
OnTime == ExpiresOnTime /\ PointsOnTime

\* Between increments a table has an active trigger exactly when it runs: no
\* running table is forgotten, and a stopped or waiting one has no point left.
RunningIsArmed ==
  upset \cap {"canceled", "zero", "stale"} = {} /\ core.pc = "idle" =>
    \A s \in Table : st[s].st_status = "running" <=> trigger[s].status = ACTIVE

\* A table waits as next only while exactly one running table names it: when
\* that one is stopped or is given another next table, it no longer waits.
NextHasPredecessor ==
  Exact => \A u \in Table : st[u].st_status = "next" =>
    \E s \in Table : {v \in Table : st[v].st_status = "running" /\ st[v].next = u} = {s}

\* What the tables say of themselves and of each other is true.
TablesInStep == RunningIsArmed /\ NextHasPredecessor

\* Once canceled while its action runs, a trigger is not armed again by the
\* core that handles it: only a service or a take-over asked for starts it.
CancelIsKept ==
  [][\A t \in Trigger : trigger[t].status = CANCELED =>
       \/ trigger'[t].status \in {CANCELED, REENABLED}
       \/ t \in Table /\ st[t].st_status = "next"]_vars

\* A table that waits as next eventually takes over, or is stopped with the
\* table it waits for.
NextStarts ==
  \A u \in Table : (upset = {} /\ st[u].st_status = "next")
                      ~> (upset # {} \/ st[u].st_status # "next")

\* ee_kernel_types.h on a canceled trigger: "At the end of the notification
\* handling the status will be set back to OSEE_TRIGGER_INACTIVE", and on a
\* re-enabled one that it "will be set to OSEE_TRIGGER_ACTIVE with the new start
\* time".  The code does neither.
TriggersAreResolved ==
  core.pc = "idle" => \A t \in Trigger : trigger[t].status \notin {CANCELED, REENABLED}
=============================================================================
