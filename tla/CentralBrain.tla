----------------------------- MODULE CentralBrain ----------------------------
(***************************************************************************)
(* core/central_brain: coordinator.py keeps the pending queue of tasks,    *)
(* scheduler.py the schedules tick() fires. Every handler runs to its end  *)
(* (no await inside); results and failures are reported by callers, late,  *)
(* early and more than once.                                               *)
(***************************************************************************)
EXTENDS Integers, Sequences, SequencesExt, FiniteSets

CONSTANTS
    Agents, NoAgent,
    Priorities,        \* numbers; the greater the more urgent
    RetryAttempts,     \* CoordinatorConfig.retry_attempts
    MaxTasks,          \* bound of the model
    Policies,          \* [type, arg]: arg is delay_sec, interval_sec or scheduled_at
    MaxSchedules, MaxTime   \* bounds of the model

ASSUME BrainAssumption ==
    /\ NoAgent \notin Agents /\ Priorities \subseteq Int
    /\ RetryAttempts \in Nat /\ MaxTasks \in Nat
    /\ Policies \subseteq [type : {"immediate", "delayed", "interval", "cron", "once"}, arg : Int]

VARIABLES
    tasks,         \* _tasks, in order: [status, priority, retries]
    pending,       \* _pending_queue, task numbers
    running,       \* _running_tasks, task -> agent or NoAgent
    schedules,     \* _schedules by number: [policy, enabled, next, last], or a cancelled one
    now

vars == <<tasks, pending, running, schedules, now>>
taskVars == <<tasks, pending, running>>
scheduleVars == <<schedules, now>>

Task == 1 .. Len(tasks)

Init ==
    /\ tasks = <<>> /\ pending = <<>>
    /\ running = [t \in 1 .. MaxTasks |-> NoAgent]
    /\ schedules = <<>> /\ now = 1

(* ------------------------------ coordinator ---------------------------- *)
(* Mutant: the new task also goes in front of the tasks of its priority. *)
PlacesAmongEquals(p) == {i \in DOMAIN pending : tasks[pending[i]].priority <= p}

(* submit_task's loop: the entries of a lower priority *)
Places(p) == {i \in DOMAIN pending : tasks[pending[i]].priority < p}

SubmitTask(p) ==
    /\ Len(tasks) < MaxTasks
    /\ LET t == Len(tasks) + 1
           first == CHOOSE i \in Places(p) : \A j \in Places(p) : i <= j
       IN /\ tasks' = Append(tasks, [status |-> "pending", priority |-> p, retries |-> 0])
          /\ pending' = InsertAt(pending, IF Places(p) = {} THEN Len(pending) + 1 ELSE first, t)
    /\ UNCHANGED <<running, scheduleVars>>

(* any known task is dispatched, whatever its status; only the first of    *)
(* its entries leaves the queue                                            *)
DispatchTask(t, a) ==
    /\ tasks' = [tasks EXCEPT ![t].status = "running"]
    /\ pending' = RemoveFirst(pending, t)
    /\ running' = [running EXCEPT ![t] = a]
    /\ UNCHANGED scheduleVars

Settle(t, status) ==
    /\ tasks' = [tasks EXCEPT ![t].status = status]
    /\ running' = [running EXCEPT ![t] = NoAgent]
    /\ UNCHANGED <<pending, scheduleVars>>

(* the queue is left alone: a task that was queued again stays there *)
CompleteTask(t) == Settle(t, "completed")

FailTask(t) ==
    \/ /\ tasks[t].retries < RetryAttempts
       /\ tasks' = [tasks EXCEPT ![t].retries = @ + 1, ![t].status = "pending"]
       /\ pending' = Append(pending, t)
       /\ running' = [running EXCEPT ![t] = NoAgent]
       /\ UNCHANGED scheduleVars
    \/ tasks[t].retries >= RetryAttempts /\ Settle(t, "failed")

Coordinate ==
    \/ \E p \in Priorities : SubmitTask(p)
    \/ \E t \in Task : CompleteTask(t) \/ FailTask(t) \/ \E a \in Agents : DispatchTask(t, a)

(* ------------------------------- schedules ----------------------------- *)
CronStep == 3600   \* _parse_cron does not read the expression

(* Mutant: counted from the time the fire was due, not from the tick. *)
NextFromDue(policy, due, base) ==
    CASE policy.type = "immediate" -> base
      [] policy.type = "cron"      -> due + CronStep
      [] policy.type = "once"      -> policy.arg
      [] OTHER                     -> due + policy.arg

(* _calculate_next_fire; due is not used. A "once" is due again for ever. *)
NextFire(policy, due, base) ==
    CASE policy.type = "immediate" -> base
      [] policy.type = "cron"      -> base + CronStep
      [] policy.type = "once"      -> policy.arg
      [] OTHER                     -> base + policy.arg      \* delayed, interval

CreateSchedule(policy) ==
    /\ Len(schedules) < MaxSchedules
    /\ schedules' = Append(schedules, [policy |-> policy, enabled |-> TRUE, live |-> TRUE,
                                       next |-> NextFire(policy, now, now), last |-> 0])
    /\ UNCHANGED <<now, taskVars>>

CancelSchedule(s) ==
    /\ schedules[s].live
    /\ schedules' = [schedules EXCEPT ![s].live = FALSE]
    /\ UNCHANGED <<now, taskVars>>

EnableSchedule(s, enabled) ==
    /\ schedules[s].live
    /\ schedules' = [schedules EXCEPT ![s].enabled = enabled]
    /\ UNCHANGED <<now, taskVars>>

Due(s) == schedules[s].live /\ schedules[s].enabled /\ schedules[s].next <= now

(* by execute("tick"), and by every health_check() *)
Tick ==
    /\ schedules' = [s \in DOMAIN schedules |->
           IF Due(s)
           THEN [schedules[s] EXCEPT !.last = now, !.next = NextFire(schedules[s].policy, @, now)]
           ELSE schedules[s]]
    /\ UNCHANGED <<now, taskVars>>

TimePasses ==
    /\ now < MaxTime /\ now' = now + 1
    /\ UNCHANGED <<schedules, taskVars>>

Schedule ==
    \/ \E p \in Policies : CreateSchedule(p)
    \/ \E s \in DOMAIN schedules : CancelSchedule(s) \/ \E e \in BOOLEAN : EnableSchedule(s, e)
    \/ Tick \/ TimePasses

Next == Coordinate \/ Schedule

TypeOK ==
    /\ \A t \in Task : /\ tasks[t].status \in {"pending", "running", "completed", "failed"}
                       /\ tasks[t].retries \in 0 .. RetryAttempts
                       /\ tasks[t].priority \in Priorities
    /\ ToSet(pending) \subseteq Task
    /\ \A t \in Task : tasks[t].status = "running" <=> running[t] \in Agents

(* A task waits behind a less urgent one, or behind a later one of its own *)
(* priority, only if it failed before and was put at the end again:        *)
(* submissions, dispatches out of turn and late reports keep that order.   *)
UrgentFirst ==
    \A i, j \in DOMAIN pending :
        LET ahead == pending[i]  behind == pending[j] IN
        i < j /\ ahead # behind =>
            \/ tasks[behind].retries > 0
            \/ tasks[ahead].priority > tasks[behind].priority
            \/ tasks[ahead].priority = tasks[behind].priority /\ (ahead < behind \/ tasks[ahead].retries > 0)

(* Two fires of an interval, delayed or cron schedule are a whole period   *)
(* apart, however late the ticks come and whatever was disabled meanwhile. *)
FiresSpaced ==
    \A s \in DOMAIN schedules :
        LET p == schedules[s].policy
            period == IF p.type = "cron" THEN CronStep ELSE p.arg
        IN p.type \notin {"immediate", "once"} /\ schedules[s].last > 0
              /\ schedules'[s].last # schedules[s].last
           => schedules'[s].last - schedules[s].last >= period
=============================================================================
