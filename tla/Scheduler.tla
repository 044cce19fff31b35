------------------------------ MODULE Scheduler -----------------------------
(***************************************************************************)
(* The scheduler service: ScheduleEngine.compute (core/scheduler/engine.py)*)
(* and ScheduleOnlyScheduler.tick (core/scheduler/service.py) over the     *)
(* tables schedules, runs and schedule_triggers, with the BFF's endpoints  *)
(* that create and patch schedules.  Time is the wall clock in ticks; a    *)
(* day has DayLength of them.  A run id is made of the schedule and the    *)
(* time it was due, so a pair <<schedule, time>> stands for it.            *)
(***************************************************************************)
EXTENDS Integers, FiniteSets

CONSTANTS
    Schedules,      \* schedule ids
    Policies,       \* policy_json values that pass schedule_policy_validate
    PolicyOf,       \* PolicyOf[s]: the policy a schedule is created with
    Handlers,       \* request threads of the BFF
    DayLength,      \* one day
    Hour,           \* what a window gets that ends before it starts
    MaxDue,         \* max_due of tick() (100 in the code)
    MaxTime,        \* bound: the clock
    MaxCount,       \* bound: how far runs and triggers are counted
    MaxPatches,     \* bound: PATCH requests
    MaxCrashes      \* bound: crashes of the scheduler

AtPolicy == [type : {"at"}, at : Nat \ {0}]
IntervalPolicy == [type : {"interval"}, every : Nat \ {0}, jitter : Nat]
WindowPolicy == [type : {"window"}, daily : BOOLEAN, start : Nat, end : Nat,
                 interval : Nat \ {0}]

\* Accepted too: times that do not parse, and times that do but are none (25:00),
\* or a jitter that is not a number; for the latter compute raises.
UnreadablePolicy == [type : {"unreadable"}]
RaisingPolicy == [type : {"raising"}]

\* The bounds of a daily window that compute can evaluate.
WithinTheDay(p) == p.type = "window" /\ p.daily => p.start < DayLength /\ p.end < DayLength

ASSUME SchedulerAssumption ==
    /\ Policies \subseteq AtPolicy \union IntervalPolicy \union WindowPolicy
                         \union UnreadablePolicy \union RaisingPolicy
    /\ PolicyOf \in [Schedules -> Policies]
    /\ DayLength \in Nat /\ Hour \in Nat \ {0} /\ Hour < DayLength
    /\ \A p \in Policies : WithinTheDay(p)
    /\ MaxDue \in Nat \ {0} /\ MaxTime \in Nat \ {0} /\ MaxCount \in Nat \ {0}
    /\ MaxPatches \in Nat /\ MaxCrashes \in Nat

VARIABLES
    now,        \* the wall clock
    enabled, policy, nextFireAt,    \* the schedules table; "absent": no row
    runs,       \* runs[s][f]: how often the run of <<s, f>> was upserted, 0: no row
    triggers,   \* triggers[s][f]: rows of schedule_triggers
    pc, ts, todo,   \* the scheduler: its place in tick(), its now, the due rows
    firing,     \* the schedule being triggered, its decision, or None
    patching,   \* what each request thread read and is about to write, or None
    patched,    \* history: schedules whose policy was replaced
    patches, crashes

schedules == <<enabled, policy, nextFireAt>>
local == <<ts, todo, firing>>
counters == <<patches, crashes>>
vars == <<now, schedules, runs, triggers, pc, local, patching, patched, counters>>

Times == 0..MaxTime
None == [id |-> "none"]
Enabled == {"on", "off"}

Lesser(a, b) == IF a < b THEN a ELSE b
Greater(a, b) == IF a < b THEN b ELSE a

-----------------------------------------------------------------------------
\* ScheduleEngine.compute: the decisions it may return; only the jitter of an
\* interval is open.
NotDue(next) == [fireAt |-> 0, next |-> next, due |-> FALSE]

\* Mutant: the two times of a decision are swapped.
DueSwapped(fireAt, next) == [fireAt |-> next, next |-> fireAt, due |-> TRUE]

Due(fireAt, next) == [fireAt |-> fireAt, next |-> next, due |-> TRUE]

ComputeAt(p, t, current) ==
    LET fireAt == IF current <= 0 THEN p.at ELSE current
    IN  IF fireAt <= t THEN {Due(fireAt, 0)} ELSE {NotDue(fireAt)}

\* Mutant: the jitter is subtracted.
ComputeIntervalEarlier(p, t, current) ==
    LET following == {t + p.every - j : j \in 0..p.jitter}
    IN  IF current <= 0 THEN {NotDue(n) : n \in following}
        ELSE IF current <= t THEN {Due(current, n) : n \in following}
        ELSE {NotDue(current)}

\* Mutant: the run is named after the time it is due next.
ComputeIntervalNamed(p, t, current) ==
    LET following == {t + p.every + j : j \in 0..p.jitter}
    IN  IF current <= 0 THEN {NotDue(n) : n \in following}
        ELSE IF current <= t THEN {Due(n, n) : n \in following}
        ELSE {NotDue(current)}

\* Mutant: next_fire_at is reset as for an at schedule.
ComputeIntervalOnce(p, t, current) ==
    LET following == {t + p.every + j : j \in 0..p.jitter}
    IN  IF current <= 0 THEN {NotDue(n) : n \in following}
        ELSE IF current <= t THEN {Due(current, 0)}
        ELSE {NotDue(current)}

ComputeInterval(p, t, current) ==
    LET following == {t + p.every + j : j \in 0..p.jitter}
    IN  IF current <= 0 THEN {NotDue(n) : n \in following}
        ELSE IF current <= t THEN {Due(current, n) : n \in following}
        ELSE {NotDue(current)}

\* The bounds of a daily window are those of the day of t (UTC).
Bound(p, b, t) == IF p.daily THEN (t \div DayLength) * DayLength + b ELSE b

WindowStart(p, t) == Bound(p, p.start, t)

WindowEnd(p, t) ==
    LET end == Bound(p, p.end, t)
    IN  IF end <= WindowStart(p, t) THEN WindowStart(p, t) + Hour ELSE end

ComputeWindow(p, t, current) ==
    LET start == WindowStart(p, t)
        end == WindowEnd(p, t)
        fireAt == IF current <= 0 THEN Greater(t, start) ELSE current
        following == IF t + p.interval > end THEN start + DayLength ELSE t + p.interval
    IN  IF fireAt <= t /\ t <= end THEN {Due(fireAt, following)}
        ELSE IF t > end THEN {NotDue(start + DayLength)}
        ELSE {NotDue(fireAt)}

\* No decision at all: compute raises.
Compute(p, t, current) ==
    CASE p.type = "at" -> ComputeAt(p, t, current)
      [] p.type = "interval" -> ComputeInterval(p, t, current)
      [] p.type = "window" -> ComputeWindow(p, t, current)
      [] p.type = "unreadable" -> {NotDue(0)}
      [] p.type = "raising" -> {}

-----------------------------------------------------------------------------
Init ==
    /\ now = 1
    /\ enabled = [s \in Schedules |-> "absent"]
    /\ policy = PolicyOf
    /\ nextFireAt = [s \in Schedules |-> 0]
    /\ runs = [s \in Schedules |-> [f \in Times |-> 0]]
    /\ triggers = [s \in Schedules |-> [f \in Times |-> 0]]
    /\ pc = "idle" /\ ts = 0 /\ todo = {} /\ firing = None
    /\ patching = [h \in Handlers |-> None]
    /\ patched = {}
    /\ patches = 0 /\ crashes = 0

\* Time passes, between and during the ticks of the scheduler.
ClockTick ==
    /\ now < MaxTime
    /\ now' = now + 1
    /\ UNCHANGED <<schedules, runs, triggers, pc, local, patching, patched, counters>>

\* POST /v1/schedules: the schedule is stored with next_fire_at 0.
CreateSchedule(s, on) ==
    /\ enabled[s] = "absent"
    /\ enabled' = [enabled EXCEPT ![s] = on]
    /\ UNCHANGED <<now, policy, nextFireAt, runs, triggers, pc, local, patching,
                   patched, counters>>

\* PATCH /v1/schedules: update_schedule reads the row, under StateDB's lock ...
PatchSelect(h, s, on, p) ==
    /\ patching[h] = None /\ patches < MaxPatches /\ enabled[s] # "absent"
    /\ patching' = [patching EXCEPT ![h] = [id |-> s, enabled |-> on, policy |-> p]]
    /\ patched' = IF p = policy[s] THEN patched ELSE patched \union {s}
    /\ patches' = patches + 1
    /\ UNCHANGED <<now, schedules, runs, triggers, pc, local, crashes>>

\* ... and writes both columns back after it took the lock again, whatever
\* another request wrote in between; next_fire_at is left as it is.
PatchUpdate(h) ==
    /\ patching[h] # None
    /\ enabled' = [enabled EXCEPT ![patching[h].id] = patching[h].enabled]
    /\ policy' = [policy EXCEPT ![patching[h].id] = patching[h].policy]
    /\ patching' = [patching EXCEPT ![h] = None]
    /\ UNCHANGED <<now, nextFireAt, runs, triggers, pc, local, patched, counters>>

-----------------------------------------------------------------------------
\* Mutant: a schedule is due only after its time.
DueBefore == {s \in Schedules : enabled[s] = "on" /\ nextFireAt[s] < now}

\* list_due_schedules: the MaxDue enabled rows with the least next_fire_at.
DueSchedules == {s \in Schedules : enabled[s] = "on" /\ nextFireAt[s] <= now}

Listed(ids) ==
    /\ ids \subseteq DueSchedules
    /\ Cardinality(ids) = Lesser(MaxDue, Cardinality(DueSchedules))
    /\ \A s \in ids, u \in DueSchedules \ ids : nextFireAt[s] <= nextFireAt[u]

Poll ==
    /\ pc = "idle"
    /\ ts' = now
    /\ \E ids \in SUBSET DueSchedules :
          /\ Listed(ids)
          /\ todo' = {[id |-> s, policy |-> policy[s], next |-> nextFireAt[s]] : s \in ids}
    /\ pc' = IF todo' = {} THEN "idle" ELSE "take"
    /\ UNCHANGED <<now, schedules, runs, triggers, firing, patching, patched, counters>>

Afterwards(left) == IF left = {} THEN "idle" ELSE "take"

\* The due rows are handled one after another, as they were read and in the
\* order of their next_fire_at.
\* A schedule without next_fire_at only gets one ...
SetFirst(row, d) ==
    /\ row.next <= 0 /\ d.next > 0
    /\ nextFireAt' = [nextFireAt EXCEPT ![row.id] = d.next]
    /\ pc' = Afterwards(todo') /\ UNCHANGED <<runs, firing>>

\* ... one that is not due is passed over, and its decision is forgotten ...
PassOver(row, d) ==
    /\ ~(row.next <= 0 /\ d.next > 0) /\ ~d.due
    /\ pc' = Afterwards(todo') /\ UNCHANGED <<nextFireAt, runs, firing>>

\* Mutant: next_fire_at is advanced first.
StartFiringAdvances(row, d) ==
    /\ ~(row.next <= 0 /\ d.next > 0) /\ d.due
    /\ runs' = [runs EXCEPT ![row.id][d.fireAt] = Lesser(@ + 1, MaxCount)]
    /\ firing' = [id |-> row.id, fireAt |-> d.fireAt, next |-> d.next]
    /\ nextFireAt' = [nextFireAt EXCEPT ![row.id] = d.next]
    /\ pc' = "trigger"

\* Mutant: the run is left to be upserted later.
StartFiringTriggerFirst(row, d) ==
    /\ ~(row.next <= 0 /\ d.next > 0) /\ d.due
    /\ firing' = [id |-> row.id, fireAt |-> d.fireAt, next |-> d.next]
    /\ pc' = "trigger" /\ UNCHANGED <<nextFireAt, runs>>

\* ... and for one that is due a run is upserted.
StartFiring(row, d) ==
    /\ ~(row.next <= 0 /\ d.next > 0) /\ d.due
    /\ runs' = [runs EXCEPT ![row.id][d.fireAt] = Lesser(@ + 1, MaxCount)]
    /\ firing' = [id |-> row.id, fireAt |-> d.fireAt, next |-> d.next]
    /\ pc' = "trigger" /\ UNCHANGED nextFireAt

Take ==
    /\ pc = "take"
    /\ \E row \in todo :
          /\ \A other \in todo : row.next <= other.next
          /\ todo' = todo \ {row}
          /\ \E d \in Compute(row.policy, ts, row.next) :
                SetFirst(row, d) \/ PassOver(row, d) \/ StartFiring(row, d)
    /\ UNCHANGED <<now, enabled, policy, triggers, ts, patching, patched, counters>>

\* Nothing catches what compute raises: the service ends, and the rows behind this
\* one are not handled. Restarted, it comes to the same row again.
Raise ==
    /\ pc = "take"
    /\ \E row \in todo :
          /\ \A other \in todo : row.next <= other.next
          /\ Compute(row.policy, ts, row.next) = {}
    /\ pc' = "down" /\ todo' = {}
    /\ UNCHANGED <<now, schedules, runs, triggers, ts, firing, patching, patched, counters>>

AddTrigger ==
    /\ pc = "trigger"
    /\ triggers' = [triggers EXCEPT ![firing.id][firing.fireAt] = Lesser(@ + 1, MaxCount)]
    /\ pc' = "advance"
    /\ UNCHANGED <<now, schedules, runs, local, patching, patched, counters>>

\* Mutant: next_fire_at is not written.
AdvanceForgets ==
    /\ pc = "advance"
    /\ firing' = None
    /\ pc' = Afterwards(todo)
    /\ UNCHANGED <<now, schedules, runs, triggers, ts, todo, patching, patched, counters>>

Advance ==
    /\ pc = "advance"
    /\ nextFireAt' = [nextFireAt EXCEPT ![firing.id] = firing.next]
    /\ firing' = None
    /\ pc' = Afterwards(todo)
    /\ UNCHANGED <<now, enabled, policy, runs, triggers, ts, todo, patching, patched, counters>>

\* The process dies between two commits.
Crash ==
    /\ pc # "down" /\ crashes < MaxCrashes
    /\ crashes' = crashes + 1
    /\ pc' = "down" /\ todo' = {} /\ firing' = None
    /\ UNCHANGED <<now, schedules, runs, triggers, ts, patching, patched, patches>>

\* systemd: Restart=on-failure.
Restart ==
    /\ pc = "down"
    /\ pc' = "idle"
    /\ UNCHANGED <<now, schedules, runs, triggers, local, patching, patched, counters>>

SchedulerStep == Poll \/ Take \/ Raise \/ AddTrigger \/ Advance \/ Restart

Next ==
    \/ ClockTick
    \/ \E s \in Schedules, on \in Enabled : CreateSchedule(s, on)
    \/ \E h \in Handlers, s \in Schedules, on \in Enabled, p \in Policies :
           PatchSelect(h, s, on, p)
    \/ \E h \in Handlers : PatchUpdate(h)
    \/ SchedulerStep
    \/ Crash

Spec == Init /\ [][Next]_vars

\* The service's loop goes on and systemd restarts it. Nobody is obliged to
\* create or to patch a schedule; even the clock may stand still.
FairSpec == Spec /\ WF_vars(SchedulerStep)

-----------------------------------------------------------------------------
Decision == [id : Schedules, fireAt : Times, next : Nat]

\* Every table and every local variable keeps its type.
TypeOK ==
    /\ now \in Times
    /\ enabled \in [Schedules -> Enabled \union {"absent"}]
    /\ policy \in [Schedules -> Policies]
    /\ nextFireAt \in [Schedules -> Nat]
    /\ runs \in [Schedules -> [Times -> 0..MaxCount]]
    /\ triggers \in [Schedules -> [Times -> 0..MaxCount]]
    /\ pc \in {"down", "idle", "take", "trigger", "advance"}
    /\ ts \in Times
    /\ todo \subseteq [id : Schedules, policy : Policies, next : Nat]
    /\ firing \in Decision \union {None}
    /\ patching \in [Handlers -> [id : Schedules, enabled : Enabled, policy : Policies]
                                 \union {None}]
    /\ patched \subseteq Schedules
    /\ patches \in 0..MaxPatches /\ crashes \in 0..MaxCrashes

Fired(s) == {f \in Times : runs[s][f] > 0}

\* However late the ticks are, wherever the scheduler crashes and however often
\* the schedule is switched off and on, two runs of an interval schedule are due
\* at least every_sec apart.
IntervalSpacing ==
    \A s \in Schedules \ patched :
        PolicyOf[s].type = "interval" =>
            \A f, g \in Fired(s) : f < g => g - f >= PolicyOf[s].every

\* No run is queued before the time in its id has come, whatever policy the
\* next_fire_at was computed under.
NeverEarly == \A s \in Schedules : \A f \in Fired(s) : f <= now

\* The policies under which a due schedule gets a next_fire_at after the tick. An
\* at schedule's is reset to 0, which compute takes for "not computed yet", so that
\* each later tick upserts its run again; and in a window of more than a day (its
\* bounds are absolute times) the next start may be a day that has already begun.
Advancing(p) ==
    \/ p.type = "interval"
    \/ p.type = "window" /\ (p.daily \/ p.end < p.start + DayLength)

\* A crash may repeat the upsert of a run, and so put it back to QUEUED, but only
\* once per crash.
OneUpsertPerCrash ==
    \A s \in Schedules \ patched, f \in Times :
        Advancing(PolicyOf[s]) => runs[s][f] <= 1 + crashes

\* A trigger is recorded only after its run exists, never more often than the
\* run was upserted.
TriggersHaveRuns ==
    \A s \in Schedules, f \in Times : triggers[s][f] <= runs[s][f]

\* Two runs of an interval schedule lie at least every_sec apart, none is queued
\* before its time, a crash repeats an upsert at most once and a tick that raises
\* none, and a trigger never comes before its run (ScheduleOnlyScheduler.tick).
TicksSound ==
    TypeOK /\ IntervalSpacing /\ NeverEarly /\ OneUpsertPerCrash /\ TriggersHaveRuns

\* next_fire_at of such a schedule only grows, although it is computed from a
\* row that was read before other commits.
NextNeverBack ==
    [][\A s \in Schedules \ patched' :
          Advancing(PolicyOf[s]) => nextFireAt'[s] >= nextFireAt[s]]_vars

\* Somebody enabled a schedule that compute raises for: as long as it is, each tick
\* ends at its row, and the schedules due behind it do not fire.
Obstructed == \E s \in Schedules : enabled[s] = "on" /\ policy[s].type = "raising"

\* An interval schedule that is due fires, in spite of the crashes, unless it is
\* switched off, gets another policy, or a tick does not come to it.
DueSchedulesFire ==
    \A s \in Schedules : \A f \in Times \ {0} :
        PolicyOf[s].type = "interval" =>
            (enabled[s] = "on" /\ nextFireAt[s] = f /\ f <= now
                ~> f \in Fired(s) \/ enabled[s] = "off" \/ s \in patched \/ Obstructed)

\* A run that was queued gets its trigger recorded, in spite of a crash between
\* the two commits, on the same conditions.
RunsGetTriggers ==
    \A s \in Schedules : \A f \in Times \ {0} :
        PolicyOf[s].type = "interval" =>
            (f \in Fired(s) ~> \/ triggers[s][f] > 0 \/ enabled[s] = "off" \/ s \in patched
                               \/ Obstructed)

\* An interval schedule that is due fires, and the run it queued gets its
\* trigger, in spite of crashes between the commits (tick) and of ticks that
\* raised, once no schedule is enabled that makes them raise.
FiringsGoOn == DueSchedulesFire /\ RunsGetTriggers
=============================================================================
