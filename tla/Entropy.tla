------------------------------- MODULE Entropy ------------------------------
(***************************************************************************)
(* core/governance/entropy_v2: sweeps (sweeper.py), alerts with the        *)
(* engine's scheduler loop (monitor.py, engine.py) and the samples and the *)
(* adaptive thresholds (calculator.py, persistence.py,                     *)
(* adaptive_threshold.py). The three share the engine's life and its       *)
(* database connection: Sweep, Watch, Collect and Adapt are the next-state *)
(* relations of their own variables and of these. What a strategy, a rule  *)
(* or a sample measures is a nondeterministic choice.                      *)
(***************************************************************************)
EXTENDS Integers, Sequences, FiniteSets, FiniteSetsExt, SequencesExt

CONSTANTS
    Actions, Threads, Rules, None,
    MaxActions,          \* max_actions of one sweep
    MaxHistory,
    Cooldown,            \* cooldown_minutes of a rule
    MaxAlerts, Retention,
    MaxSamples, MaxRecords, LoadLimit, SampleRetention,
    Base,                \* base [warning, critical, emergency], in 1/10000
    Means, Deviations,   \* of the baseline, in 1/10000
    MinSamples, Interval,
    MaxRuns, MaxRaised, MaxStops, MaxTime    \* bounds of the model

VARIABLES
    status,        \* per action, "unplanned" before it is in _actions
    running,       \* _running_actions
    sweeper,       \* per thread: the batch it executes
    saved,         \* sweep_actions table: the status saved, or None
    executions,    \* _execution_history
    runs,
    lastFired, alerts, raised, alertRows, looping,
    engine, dbOpen, stops,
    samples,       \* _samples, each with the instant it was made and its timestamp
    rows,          \* the table entropy_samples
    adding,        \* per thread: the sample it is to save, or those it loads
    threshold, baseline, lastAdapted,
    taken,         \* history: the instants of the samples made since the start
    unsaved,       \* history: the samples whose save raised
    loaded, dated, \* history: load_state was called; a caller gave a timestamp
    now

sweepVars == <<status, running, sweeper, saved, executions, runs>>
alertVars == <<lastFired, alerts, raised, alertRows, looping>>
lifeVars == <<engine, dbOpen, stops>>
levelVars == <<threshold, baseline, lastAdapted>>
recordVars == <<samples, rows, adding, taken, unsaved, loaded, dated>>
sampleVars == <<levelVars, recordVars>>
vars == <<sweepVars, alertVars, lifeVars, sampleVars, now>>

Idle == [at |-> "idle"]
Least2(x, y) == IF x < y THEN x ELSE y
Most2(x, y) == IF x > y THEN x ELSE y
LastOf(seq, n) == SubSeq(seq, IF Len(seq) > n THEN Len(seq) - n + 1 ELSE 1, Len(seq))
(* the sequence of a set's numbers, in order *)
Ascending(S) == {f \in [1 .. Cardinality(S) -> S] : \A i, j \in DOMAIN f : i < j => f[i] < f[j]}

Init ==
    /\ status = [a \in Actions |-> "unplanned"] /\ running = {}
    /\ sweeper = [t \in Threads |-> Idle]
    /\ saved = [a \in Actions |-> None] /\ executions = <<>> /\ runs = 0
    /\ lastFired = [r \in Rules |-> None] /\ alerts = <<>> /\ raised = <<>>
    /\ alertRows = {} /\ engine = "stopped" /\ dbOpen = TRUE
    /\ looping = [t \in Threads |-> Idle] /\ stops = 0
    /\ samples = <<>> /\ rows = {} /\ adding = [t \in Threads |-> Idle]
    /\ threshold = Base /\ baseline = 0 /\ lastAdapted = 0 - Interval
    /\ taken = {} /\ unsaved = {} /\ loaded = FALSE /\ dated = FALSE
    /\ now = 0

(* stop waits 5 seconds for a loop that sleeps 60, and closes the          *)
(* database; start does not open it again                                  *)
Stop ==
    /\ stops < MaxStops /\ stops' = stops + 1
    /\ engine' = "stopped" /\ dbOpen' = FALSE

(* -------------------------------- sweeps ------------------------------- *)
(* prioritize_actions: the best max_actions of the planned ones, by a      *)
(* score of priority, impact and age                                       *)
Prioritized(planned) ==
    UNION {SetToSeqs(best) :
              best \in kSubset(Least2(Cardinality(planned), MaxActions), planned)}

Batch(todo, saves) == [at |-> "next", todo |-> todo, batch |-> todo, saves |-> saves]

(* plan_sweep takes in the actions it has not seen; execute_sweep and      *)
(* auto_sweep execute the best of those it took in                         *)
PlanSweep(t, generated, saves) ==
    LET planned == {a \in generated : status[a] = "unplanned"}
    IN  /\ sweeper[t] = Idle
        /\ status' = [a \in Actions |-> IF a \in planned THEN "pending" ELSE status[a]]
        /\ \E q \in Prioritized(planned) : sweeper' = [sweeper EXCEPT ![t] = Batch(q, saves)]
        /\ UNCHANGED <<running, saved, executions, runs>>

(* execute_sweep with actions of the caller's; each thread of a parallel   *)
(* execute_batch                                                           *)
ExecuteGiven(t, a, saves) ==
    /\ sweeper[t] = Idle /\ status[a] # "unplanned"
    /\ sweeper' = [sweeper EXCEPT ![t] = Batch(<<a>>, saves)]
    /\ UNCHANGED <<status, running, saved, executions, runs>>

Current(t) == Head(sweeper[t].todo)
Next1(t) == [sweeper EXCEPT ![t].at = "next", ![t].todo = Tail(@)]

RefuseRunning(t) ==
    /\ sweeper[t].at = "next" /\ sweeper[t].todo # <<>> /\ Current(t) \in running
    /\ sweeper' = Next1(t)
    /\ UNCHANGED <<status, running, saved, executions, runs>>

StartAction(t) ==
    /\ runs < MaxRuns
    /\ sweeper[t].at = "next" /\ sweeper[t].todo # <<>> /\ Current(t) \notin running
    /\ running' = running \cup {Current(t)}
    /\ status' = [status EXCEPT ![Current(t)] = "running"]
    /\ sweeper' = [sweeper EXCEPT ![t].at = "run"]
    /\ runs' = runs + 1
    /\ UNCHANGED <<saved, executions>>

(* Mutant: the check and the entry in _running_actions are not one step. *)
StartUnlocked(t) ==
    /\ runs < MaxRuns
    /\ sweeper[t].at = "next" /\ sweeper[t].todo # <<>>
    /\ running' = running \cup {Current(t)}
    /\ status' = [status EXCEPT ![Current(t)] = "running"]
    /\ sweeper' = [sweeper EXCEPT ![t].at = "run"]
    /\ runs' = runs + 1
    /\ UNCHANGED <<saved, executions>>

(* the executor returns, or raises *)
FinishAction(t, success) ==
    /\ sweeper[t].at = "run"
    /\ running' = running \ {Current(t)}
    /\ status' = [status EXCEPT ![Current(t)] = IF success THEN "completed" ELSE "failed"]
    /\ sweeper' = [sweeper EXCEPT ![t].at = "record"]
    /\ UNCHANGED <<saved, executions, runs>>

RecordResult(t) ==
    /\ sweeper[t].at = "record"
    /\ executions' = LastOf(Append(executions, Current(t)), MaxHistory)
    /\ sweeper' = Next1(t)
    /\ UNCHANGED <<status, running, saved, runs>>

EndBatch(t) ==
    /\ sweeper[t].at = "next" /\ sweeper[t].todo = <<>>
    /\ sweeper' = [sweeper EXCEPT ![t] =
           IF @.saves /\ @.batch # <<>> THEN [at |-> "save", todo |-> @.batch] ELSE Idle]
    /\ UNCHANGED <<status, running, saved, executions, runs>>

SavedAction(a) == [saved EXCEPT ![a] = status[a]]

(* save_sweep_action, whatever the status is by then; it raises when stop  *)
(* has closed the database                                                 *)
SaveAction(t) ==
    /\ sweeper[t].at = "save"
    /\ saved' = IF dbOpen THEN SavedAction(Current(t)) ELSE saved
    /\ sweeper' = [sweeper EXCEPT ![t] =
           IF Len(@.todo) = 1 \/ ~ dbOpen THEN Idle ELSE [at |-> "save", todo |-> Tail(@.todo)]]
    /\ UNCHANGED <<status, running, executions, runs>>

Sweep ==
    /\ \/ /\ \E t \in Threads :
                \/ \E g \in SUBSET Actions, s \in BOOLEAN : PlanSweep(t, g, s)
                \/ \E a \in Actions, s \in BOOLEAN : ExecuteGiven(t, a, s)
                \/ RefuseRunning(t) \/ StartAction(t)
                \/ \E ok \in BOOLEAN : FinishAction(t, ok)
                \/ RecordResult(t) \/ EndBatch(t) \/ SaveAction(t)
          /\ UNCHANGED lifeVars
       \/ Stop /\ UNCHANGED sweepVars
    /\ UNCHANGED <<alertVars, sampleVars, now>>

(* -------------------------------- alerts ------------------------------- *)
Start(t) ==
    /\ engine = "stopped" /\ looping[t] = Idle
    /\ engine' = "running"
    /\ looping' = [looping EXCEPT ![t] = [at |-> "top"]]
    /\ UNCHANGED <<lastFired, alerts, raised, alertRows, dbOpen, stops, now>>

(* the top of _scheduler_loop, and check_and_alert up to its lock *)
ReadClock(t) ==
    /\ looping[t].at = "top"
    /\ looping' = [looping EXCEPT ![t] =
                      IF engine = "running" THEN [at |-> "check", now |-> now] ELSE Idle]
    /\ UNCHANGED <<lastFired, alerts, raised, alertRows, lifeVars, now>>

(* Mutant: the distance to the last alert counts, not the time since. *)
CooledDownAbsolute(r, time) ==
    lastFired[r] # None => time - lastFired[r] >= Cooldown \/ lastFired[r] > time

CooledDown(r, time) == lastFired[r] # None => time - lastFired[r] >= Cooldown

(* _prune_alerts, _prune_samples: one list, as a set; when it is too long, *)
(* the last of what is not before the cutoff                               *)
Pruned(list, most, cutoff) ==
    LET recent == {i \in DOMAIN list : list[i].at >= cutoff}
    IN  IF Len(list) <= most THEN {list}
        ELSE {LastOf([i \in DOMAIN f |-> list[f[i]]], most) : f \in Ascending(recent)}

NewAlert(r, time) == [rule |-> r, at |-> time, ack |-> FALSE]

(* under the monitor's lock: every rule that holds and is not cooling down *)
CheckAndAlert(t, holding) ==
    LET time == looping[t].now
        due == {r \in holding : CooledDown(r, time)}
        new == {[rule |-> r, at |-> time] : r \in due}
    IN  /\ looping[t].at = "check"
        /\ Len(raised) + Cardinality(due) <= MaxRaised
        /\ \E q \in SetToSeqs(new) :
              /\ raised' = raised \o q
              /\ alerts' \in Pruned(alerts \o [i \in DOMAIN q |-> NewAlert(q[i].rule, time)],
                                   MaxAlerts, now - Retention)
              /\ looping' = [looping EXCEPT ![t] = [at |-> "save", left |-> q]]
        /\ lastFired' = [r \in Rules |-> IF r \in due THEN time ELSE lastFired[r]]
        /\ UNCHANGED <<alertRows, lifeVars, now>>

SavedAlert(row) == alertRows \cup {row}

(* save_alert raises when stop has closed the database: the loop goes on *)
SaveAlert(t) ==
    /\ looping[t].at = "save"
    /\ IF looping[t].left = <<>> \/ ~ dbOpen
       THEN alertRows' = alertRows /\ looping' = [looping EXCEPT ![t] = [at |-> "sleep"]]
       ELSE /\ alertRows' = SavedAlert(Head(looping[t].left))
            /\ looping' = [looping EXCEPT ![t].left = Tail(@)]
    /\ UNCHANGED <<lastFired, alerts, raised, lifeVars, now>>

Wake(t) ==
    /\ looping[t].at = "sleep"
    /\ looping' = [looping EXCEPT ![t] = [at |-> "top"]]
    /\ UNCHANGED <<lastFired, alerts, raised, alertRows, lifeVars, now>>

(* in memory only *)
AcknowledgeAlert(i) ==
    /\ i \in DOMAIN alerts
    /\ alerts' = [alerts EXCEPT ![i].ack = TRUE]
    /\ UNCHANGED <<lastFired, raised, alertRows, looping, lifeVars, now>>

Tick == now < MaxTime /\ now' = now + 1

Watch ==
    /\ \/ \E t \in Threads :
             \/ Start(t) \/ ReadClock(t) \/ SaveAlert(t) \/ Wake(t)
             \/ \E h \in SUBSET Rules : CheckAndAlert(t, h)
       \/ Stop /\ UNCHANGED <<alertVars, now>>
       \/ \E i \in 1 .. MaxAlerts : AcknowledgeAlert(i)
       \/ Tick /\ UNCHANGED <<alertVars, lifeVars>>
    /\ UNCHANGED <<sweepVars, sampleVars>>

(* ------------------------- samples and thresholds ---------------------- *)
(* record_raw_sample, and record_sample of the calculator: under its lock, *)
(* so that no two samples are made at one instant                          *)
Collected(s, time) == Pruned(Append(samples, s), MaxSamples, time - SampleRetention)

ToSave(s) == [at |-> "save", sample |-> s]

(* record, with the clock's time; record_sample, with the caller's         *)
Record(t, given) ==
    LET s == [made |-> now', at |-> IF given = None THEN now' ELSE given]
    IN  /\ adding[t] = Idle
        /\ Tick
        /\ samples' \in Collected(s, now') /\ taken' = taken \cup {now'}
        /\ adding' = [adding EXCEPT ![t] = ToSave(s)]
        /\ dated' = (dated \/ given # None)
        /\ UNCHANGED <<levelVars, rows, unsaved, loaded, lifeVars>>

(* the rows with a new one, too many of them less the oldest *)
Stored(s) ==
    LET all == rows \cup {s}
    IN  IF Cardinality(all) <= MaxRecords THEN {all}
        ELSE {newest \in SUBSET all :
                 /\ Cardinality(newest) = MaxRecords
                 /\ \A x \in all \ newest, y \in newest : x.at <= y.at}

(* save_sample, after record has let the calculator's lock go *)
SaveSample(t) ==
    /\ adding[t].at = "save"
    /\ IF dbOpen THEN rows' \in Stored(adding[t].sample) /\ UNCHANGED unsaved
       ELSE unsaved' = unsaved \cup {adding[t].sample} /\ UNCHANGED rows
    /\ adding' = [adding EXCEPT ![t] = Idle]
    /\ UNCHANGED <<levelVars, samples, taken, loaded, dated, lifeVars, now>>

(* load_samples: the newest of them, the newest first *)
LoadedSamples ==
    {f \in [1 .. Least2(Cardinality(rows), LoadLimit) -> rows] :
        \A i \in DOMAIN f :
           /\ \A j \in 1 .. i - 1 : f[j] # f[i]
           /\ \A x \in rows : x.at > f[i].at => \E j \in 1 .. i - 1 : f[j] = x}

(* load_state; thresholds are never saved *)
LoadState(t) ==
    /\ adding[t] = Idle /\ dbOpen
    /\ \E q \in LoadedSamples : adding' = [adding EXCEPT ![t] = [at |-> "load", left |-> q]]
    /\ loaded' = TRUE
    /\ UNCHANGED <<levelVars, samples, rows, taken, unsaved, dated, lifeVars, now>>

LoadSample(t) ==
    /\ adding[t].at = "load" /\ adding[t].left # <<>>
    /\ samples' \in Collected(Head(adding[t].left), now)
    /\ adding' = [adding EXCEPT ![t].left = Tail(@)]
    /\ UNCHANGED <<levelVars, rows, taken, unsaved, loaded, dated, lifeVars, now>>

StateLoaded(t) ==
    /\ adding[t].at = "load" /\ adding[t].left = <<>>
    /\ adding' = [adding EXCEPT ![t] = Idle]
    /\ UNCHANGED <<levelVars, samples, rows, taken, unsaved, loaded, dated, lifeVars, now>>

(* another process, whatever this one was doing *)
Restart ==
    /\ samples' = <<>> /\ adding' = [t \in Threads |-> Idle]
    /\ taken' = {} /\ unsaved' = {} /\ loaded' = FALSE
    /\ threshold' = Base /\ baseline' = 0 /\ lastAdapted' = now - Interval
    /\ engine' = "stopped" /\ dbOpen' = TRUE
    /\ UNCHANGED <<rows, dated, stops, now>>

RecordBaseline ==
    /\ baseline < MinSamples /\ baseline' = baseline + 1
    /\ UNCHANGED <<threshold, lastAdapted>>

(* _compute_adaptive_threshold: towards the mean, less so upwards *)
Adaptive(base, mean, dev) ==
    CASE mean < base -> Most2(1000, base - (base - mean) \div 10)
      [] mean > base -> Least2(10000, base + (mean - base) \div 20 + dev \div 10)
      [] OTHER -> base

(* _clamp_change: by no more than 30% of the old value *)
Clamped(old, new) ==
    Most2(old - (old * 3) \div 10, Least2(old + (old * 3) \div 10, new))

(* adapt_threshold: the warning is kept below a critical value that may    *)
(* still come down to stay below the emergency                             *)
Adapted(mean, dev) ==
    LET new(level) == Clamped(threshold[level], Adaptive(Base[level], mean, dev))
        e == new("emergency")
        top == new("critical")
    IN  [warning |-> Least2(new("warning"), (top * 9) \div 10),
         critical |-> Least2(top, (e * 95) \div 100),
         emergency |-> e]

(* Mutant: only the warning is kept apart from the next level. *)
AdaptedFree(mean, dev) ==
    LET new(level) == Clamped(threshold[level], Adaptive(Base[level], mean, dev))
    IN  [warning |-> new("warning"), critical |-> new("critical"), emergency |-> new("emergency")]

AdaptThreshold(mean, dev) ==
    /\ now - lastAdapted >= Interval /\ baseline >= MinSamples
    /\ threshold' = Adapted(mean, dev) /\ lastAdapted' = now
    /\ UNCHANGED baseline

ResetToBaseline == threshold' = Base /\ UNCHANGED <<baseline, lastAdapted>>

SetLevels ==
    \/ RecordBaseline \/ ResetToBaseline
    \/ \E m \in Means, d \in Deviations : AdaptThreshold(m, d)

Collect ==
    /\ \/ \E t \in Threads :
             \/ \E given \in {None} \cup 0 .. MaxTime : Record(t, given)
             \/ SaveSample(t) \/ LoadState(t) \/ LoadSample(t) \/ StateLoaded(t)
       \/ Restart
       \/ Stop /\ UNCHANGED <<sampleVars, now>>
       \/ Tick /\ UNCHANGED <<sampleVars, lifeVars>>
    /\ UNCHANGED <<sweepVars, alertVars>>

Adapt ==
    /\ \/ SetLevels /\ UNCHANGED <<recordVars, lifeVars, now>>
       \/ Restart
       \/ Tick /\ UNCHANGED <<sampleVars, lifeVars>>
    /\ UNCHANGED <<sweepVars, alertVars>>

Next == Sweep \/ Watch \/ Collect \/ Adapt

(* ------------------------------ properties ----------------------------- *)
TypeOK ==
    /\ status \in [Actions -> {"unplanned", "pending", "running", "completed", "failed"}]
    /\ \A t \in Threads : sweeper[t].at \in {"idle", "next", "run", "record", "save"}
    /\ Len(alerts) <= MaxAlerts /\ Len(samples) <= MaxSamples

(* An action is in the hands of one executor at most, whatever sweeps,     *)
(* repeated executions and parallel batches meet, and _running_actions and *)
(* the status RUNNING say exactly which actions those are.                 *)
SweepsDisjoint ==
    LET executing == {t \in Threads : sweeper[t].at = "run"}
    IN  /\ running = {Current(t) : t \in executing}
        /\ Cardinality(running) = Cardinality(executing)
        /\ \A a \in Actions : status[a] = "running" <=> a \in running

(* The alerts of a rule are a cooldown apart however many scheduler loops  *)
(* a stop and a start have left running, although each reads the clock     *)
(* before it has the lock; the rows saved are alerts that were raised.     *)
AlertsSpaced ==
    /\ \A i, j \in DOMAIN raised : i < j /\ raised[i].rule = raised[j].rule =>
          raised[j].at - raised[i].at >= Cooldown
    /\ alertRows \subseteq {raised[i] : i \in DOMAIN raised}

(* No sequence of adaptations, each clamped against the last, brings the   *)
(* warning, critical and emergency levels of a category out of order.      *)
ThresholdsOrdered ==
    /\ 0 < threshold.warning /\ threshold.warning < threshold.critical
    /\ threshold.critical < threshold.emergency /\ threshold.emergency <= 10000

Crowded(s) == Cardinality(rows) = MaxRecords /\ \A x \in rows : s.at <= x.at

(* Until samples are loaded from the table (newest first, so that the next *)
(* prune drops the newest) the calculator has its samples in the order     *)
(* they were made; and what was made since the start and is missing is     *)
(* older than all it has, unless a caller gave a time. However the saves   *)
(* of several threads come after one another, what it has is in the table, *)
(* in the hands of a thread that is to save it, or was refused by the      *)
(* closed database: newer rows crowd out only what was loaded, or what is  *)
(* among samples with callers' times.                                      *)
NewestKept ==
    LET made == {samples[i].made : i \in DOMAIN samples}
    IN  /\ ~ loaded => \A i, j \in DOMAIN samples : i < j => samples[i].made < samples[j].made
        /\ ~ loaded /\ ~ dated =>
              \A m \in taken : m \in made \/ (made # {} /\ \A k \in made : m < k)
        /\ \A i \in DOMAIN samples :
              \/ samples[i] \in rows \cup unsaved
              \/ \E t \in Threads : adding[t] = ToSave(samples[i])
              \/ (loaded \/ dated) /\ Crowded(samples[i])
=============================================================================
