------------------------------- MODULE MCAgents -----------------------------
(***************************************************************************)
(* The parts that hand work to agents and keep it in order: workflow       *)
(* executions with their instances and their recovery, the agent pool, the *)
(* message bus, the coordinator and the scheduler of the central brain,    *)
(* and the entropy governance with its books and measurements. They share  *)
(* no state; the part chosen in the initial state takes all the steps.     *)
(***************************************************************************)
EXTENDS CentralBrain, TLC

CONSTANTS
    a, b, c, d, k1, k2, s1, s2, s3,
    Hands, Supply, Ration, Room,              \* the instances of the workflow
    Steps, FirstStep, StepsAfter, InputsOf, Finishers, NoHand, MaxBegun,    \* its stages
    Acts, FirstAct, Findings, Yields, Askers, Conductor, MaxTries,          \* the recovery
    MaxMade, MaxMerged, MaxCleared, MaxBroken,
    Workers, Jobs,    \* the agents and the tasks of the pool
    MaxWorkers,       \* max_agents of its config
    Subscriptions, Senders, Kept, MaxSent,   \* the message bus; Kept is its history_limit
    Cleanups, Minders, Alarms, Effort, Memory,      \* the entropy governance
    Pause, Shown, Expiry, Window, Table, Reload, Lasting, Levels, Averages, Spreads, Enough, Calm,
    MaxSwept, MaxRung, MaxHalts, MaxHours,
    Cases, Results, Themes, Papers, Decrees, Ttl, Span, MaxDays, MaxEdits  \* its books

ASSUME WorkflowAssumption ==
    /\ Hands \subseteq Nat \ {0} /\ IsFiniteSet(Hands) /\ NoHand \notin Hands
    /\ Supply \in Nat /\ Ration \in Nat \ {0} /\ FirstStep \in Steps
    /\ StepsAfter \in [Steps -> Seq(Steps)] /\ InputsOf \in [Steps -> SUBSET Steps]

(* what the recovery keeps of a context and of an execution *)
Contexts == [stage : Acts, status : {"running", "completed"},
             outputs : [Acts -> Acts \cup {NoAgent}], sources : [Findings -> Acts \cup {NoAgent}]]
Executions == [ctx : Contexts, stage : Acts,
               status : {"running", "recovering", "failed", "completed"}]
Transfers == [ctx : Contexts, next : Acts, lost : BOOLEAN]

ASSUME RecoveryAssumption ==
    /\ FirstAct \in Acts /\ Yields \in [Acts -> SUBSET Findings]
    /\ Conductor \notin Askers /\ MaxTries \in Nat \ {0}
    /\ NoAgent \notin Acts /\ NoAgent \notin Nat /\ NoAgent \notin Executions
    /\ NoAgent \notin Transfers /\ NoAgent \notin [stage : Acts, status : {"running", "completed"}]

ASSUME PoolAssumption == MaxWorkers \in Nat /\ NoAgent \notin Jobs

ASSUME BusAssumption == IsFiniteSet(Subscriptions) /\ Kept \in Nat \ {0}

(* Entropies are between 0 and 1, so that their deviation is at most a     *)
(* half; the highest the warning of a category is adapted to is below 95 % *)
(* of the lowest its emergency is adapted to, as with the levels in        *)
(* adaptive_threshold.py; and the table has room for all the samples that  *)
(* the calculator keeps.                                                   *)
ASSUME EntropyAssumption ==
    /\ IsFiniteSet(Cleanups) /\ IsFiniteSet(Minders) /\ IsFiniteSet(Alarms)
    /\ {Effort, Memory, Pause, Shown, Expiry, Reload, Lasting, Enough, Calm, MaxHours} \subseteq Nat
    /\ Window \in Nat \ {0} /\ Table \in Nat /\ Window <= Table
    /\ \A x \in Averages : x \in Nat /\ x <= 10000
    /\ \A x \in Spreads : x \in Nat /\ x <= 5000
    /\ Levels \in [warning : Nat, critical : Nat, emergency : Nat]
    /\ 1000 <= Levels.warning /\ Levels.warning < Levels.critical
    /\ Levels.critical < Levels.emergency /\ Levels.emergency <= 10000
    /\ LET highest == Levels.warning + (10000 - Levels.warning) \div 20 + 500
           lowest == Levels.emergency - Levels.emergency \div 10
       IN  highest < (lowest * 95) \div 100

ASSUME BooksAssumption ==
    /\ IsFiniteSet(Results) /\ IsFiniteSet(Themes)
    /\ NoAgent \notin [topic : Themes, truth : BOOLEAN, indexed : BOOLEAN]
    /\ NoAgent \notin [status : {"draft", "doing", "done"}, path : BOOLEAN,
                        deliverable : BOOLEAN, adrs : SUBSET Decrees]

VARIABLES
    part,
    instance, index, healthy, available, leaked,              \* InstanceManager
    status, stage, current, call, starts, completed,          \* WorkflowOrchestrator
    agents, agent, todo, open, interrupted,                   \* AgentPool
    order, subscribed, publish, history, published, removed,  \* MessageBus
    sweepStatus, sweeping, sweeper, saved, executions, runs,  \* Entropy
    lastFired, alerts, raised, alertRows, looping, engine, dbOpen, stops,
    samples, rows, adding, threshold, baseline, lastAdapted,
    taken, unsaved, loaded, dated, hour,
    cards, outputs, topics, inbox, reworks, edits, day,       \* EntropyBooks
    measured, trends, analysis, profiles, attributing,        \* EntropyMeasure
    failed, hypotheses, report, recorded, analyses, tick,
    local, exec, transfer, files, kept, cache, asking, answers, shared,       \* Recovery
    log, aligned, restored, made, merges, clears

brainVars == vars
workflowVars == <<instance, index, healthy, available, leaked,
                  status, stage, current, call, starts, completed>>
poolVars == <<agents, agent, todo, open, interrupted>>
busVars == <<order, subscribed, publish, history, published, removed>>
recoverVars == <<local, exec, transfer, files, kept, cache, asking, answers, shared,
                 log, aligned, restored, made, merges, clears>>
agentVars == <<brainVars, workflowVars, poolVars, busVars, recoverVars>>
engineVars == <<sweepStatus, sweeping, sweeper, saved, executions, runs,
                lastFired, alerts, raised, alertRows, looping, engine, dbOpen, stops,
                samples, rows, adding, threshold, baseline, lastAdapted,
                taken, unsaved, loaded, dated, hour>>
bookVars == <<cards, outputs, topics, inbox, reworks, edits, day>>
measureVars == <<measured, trends, analysis, profiles, attributing,
                 failed, hypotheses, report, recorded, analyses, tick>>
allVars == <<part, agentVars, engineVars, bookVars, measureVars>>

MCPolicies == {[type |-> "interval", arg |-> 2], [type |-> "once", arg |-> 2],
               [type |-> "immediate", arg |-> 0]}

(* c comes after a and after b, and joins the outputs of both *)
MCStepsAfter == a :> <<b, c>> @@ b :> <<c>> @@ c :> <<>>
MCInputsOf == a :> {} @@ b :> {a} @@ c :> {a, b}
MCLevels == [warning |-> 2500, critical |-> 5000, emergency |-> 7500]
MCYields == a :> {c} @@ b :> {c, d}

Workflow == INSTANCE WorkflowOrchestrator WITH
    Instances <- Hands, Total <- Supply, Quota <- Ration, Concurrent <- Room,
    Stages <- Steps, Entry <- FirstStep, NextStages <- StepsAfter, Sources <- InputsOf,
    Callers <- Finishers, NoInstance <- NoHand, MaxStarts <- MaxBegun

Safe == INSTANCE Recovery WITH
    Stages <- Acts, First <- FirstAct, Fields <- Findings, Produces <- Yields,
    Callers <- Askers, Driver <- Conductor, None <- NoAgent, MaxRetries <- MaxTries,
    MaxRuns <- MaxMade, MaxMerges <- MaxMerged, MaxClears <- MaxCleared, MaxFailures <- MaxBroken,
    saved <- kept, call <- asking, runs <- made

Pool == INSTANCE AgentPool WITH
    Agents <- Workers, Tasks <- Jobs, MaxAgents <- MaxWorkers, NoTask <- NoAgent

Bus == INSTANCE MessageBus WITH
    Subs <- Subscriptions, Publishers <- Senders, MaxPublished <- MaxSent, HistoryLimit <- Kept

Engine == INSTANCE Entropy WITH
    Actions <- Cleanups, Threads <- Minders, Rules <- Alarms, None <- NoAgent,
    MaxActions <- Effort, MaxHistory <- Memory, Cooldown <- Pause, MaxAlerts <- Shown,
    Retention <- Expiry, MaxSamples <- Window, MaxRecords <- Table, LoadLimit <- Reload,
    SampleRetention <- Lasting,
    Base <- Levels, Means <- Averages, Deviations <- Spreads, MinSamples <- Enough,
    Interval <- Calm, MaxRuns <- MaxSwept, MaxRaised <- MaxRung, MaxStops <- MaxHalts,
    MaxTime <- MaxHours, status <- sweepStatus, running <- sweeping, now <- hour

Books == INSTANCE EntropyRecords WITH
    Tasks <- Cases, Outputs <- Results, Topics <- Themes, Items <- Papers, Adrs <- Decrees,
    None <- NoAgent, InboxTtl <- Ttl, ReworkWindow <- Span, tasks <- cards, index <- topics,
    Sources <- {s1, s2}, Categories <- {c}, CategoryOf <- (s1 :> c @@ s2 :> c),
    Weight <- (c :> 12), Values <- {1, 9}, Threads <- {k1, k2},
    Window <- 1, Windows <- {0, 1}, Ttl <- 1, MinTrend <- 2, MinCommon <- 2,
    MaxSamples <- 4, Limit <- 2, MaxTime <- 2, MaxRecords <- 4, MaxCalls <- 2,
    samples <- measured, call <- analysis, raised <- failed, calls <- analyses, now <- tick

(* the same for the readers of the trends, with smaller bounds *)
Monitor == INSTANCE EntropyRecords WITH
    Tasks <- Cases, Outputs <- Results, Topics <- Themes, Items <- Papers, Adrs <- Decrees,
    None <- NoAgent, InboxTtl <- Ttl, ReworkWindow <- Span, tasks <- cards, index <- topics,
    Sources <- {s1, s2}, Categories <- {c}, CategoryOf <- (s1 :> c @@ s2 :> c),
    Weight <- (c :> 12), Values <- {1, 9}, Threads <- {k1, k2},
    Window <- 1, Windows <- {0, 1}, Ttl <- 1, MinTrend <- 2, MinCommon <- 2,
    MaxSamples <- 3, Limit <- 2, MaxTime <- 1, MaxRecords <- 3, MaxCalls <- 2,
    samples <- measured, call <- analysis, raised <- failed, calls <- analyses, now <- tick

MCInit ==
    /\ part \in {"workflow", "recover", "pool", "bus", "tasks", "schedules",
                 "sweep", "watch", "collect", "adapt", "books", "trends", "attribution"}
    /\ Init
    /\ Workflow!Init /\ Safe!Init /\ Pool!Init /\ Bus!Init
    /\ Engine!Init /\ Books!BooksInit /\ Books!MeasureInit

Work ==
    /\ \/ /\ \/ part = "workflow" /\ Workflow!Next /\ UNCHANGED <<brainVars, poolVars, busVars>>
             \/ part = "pool" /\ Pool!Next /\ UNCHANGED <<brainVars, workflowVars, busVars>>
             \/ part = "bus" /\ Bus!Next /\ UNCHANGED <<brainVars, workflowVars, poolVars>>
             \/ part = "tasks" /\ Coordinate /\ UNCHANGED <<workflowVars, poolVars, busVars>>
             \/ part = "schedules" /\ Schedule /\ UNCHANGED <<workflowVars, poolVars, busVars>>
          /\ UNCHANGED recoverVars
       \/ part = "recover" /\ Safe!Next /\ UNCHANGED <<brainVars, workflowVars, poolVars, busVars>>
    /\ UNCHANGED <<engineVars, bookVars, measureVars>>

Govern ==
    /\ \/ /\ \/ part = "sweep" /\ Engine!Sweep
             \/ part = "watch" /\ Engine!Watch
             \/ part = "collect" /\ Engine!Collect
             \/ part = "adapt" /\ Engine!Adapt
          /\ UNCHANGED <<bookVars, measureVars>>
       \/ part = "books" /\ Books!BooksNext /\ UNCHANGED <<engineVars, measureVars>>
       \/ /\ \/ part = "trends" /\ Monitor!TrendNext
             \/ part = "attribution" /\ Books!AttributionNext
          /\ UNCHANGED <<engineVars, bookVars>>
    /\ UNCHANGED agentVars

MCNext == UNCHANGED part /\ (Work \/ Govern)

MCSpec == MCInit /\ [][MCNext]_allVars
-----------------------------------------------------------------------------
(* A stage starts only after every stage its inputs come from succeeded,   *)
(* and the instances and quotas that were taken for stages are given back, *)
(* but for those of starts that were cancelled (WorkflowOrchestrator,      *)
(* InstanceManager). In an execution with stability an operation has one   *)
(* answer unless two calls ran it at once; its outputs are filed under     *)
(* their stages, with their lineage, and none is lost                      *)
(* (execute_with_idempotency, execute_with_stability).                     *)
WorkflowSound ==
    /\ part = "workflow" =>
          Workflow!TypeOK /\ Workflow!InputsReady /\ Workflow!ResourcesAccounted
    /\ part = "recover" =>
          Safe!TypeOK /\ Safe!OneAnswer /\ Safe!FiledWhereRun
          /\ Safe!LineageSound /\ Safe!NothingFiledLost

(* An agent works on one task at a time, the one it shows, unless it was   *)
(* failed, unblocked, rolled back or told of the end of another task in    *)
(* the middle of it (AgentPool).                                           *)
OneTaskAtATime == part = "pool" => Pool!TypeOK /\ Pool!OneTaskAtATime

(* A publish reaches, once, every subscription that was there all the      *)
(* time, unless another was removed while it was awaited (MessageBus).     *)
SubscribersServed == part = "bus" => Bus!TypeOK /\ Bus!SubscribersServed

(* The coordinator's queue is in order of urgency, and of submission, but  *)
(* for tasks that were put back after a failure (submit_task, fail_task);  *)
(* and two fires of a schedule are a period apart (tick).                  *)
BrainSound ==
    /\ [](part \in {"tasks", "schedules"} => TypeOK)
    /\ [](part = "tasks" => UrgentFirst)
    /\ [][part = "schedules" => FiresSpaced]_allVars

(* No action is in the hands of two executors (EntropySweeper); alerts of  *)
(* a rule are a cooldown apart, however many loops run (EntropyMonitor);   *)
(* adapted thresholds stay in order (AdaptiveThresholdManager) and the     *)
(* newest samples are kept (EntropyCalculator); and a plan of a sweep      *)
(* misses no two outputs that claim one topic (entropy_control.py).        *)
EntropySound ==
    /\ part = "sweep" => Engine!TypeOK /\ Engine!SweepsDisjoint
    /\ part = "watch" => Engine!TypeOK /\ Engine!AlertsSpaced
    /\ part = "collect" => Engine!TypeOK /\ Engine!NewestKept
    /\ part = "adapt" => Engine!TypeOK /\ Engine!ThresholdsOrdered
    /\ part = "books" => Books!BooksTypeOK /\ Books!SweepMissesNothing

(* A cached trend was computed from every sample recorded before its time, *)
(* and correlation is mutual until an analysis failed half way             *)
(* (EntropyMonitor.analyze_trend, EntropyAttributor).                      *)
MeasureSound ==
    /\ part = "trends" => Monitor!MeasureTypeOK /\ Monitor!TrendsHonest
    /\ part = "attribution" => Books!MeasureTypeOK /\ Books!CorrelationMutual
=============================================================================
