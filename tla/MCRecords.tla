------------------------------ MODULE MCRecords -----------------------------
(***************************************************************************)
(* The parts that keep records and outlive a call: the learning queue,     *)
(* strategy canaries, audits and the event log; the quality feedback with  *)
(* its benchmarks and evaluations, and the registries of errors and        *)
(* failures; the stability service with its checkpoints (alone, over       *)
(* seconds and a crash, and with a second call inside it, so that          *)
(* checkpoints are compacted), the long running sessions, the cloud drive  *)
(* and the memory stores. They share no state; the part chosen in the      *)
(* initial state takes all the steps.                                      *)
(***************************************************************************)
EXTENDS Integers, Sequences, FiniteSets, TLC

CONSTANTS
    c1, c2, s1, s2, w1, w2, w3, i1, i2, a1, a2, f1, f2, none,
    Releases, Strategies, ReleaseOf,          \* the canaries
    FirstShare, ShareStep, FullShare, RollsBack, Promotes,
    Lessons, Pressing, Learners,              \* the learning queue
    NumLearners, QueueSize, MaxAttempts, MaxStops,
    Auditors, Reviews, Sources, DimensionSets, Required,   \* the audits
    MaxRegistered,
    Subjects, Foreign, Readers, Replays,      \* the event log
    MaxLines, MaxBatch, MaxCrashes,
    Watchers, Complaints, Places,             \* the errors and failures
    KnownMatches, NewMatches, KeptHours, ReportHours,
    MaxKinds, MaxWatched, MaxHours, MaxFailed, MaxAsked,
    Phases, FirstPhase, RichPhases, UpdatingPhases, Callers,   \* the stability service
    CheckpointsKept, MaxSaved, MaxSeconds, MaxEnds,
    Planned, Needs, PriorityRank, Tested,      \* the long running sessions
    CheckpointInterval, MaxCheckpointed, MaxNumbered, MaxDeaths,
    FileNames, Contents, Folders, Shares, Targets, Rule,       \* the cloud drive
    VersionsKept, Limits, Expiries, MaxDepth, MaxAnswered, MaxShared,
    Remembered, HubKeys, Confidences, Certain, Assured,        \* the memory stores
    Lifetime, PadSize, Reports, HeadOf, HeadsIn, DebtSize,
    MaxStored, MaxTicks, MaxTraces

(* Shares begin between nothing and all; a task is tried at least once.    *)
ASSUME RecordsAssumption ==
    /\ ReleaseOf \in [Releases -> Strategies]
    /\ FirstShare \in Nat /\ ShareStep \in Nat /\ FullShare \in Nat /\ FirstShare <= FullShare
    /\ QueueSize \in Nat /\ MaxAttempts \in Nat \ {0}
    /\ MaxLines \in Nat

(* A report goes back no further than failures are kept.                   *)
ASSUME ErrorsAssumption ==
    /\ KnownMatches \in Seq(SUBSET Complaints) /\ NewMatches \subseteq SUBSET Complaints
    /\ KeptHours \in Nat /\ ReportHours \in Nat /\ ReportHours <= KeptHours

(* A compaction leaves an entry for every coroutine inside the service.    *)
ASSUME StabilityAssumption ==
    /\ FirstPhase \in Phases /\ IsFiniteSet(Callers)
    /\ CheckpointsKept \in Nat /\ Cardinality(Callers) <= CheckpointsKept \div 2
    /\ MaxSaved \in Nat /\ MaxSeconds \in Nat /\ MaxEnds \in Nat

(* None is no feature, session, list of features or work on one.           *)
Said == {"pending", "in_progress", "passed", "failed", "blocked"}
ASSUME SessionsAssumption ==
    /\ none \notin Planned \cup {"active", "completed"} /\ none \notin [Planned -> Said]
    /\ none \notin [feature : Planned, step : {"test", "commit", "record"}]
    /\ MaxCheckpointed \in Nat /\ MaxNumbered \in Nat /\ MaxDeaths \in Nat

(* A file keeps a version at least; limits and expiries are counted.       *)
ASSUME DriveAssumption ==
    /\ VersionsKept \in Nat \ {0} /\ Limits \subseteq Nat /\ Expiries \subseteq Nat
    /\ MaxAnswered \in Nat /\ MaxShared \in Nat

(* None is no value, time or item of a memory; confidences are counted.    *)
ASSUME MemoryAssumption ==
    /\ none \notin Nat /\ none \notin [value : Nat, confidence : Nat, updated : Nat]
    /\ Confidences \subseteq Nat /\ {Certain, Lifetime, PadSize, DebtSize} \subseteq Nat
    /\ {MaxStored, MaxTicks, MaxTraces} \subseteq Nat /\ none \notin Reports
    /\ \A m \in Reports : HeadOf[m] \in HeadsIn[m]

VARIABLES
    part,
    task, submitting, queue, sentinels, worker, running,      \* LearningQueue
    stopping, left, lock, attempts, late, stops,
    canary, active, picked,                                   \* StrategyCanary
    available, busy, audit, queued, registered, loose,        \* AuditSystem
    lines, acked, offset, replay, seen, shifted, crashes,     \* EventLog
    entries, byKey, handling, cases, runs, benchmark,         \* QualityLoop
    thresholds, evaluations, evaluating, day,
    kind, patterns, scan, records, broken,                    \* ErrorRecords
    log, events, byComponent, cleaning, reader, answers, report, hour,
    exec, saved, memory, call, overlapped, saves, first, ends,   \* Stability
    list, named, head, session, current, work, checkpoints,   \* LongRunning
    progress, kept, tracked, numbered, cut, deaths, resets,
    files, dirs, meta, versions, share, now, calls,           \* CloudDrive
    policy, layers, written, store, expiry, stack,            \* MemoryStores
    objects, pad, snapshot, known, debt, observed, writes, third

learningVars == <<task, submitting, queue, sentinels, worker, running,
                  stopping, left, lock, attempts, late, stops>>
canaryVars == <<canary, active, picked>>
auditVars == <<available, busy, audit, queued, registered, loose>>
eventVars == <<lines, acked, offset, replay, seen, shifted, crashes>>
workVars == <<learningVars, canaryVars, auditVars, eventVars>>
qualityVars == <<entries, byKey, handling, cases, runs, benchmark,
                 thresholds, evaluations, evaluating, day>>
errorVars == <<kind, patterns, scan, records, broken,
               log, events, byComponent, cleaning, reader, answers, report, hour>>
stabilityVars == <<exec, saved, memory, call, overlapped, saves, first, ends>>
longVars == <<list, named, head, session, current, work, checkpoints,
              progress, kept, tracked, numbered, cut, deaths, resets>>
driveVars == <<files, dirs, meta, versions, share, now, calls>>
memoryVars == <<policy, layers, written, store, expiry, stack,
                objects, pad, snapshot, known, debt, observed, writes, third>>
keptVars == <<longVars, driveVars, memoryVars>>
vars == <<part, workVars, qualityVars, errorVars, stabilityVars, keptVars>>

MCSources == {[secrets |-> 1, long |-> 4, todos |-> 0], [secrets |-> 0, long |-> 5, todos |-> 1],
              [secrets |-> 2, long |-> 20, todos |-> 1]}
MCDimensionSets == {{"code_quality"}, {"code_quality", "security", "maintainability"}}
(* the second of the common patterns matches what the first does, and more *)
MCKnownMatches == <<{a1}, {a1, a2}>>
MCNewMatches == {{a2}, {}}
MCReleaseOf == c1 :> s1 @@ c2 :> s1
MCNeeds == f1 :> {} @@ f2 :> {f1}
MCPriorityRank == f1 :> 1 @@ f2 :> 2
MCRule == [n \in {"a", "b"} |-> "workspace"]
(* the first two are texts that begin alike; confidences are halves *)
MCHeadOf == c1 :> 1 @@ c2 :> 1 @@ f1 :> 2
MCHeadsIn == c1 :> {1} @@ c2 :> {1} @@ f1 :> {1, 2}

Learning == INSTANCE LearningQueue WITH
    Tasks <- Lessons, Urgent <- Pressing, Workers <- Learners, NumWorkers <- NumLearners,
    MaxSize <- QueueSize, MaxRetries <- MaxAttempts, Nobody <- none,
    calls <- attempts

Canaries == INSTANCE StrategyCanary WITH
    Canaries <- Releases, StrategyOf <- ReleaseOf,
    Initial <- FirstShare, Increment <- ShareStep, Full <- FullShare,
    AutoRollback <- RollsBack, AutoPromote <- Promotes, None <- none

Audits == INSTANCE AuditSystem WITH
    Instances <- Auditors, Audits <- Reviews, Codes <- Sources, Nobody <- none

(* Lines are counted, and scores come from the dimensions there are.       *)
ASSUME AuditsAssumption ==
    /\ Sources \subseteq [secrets : Nat, long : Nat, todos : Nat]
    /\ DimensionSets \subseteq SUBSET Audits!Dimensions
    /\ Required \in Nat

Events == INSTANCE EventLog WITH
    Topics <- Subjects, Other <- Foreign, Subscribers <- Readers

Quality == INSTANCE QualityLoop WITH
    Threads <- {w1, w2}, Components <- {c1, c2}, Operations <- {s1}, Handled <- {c1},
    None <- none, Ratings <- {2}, Limit <- 2, Days <- 1, Recent <- 2,
    Metrics <- {a1, a2}, Levels <- {-1, 0, 1}, Lower <- {a2}, MaxEntries <- 3, MaxTime <- 2,
    MaxCases <- 2, MaxRuns <- 2, MaxEvaluations <- 1,
    index <- byKey, submitting <- handling, running <- benchmark, now <- day

Errors == INSTANCE ErrorRecords WITH
    Threads <- Watchers, Messages <- Complaints, Components <- Places, None <- none,
    Common <- KnownMatches, Registrable <- NewMatches, Retention <- KeptHours, Window <- ReportHours,
    MaxPatterns <- MaxKinds, MaxScans <- MaxWatched, MaxTime <- MaxHours,
    MaxEvents <- MaxFailed, MaxReads <- MaxAsked,
    index <- byComponent, now <- hour

Stable == INSTANCE Stability WITH
    Stages <- Phases, First <- FirstPhase, Rich <- RichPhases, Updating <- UpdatingPhases,
    Calls <- Callers, None <- none, MaxCheckpoints <- CheckpointsKept,
    MaxSaves <- MaxSaved, MaxTime <- MaxSeconds, MaxCrashes <- MaxEnds,
    files <- saved, now <- first, crashes <- ends

Long == INSTANCE LongRunning WITH
    Features <- Planned, None <- none, Depends <- Needs, Rank <- PriorityRank,
    TestCallback <- Tested, Interval <- CheckpointInterval,
    MaxCheckpoints <- MaxCheckpointed, MaxLines <- MaxNumbered, MaxCrashes <- MaxDeaths,
    lines <- numbered, crashes <- deaths

Drive == INSTANCE CloudDrive WITH
    Names <- FileNames, None <- none, MaxVersions <- VersionsKept,
    MaxCalls <- MaxAnswered, MaxTime <- MaxShared

Memory == INSTANCE MemoryStores WITH
    None <- none, Keys <- Remembered,
    Policies <- {"prefer_newer", "prefer_existing", "prefer_higher_confidence"},
    Full <- Certain, High <- Assured, Ttl <- Lifetime, MaxEntries <- PadSize,
    Messages <- Reports, Holds <- HeadsIn, MaxItems <- DebtSize,
    MaxWrites <- MaxStored, MaxTime <- MaxTicks, seen <- observed, now <- third

Init ==
    /\ part \in {"learning", "canaries", "audits", "events",
                 "feedback", "benchmark", "evaluation", "match", "analyze",
                 "alone", "shared", "long", "again", "drive", "hub", "kernel", "pad", "reflect"}
    /\ Learning!Init /\ Canaries!Init /\ Audits!Init /\ Events!Init
    /\ Quality!Init
    /\ Errors!Init /\ (part # "match" => kind = "errors")
    /\ Stable!Init
    /\ Long!Init /\ (part # "long" => named)
    /\ Drive!Init
    /\ Memory!Init /\ (part # "hub" => policy = "prefer_newer")

Work ==
    /\ \/ part = "learning" /\ Learning!Next /\ UNCHANGED <<canaryVars, auditVars, eventVars>>
       \/ part = "canaries" /\ Canaries!Next /\ UNCHANGED <<learningVars, auditVars, eventVars>>
       \/ part = "audits" /\ Audits!Next /\ UNCHANGED <<learningVars, canaryVars, eventVars>>
       \/ part = "events" /\ Events!Next /\ UNCHANGED <<learningVars, canaryVars, auditVars>>
    /\ UNCHANGED <<qualityVars, errorVars, stabilityVars, keptVars>>

Judge ==
    /\ \/ part = "feedback" /\ Quality!Feedback
       \/ part = "benchmark" /\ Quality!Benchmark
       \/ part = "evaluation" /\ Quality!Evaluation
    /\ UNCHANGED <<workVars, errorVars, stabilityVars, keptVars>>

Explain ==
    /\ \/ part = "match" /\ Errors!Match /\ hour' <= 1
       \/ part = "analyze" /\ Errors!Analyze
    /\ UNCHANGED <<workVars, qualityVars, stabilityVars, keptVars>>

Resume ==
    /\ Stable!Next
    /\ \A c \in Callers :               \* the callers are alike: c1 before c2
          call[c] = none /\ call'[c] # none => c = c1 \/ call[c1] # none
    /\ \/ /\ part = "alone" /\ saves' < MaxSaved
          /\ \A c \in Callers \ {c1} : call'[c] = none
       \/ /\ part = "shared" /\ first' = 1 /\ ends' = 0
          /\ exec' # none => exec'.status = "running"
          /\ IF \A f \in saved : f.whole
             THEN \A c \in Callers : call'[c] # none /\ call'[c].op = "transfer" =>
                     call'[c].target # FirstPhase
             ELSE \A f \in saved' : f.whole
    /\ UNCHANGED <<workVars, qualityVars, errorVars, keptVars>>

Keep ==
    /\ \/ /\ Long!Next
          /\ \/ /\ part = "long"         \* one initialisation, that comes through
                /\ Long!InitializeProject => list = none
                /\ Long!CreateInitialCommit => head' = list
                /\ session = none /\ work # none => work' # none \/ numbered' # numbered
             \/ part = "again" /\ deaths' = 0 /\ (Long!InitializeRaises => tracked # {})
          /\ UNCHANGED <<driveVars, memoryVars>>
       \/ /\ part = "drive" /\ Drive!Next     \* time is for shares only
          /\ now' # now => \E s \in Shares : share[s] # none
          /\ UNCHANGED <<longVars, memoryVars>>
       \/ /\ \/ part = "hub" /\ Memory!Hub
             \/ part = "kernel" /\ Memory!Kernel
             \/ part = "pad" /\ Memory!Pad
             \/ part = "reflect" /\ Memory!Reflect
          /\ UNCHANGED <<longVars, driveVars>>
    /\ UNCHANGED <<workVars, qualityVars, errorVars, stabilityVars>>

Next == UNCHANGED part /\ (Work \/ Judge \/ Explain \/ Resume \/ Keep)

Spec == Init /\ [][Next]_vars
-----------------------------------------------------------------------------
(* The handler sees a task max_retries times at most, whatever submit(),   *)
(* cancel_task, stop and restart do in between; and a QUEUED task is where *)
(* a worker will find it, unless its submit() wrote QUEUED late            *)
(* (LearningQueue).                                                        *)
LearningSound ==
    part = "learning" =>
        Learning!TypeOK /\ Learning!AttemptsBounded /\ Learning!QueuedIsReachable

(* No request is routed to a canary that has ended, though canaries of one *)
(* strategy take each other's place, and none is SUCCEEDED with less than  *)
(* the full share (StrategyCanary.check_canary, rollback_canary).          *)
CanariesSound ==
    part = "canaries" =>
        Canaries!TypeOK /\ Canaries!TrafficOnlyToRunning /\ Canaries!PromotedAtFull

(* Nobody audits a task it worked on, and an auditor has one unreported    *)
(* audit at a time unless it was registered again or freed twice           *)
(* (AuditSystem, AuditorIsolation); code with a secret does not proceed,   *)
(* and worse code, or more dimensions, lose no advice (execute_audit).     *)
AuditorsIndependent ==
    part = "audits" =>
        Audits!TypeOK /\ Audits!AuditorsIndependent /\ Audits!VerdictsConsistent

(* At least once: a subscriber's offset never passes an event its handler  *)
(* has not been called with, through crashes, two replays at a time and    *)
(* torn lines, unless a bare last line was read and then destroyed         *)
(* (PersistentEventBus.replay over JsonlWAL).                              *)
NothingSkipped == part = "events" => Events!TypeOK /\ Events!NothingSkipped

(* An aggregation counts the newest feedbacks of its period and no entry   *)
(* twice (FeedbackLoop); a benchmark has a result for each of its cases    *)
(* and a run without failures is no regression (OfflineBenchmark); and an  *)
(* evaluation passes exactly if its values reached the thresholds of their *)
(* time, which for latencies, error rates and evaluators that raised is    *)
(* not what evaluate means (QualityEvaluator).                             *)
QualitySound ==
    /\ part = "feedback" => Quality!TypeOK /\ Quality!AggregatesNewest
    /\ part = "benchmark" => Quality!TypeOK /\ Quality!RunsAddUp
    /\ part = "evaluation" => Quality!TypeOK /\ Quality!EvaluationsSound

(* A recorded error has the first pattern that matched it when its scan    *)
(* began, and a pattern's books are those of its records                   *)
(* (ErrorPatternRegistry, AntiPatternDetector); a reader of failures sees  *)
(* all that are recent, though cleanups run all the time                   *)
(* (FailureAnalyzer).                                                      *)
ErrorsSound ==
    /\ part = "match" => Errors!TypeOK /\ Errors!CountsMatchRecords
    /\ part = "analyze" => Errors!TypeOK /\ Errors!FailuresFound

(* Whatever the active context holds can be read back from one whole       *)
(* checkpoint: it is made before the context is replaced, and compactions, *)
(* recoveries and slower calls leave one that covers it, unless it was     *)
(* read back while another call was being saved                            *)
(* (StabilityService, CheckpointManager).                                  *)
ContextOnDisk ==
    part \in {"alone", "shared"} => Stable!TypeOK /\ Stable!ContextOnDisk

(* A feature is left in progress, where no session selects it again, only  *)
(* by the death of the process; until a death or a reset, progress.jsonl   *)
(* says of a passed feature what feature_list.json says; and the manager   *)
(* knows nothing from after the file was last written anew, by a reset or  *)
(* another initialisation, that is not in it (CodingAgent, SessionManager, *)
(* InitializerAgent, ProgressTracker).                                     *)
SessionsSound ==
    part \in {"long", "again"} => /\ Long!TypeOK /\ Long!InProgressIsWorkedOn
                                  /\ Long!PassedIsRecorded /\ Long!NothingOnlyInMemory

(* A file that downloads as its metadata says goes on doing so unless it   *)
(* is deleted, moved onto a directory, or another entry of the drive is on *)
(* its path or above it; the newest version kept is the content the        *)
(* metadata names, and a limited share is never served more often than its *)
(* limit (CloudDriveService over LocalStorage).                            *)
DriveSound ==
    /\ [](part = "drive" => Drive!TypeOK /\ Drive!VersionsFollow)
    /\ [][part = "drive" => Drive!StaysIntact]_vars

(* A memory layer keeps the survivor its policy asks for (ConflictResolver,*)
(* LayeredMemoryHub.upsert); a time to live has its key (MemoryAdapter);   *)
(* the scratchpad stays within max_entries, restored or not; and an error  *)
(* in which a learnt one occurs is recognised (SimpleMetacognitionLoop).   *)
MemorySound ==
    /\ part \in {"hub", "kernel", "pad", "reflect"} => Memory!TypeOK
    /\ part = "hub" => Memory!SurvivorKept
    /\ part = "kernel" => Memory!TimesHaveKeys
    /\ part = "pad" => Memory!PadBounded
    /\ part = "reflect" => Memory!LearntIsRecognised
=============================================================================
