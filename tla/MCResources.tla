---------------------------- MODULE MCResources -----------------------------
(***************************************************************************)
(* What tenants and the console share: core/multi_tenant, core/caching,    *)
(* the state stores, model routing, the console, reasoning, assessment.    *)
(* The parts share no state, so one of them, chosen in the initial state,  *)
(* takes all the steps of a behaviour: the state spaces add up instead of  *)
(* multiplying.                                                            *)
(***************************************************************************)
EXTENDS Integers, Sequences, FiniteSets, TLC

CONSTANTS
    r1, r2, a, b, c, t1, t2, none,
    Pools, Resources, PoolOf, Tenants, Capacity, Requested, MaxAllocs, MaxAdds, \* the pools
    RateKeys, RateLimits, MaxClock, MaxWindows,     \* the rate limiter
    TenantThreads, Names, MaxTenants,               \* its threads, and the registry's
    LocalKeys, Tags, Sizes, MaxEntries, MaxSize,    \* the local cache
    CacheKeys, CacheTagged, CacheThreads,           \* the tiers of the cache
    MaxSource, MaxWrites, MaxSynced,
    Processes, Nodes, NodeStatuses, LeaseTtl,       \* the stores
    Statements, Migrations, MaxPuts, LastTick, MaxDeaths

(* Pools are numbered in the order they were created.                      *)
ASSUME TenancyAssumption ==
    /\ Pools \subseteq Nat /\ IsFiniteSet(Pools)
    /\ Capacity \in [Resources -> Nat] /\ Requested \subseteq Nat /\ none \notin Resources
    /\ RateLimits \subseteq [max : Nat, window : Nat, enabled : BOOLEAN]
    /\ MaxClock \in Nat /\ MaxTenants \in Nat

ASSUME CacheAssumption ==
    /\ Sizes \subseteq Nat /\ MaxEntries \in Nat /\ MaxSize \in Nat
    /\ MaxSource \in Nat /\ MaxWrites \in Nat /\ MaxSynced \in Nat

(* A migration is a sequence of statements. "pending" is what a node is    *)
(* before its first mark; a file without a lease, or half written, shows   *)
(* no process.                                                             *)
ASSUME StoresAssumption ==
    /\ "pending" \notin NodeStatuses
    /\ "torn" \notin Processes
    /\ none \notin [owner : Processes \cup {"torn"}, until : Nat]
    /\ Migrations \in Seq(Seq(Statements))
    /\ LeaseTtl \in Nat /\ LastTick \in Nat /\ MaxPuts \in Nat /\ MaxDeaths \in Nat

VARIABLES
    part,
    members, allocs, tenantAllocs, search, added, lost,       \* ResourcePool
    policy, counters, windows, limiterPc, clock, fresh,       \* RateLimiter
    tenants, live, index, registryPc, disturbed,              \* TenantRegistry
    cache,                                                    \* L1Cache
    source, l1, l2, counter, doing, clean, synced,            \* CacheTiers
    row, log, file, doer, storeNow, deaths,                   \* StateStores
    held, stale, stored, lostMark, tables, versions, service, raced,
    call, answer, approvals, audit, lock, proc, process, crashes,   \* Console
    models, meta, able, sessionModel, chooser, known, wrong,  \* Routing
    instances, active, turn, strategy, pick, foreign, picks, prompt,
    problem, todo, used, reply, confidence,                   \* Reasoning
    nodes, frontier, layer, depth, samples, trace, current,
    table, reader, published, uploaded, got,                  \* Feed
    pending, items, heard, last, due, slow, dirty, broken, second, events,
    predictions, adjustments, signals, history, undone,       \* Assessor
    metrics, anomalies, answers, recorded                     \* Feed, too

poolVars == <<members, allocs, tenantAllocs, search, added, lost>>
limiterVars == <<policy, counters, windows, limiterPc, clock, fresh>>
registryVars == <<tenants, live, index, registryPc, disturbed>>
tenancyVars == <<poolVars, limiterVars, registryVars>>
tiersVars == <<source, l1, l2, counter, doing, clean, synced>>
cachingVars == <<cache, tiersVars>>
storeVars == <<row, log, file, doer, storeNow, deaths, held, stale, stored, lostMark,
               tables, versions, service, raced>>
consoleVars == <<call, answer, approvals, audit, lock, proc, process, crashes>>
routingVars == <<models, meta, able, sessionModel, chooser, known, wrong,
                 instances, active, turn, strategy, pick, foreign, picks, prompt>>
reasonVars == <<problem, todo, used, reply, confidence, nodes, frontier, layer, depth,
                samples, trace, current>>
feedVars == <<table, reader, published, uploaded, got, pending, items, heard, last, due,
              slow, dirty, broken, second, events>>
gradeVars == <<predictions, adjustments, signals, history, undone,
               metrics, anomalies, answers, recorded>>
vars == <<part, tenancyVars, cachingVars, storeVars, consoleVars, routingVars,
          reasonVars, feedVars, gradeVars>>

MCMigrations == << <<r1, r2>>, <<c>> >>

MCPoolOf == r1 :> 1 @@ r2 :> 1
MCCapacity == r1 :> 2 @@ r2 :> 3
MCLimits == {[max |-> 1, window |-> 2, enabled |-> TRUE],
             [max |-> 2, window |-> 2, enabled |-> TRUE],
             [max |-> 1, window |-> 1, enabled |-> FALSE]}

Tenant == INSTANCE MultiTenant WITH
    NoTenant <- none, Amounts <- Requested,
    Keys <- RateKeys, Threads <- TenantThreads, NoPolicy <- none, Limits <- RateLimits,
    MaxTime <- MaxClock

Cached == INSTANCE Caching WITH
    Keys <- CacheKeys, Tagged <- CacheTagged, Threads <- CacheThreads, None <- none

Stores == INSTANCE StateStores WITH
    Statuses <- NodeStatuses, Ttl <- LeaseTtl, None <- none, Schema <- Migrations,
    MaxWrites <- MaxPuts, MaxTime <- LastTick, MaxCrashes <- MaxDeaths,
    proc <- doer, now <- storeNow, crashes <- deaths

Web == INSTANCE Console WITH
    Threads <- {t1, t2}, Roles <- (a :> "admin" @@ b :> "reader"), Asked <- {c},
    Processes <- {r1, r2, t1}, None <- none, MaxRequests <- 3, MaxCrashes <- 1

(* a good, slow and dear model, and a quick and cheap one that cannot do   *)
(* what is asked for                                                       *)
ModelData ==
    a :> [quality |-> 900, affinity |-> 900, cost |-> 800, latency |-> 2000, p95 |-> 4000,
          able |-> TRUE, preferred |-> FALSE] @@
    b :> [quality |-> 700, affinity |-> 700, cost |-> 100, latency |-> 500, p95 |-> 900,
          able |-> FALSE, preferred |-> TRUE]

Models == INSTANCE Routing WITH
    Models <- {a, b}, Sessions <- {c}, Threads <- {t1, t2}, None <- none, Data <- ModelData,
    Weights <- [quality |-> 350, cost |-> 200, latency |-> 200, load |-> 100, affinity |-> 150],
    Requests <- {[fast |-> FALSE, cheap |-> FALSE, able |-> FALSE, session |-> c],
                 [fast |-> TRUE, cheap |-> FALSE, able |-> FALSE, session |-> c],
                 [fast |-> FALSE, cheap |-> TRUE, able |-> TRUE, session |-> none]},
    MaxLatency <- 1000, MaxCost <- 500,
    Instances <- {r1, r2}, Copies <- (r1 :> 1 @@ r2 :> 2), Calls <- {t1, t2}, MaxPicks <- 4,
    Limits <- [length |-> 6, structure |-> 2, reasoning |-> 4, math |-> 2, coding |-> 4,
               creative |-> 4, context |-> 3, technical |-> 2],
    index <- able, call <- pick

Thought == INSTANCE Reasoning WITH
    Scores <- {4, 6, 8}, Texts <- {a, b}, MaxDepth <- 2, BranchFactor <- 2, BeamWidth <- 1,
    NumSamples <- 5, MaxIterations <- 3, Improvement <- 1, MinScore <- 7, None <- none,
    answer <- reply, next <- layer

Views == INSTANCE Feed WITH
    Rows <- {1, 2, 3}, Workflows <- {a, b}, Limit <- 2, Versions <- {r1, r2},
    Dags <- {t1, t2}, Actors <- {c}, Longest <- 4,
    MaxTime <- 28, MaxWrites <- 3, MaxEvents <- 2, LastEvent <- 7, None <- none,
    Values <- {2, 3, 8}, Spike <- 15, High <- 17, Window <- 2, Most <- 5, Kept <- 4, Recent <- 3,
    Averaged <- 3, MaxPoints <- 7, MaxAnswers <- 1,
    Scenarios <- {[traffic |-> 5, latency |-> 0, errors |-> none],
                  [traffic |-> 0, latency |-> 2, errors |-> none],
                  [traffic |-> 0, latency |-> 0, errors |-> 2]},
    approvals <- pending, now <- second

(* an answer with nothing wrong but one key its steps do not share, the    *)
(* same as a text that contradicts itself, two dull ones, a bare list of   *)
(* steps, and one whose confidence has no bin                              *)
Good == [kind |-> "dict", contradictions |-> 0, alignment |-> 100, common |-> 1, keys |-> 2,
         confidence |-> 100, required |-> 3, present |-> 3, readable |-> TRUE,
         short |-> FALSE, dull |-> FALSE, irrelevant |-> FALSE]
Dull == [Good EXCEPT !.common = 2, !.confidence = none, !.present = 2, !.short = TRUE,
                     !.dull = TRUE, !.irrelevant = TRUE]
Answers == {Good,
            [Good EXCEPT !.kind = "text", !.contradictions = 2, !.alignment = 80, !.confidence = 30],
            Dull, [Dull EXCEPT !.present = 1],
            [Good EXCEPT !.kind = "list", !.confidence = none, !.readable = FALSE],
            [Good EXCEPT !.common = 2, !.confidence = 0 - 50, !.required = 0, !.readable = FALSE]}

Graded == INSTANCE Assessor WITH
    Contents <- Answers, None <- none, Enough <- 2, Amounts <- {100, 0 - 100}, Rate <- 10,
    MaxAssessed <- 2, MaxSignals <- 2

Init ==
    /\ part \in {"pool", "limiter", "registry", "l1", "tiers", "stores", "schema", "console",
                 "choose", "balance", "estimate", "reason", "assess", "measure",
                 "pages", "versions", "stream"}
    /\ Tenant!PoolInit
    /\ Tenant!LimiterInit /\ (part # "limiter" => policy = none)
    /\ Tenant!RegistryInit
    /\ Cached!LocalInit /\ Cached!TiersInit
    /\ Stores!Init
    /\ Web!Init
    /\ Models!Init /\ Thought!Init /\ Views!Init
    /\ Graded!Init /\ Views!MetricInit

Tenancy ==
    /\ \/ part = "pool" /\ Tenant!PoolNext /\ UNCHANGED <<limiterVars, registryVars>>
       \/ part = "limiter" /\ Tenant!LimiterNext /\ UNCHANGED <<poolVars, registryVars>>
       \/ part = "registry" /\ Tenant!RegistryNext /\ UNCHANGED <<poolVars, limiterVars>>
    /\ UNCHANGED <<cachingVars, storeVars, consoleVars, routingVars>>

Caching ==
    /\ \/ part = "l1" /\ Cached!LocalNext /\ UNCHANGED tiersVars
       \/ part = "tiers" /\ Cached!TiersNext /\ UNCHANGED cache
    /\ UNCHANGED <<tenancyVars, storeVars, consoleVars, routingVars>>

Storing ==
    /\ \/ part = "stores" /\ Stores!Storing
       \/ part = "schema" /\ Stores!Starting
    /\ UNCHANGED <<tenancyVars, cachingVars, consoleVars, routingVars>>

Serving ==
    /\ part = "console" /\ Web!Next
    /\ UNCHANGED <<tenancyVars, cachingVars, storeVars, routingVars>>

Choosing ==
    /\ \/ part = "choose" /\ Models!Choose
       \/ part = "balance" /\ Models!Balance
       \/ part = "estimate" /\ Models!Estimate
    /\ UNCHANGED <<tenancyVars, cachingVars, storeVars, consoleVars>>

Thinking ==
    /\ part = "reason" /\ Thought!Next
    /\ UNCHANGED <<tenancyVars, cachingVars, storeVars, consoleVars, routingVars>>

Showing ==
    /\ \/ part = "pages" /\ Views!Pages
       \/ part = "versions" /\ Views!Publishing
       \/ part = "stream" /\ Views!Streaming
    /\ UNCHANGED <<tenancyVars, cachingVars, storeVars, consoleVars, routingVars, reasonVars>>

Grading ==
    /\ \/ /\ part = "assess" /\ Graded!Next
          /\ UNCHANGED <<metrics, anomalies, answers, recorded>>
       \/ /\ part = "measure" /\ Views!Measuring
          /\ UNCHANGED <<predictions, adjustments, signals, history, undone>>
    /\ UNCHANGED <<tenancyVars, cachingVars, storeVars, consoleVars, routingVars>>

Next ==
    /\ UNCHANGED part
    /\ \/ /\ Tenancy \/ Caching \/ Storing \/ Serving \/ Choosing
          /\ UNCHANGED <<reasonVars, feedVars, gradeVars>>
       \/ Thinking /\ UNCHANGED <<feedVars, gradeVars>>
       \/ Showing /\ UNCHANGED gradeVars
       \/ Grading /\ UNCHANGED <<reasonVars, feedVars>>

Spec == Init /\ [][Next]_vars

(* the console alone *)
ConsoleSpec == part = "console" /\ Init /\ [][Next]_vars
-----------------------------------------------------------------------------
(* The pool's ledger of units and the two it may overcommit by one          *)
(* (MultiTenantResourcePool); a key that was never reset is granted no more *)
(* than the limit it started with in any stretch as long as its window,     *)
(* whatever threads race for it (RateLimiter); and while nobody renames a   *)
(* tenant, or deletes one before its creation returned, a name leads to a   *)
(* live tenant that has it: creations that race leave tenants without an    *)
(* entry, never an entry without a tenant (TenantManager).                  *)
TenancySound ==
    /\ part = "pool" => Tenant!PoolTypeOK /\ Tenant!PoolLedger /\ Tenant!OvercommitByOne
    /\ part = "limiter" => Tenant!LimiterTypeOK /\ Tenant!WindowBound
    /\ part = "registry" => Tenant!RegistryTypeOK /\ Tenant!NamesLeadToLive

(* The L1 cache's tag index, count and total size, kept up by hand in      *)
(* every operation, describe its entries, and its limits hold              *)
(* (L1LocalCache); a key whose data changed and that was invalidated shows *)
(* the old data in neither tier unless a writer of old data put it there   *)
(* (MultiTierCacheManager.get, get_or_set, invalidate).                    *)
CacheSound ==
    /\ part = "l1" => Cached!LocalTypeOK /\ Cached!BooksMatch /\ Cached!LimitsKept
    /\ part = "tiers" => Cached!TiersTypeOK /\ Cached!StaleOnlyByWriters

(* A swap on L2 replaces what its caller read, until an entry of a peer    *)
(* arrives whose version this node uses again (compare_and_set).           *)
SwapKeepsUpdates == [][part = "tiers" => Cached!SwapReplacesRead]_vars

(* Two processes hold a lease at once only after a step was taken on a     *)
(* file that another had changed since it was read (LeaseStore); what the  *)
(* log says of a node was in the state store before, and the store keeps   *)
(* it unless a mark or a swap replaced a row it had not read (mark_node,   *)
(* compare_and_swap); and a service that is up has every table, wherever   *)
(* one that started with it died (StateDB.migrate).                        *)
StoresSound ==
    /\ part = "stores" => Stores!TypeOK /\ Stores!OneHolder /\ Stores!LogFollowsStore
    /\ part = "schema" => Stores!TypeOK /\ Stores!SchemaComplete

(* However starts, stops and the system's own exits interleave, at most    *)
(* one system runs that was not killed and the manager knows it            *)
(* (SystemManager); every answered request left one audit row, of its      *)
(* answer, and an approval the guard asked for has its row unless the      *)
(* request was cut off between the two commits (_guard); reading page      *)
(* after page shows every row once, a version asked for is never answered  *)
(* with another, and what changed is shown within 10 seconds unless an     *)
(* iteration of the stream was slow or cut short since                     *)
(* (list_runs, _workflows_get, _events_stream); and a jump that is         *)
(* repeated, or a trend over two windows of a history that is being cut,   *)
(* is reported, and predictions stay within what was measured              *)
(* (PredictiveConsole.record_metric, predict, simulate_scenario).          *)
ConsoleSound ==
    /\ part = "console" => Web!TypeOK /\ Web!OneSystem /\ Web!AuditTrail
    /\ part = "pages" => Views!TypeOK /\ Views!PagesComplete
    /\ part = "versions" => Views!TypeOK /\ Views!VersionHonest
    /\ part = "stream" => Views!TypeOK /\ Views!RefreshedInTime
    /\ part = "measure" =>
          /\ Views!HistoryTypeOK /\ Views!JumpNoticed /\ Views!TrendsSurviveTrims
          /\ Views!AnswersSound

(* The decision of somebody permitted to decide settles the approval it    *)
(* names (POST /v1/approvals/{id}/decision).                               *)
DecisionsSettle == Web!DecisionsSettle

(* What a selection picks was available, within the request's limits and   *)
(* able when its candidates were read, and a session is sent back only to  *)
(* a model picked for it (ModelSelector.select); since the instances last  *)
(* changed each had its share of the turns, and the connections counted    *)
(* for it are the calls under way (LoadBalancer); a prompt that grows in   *)
(* anything but creative words is never rated simpler                      *)
(* (ComplexityEstimator); and the reasoning's answer is that of its most   *)
(* confident strategy, a tree's path that of its best leaf, a reflection's *)
(* text the best it tried (ReasoningOrchestrator.reason); an assessment    *)
(* that is better in everything is of no higher risk, feedback that is     *)
(* withdrawn has no effect, and the bins of the calibration cost at most   *)
(* five hundredths (SelfSupervisedQualityAssessor.assess, FeedbackLoop).   *)
RoutingSound ==
    /\ part = "choose" => Models!TypeOK /\ Models!SelectionSound
    /\ part = "balance" => Models!TypeOK /\ Models!TurnsShared /\ Models!ConnectionsCounted
    /\ part = "estimate" => Models!ComplexityGrows
    /\ part = "reason" =>
          Thought!TypeOK /\ Thought!BestPathSound /\ Thought!ReflectionSound /\ Thought!AnswerSound
    /\ part = "assess" =>
          Graded!TypeOK /\ Graded!RiskFollowsScores /\ Graded!FeedbackUndone /\ Graded!CalibrationClose
=============================================================================
