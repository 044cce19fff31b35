# agent_openclawd in TLA+

A verification project for agent_openclawd (`src/MD2/code`): the control plane
(the services that schedule, drive and execute workflows over one SQLite
database), the failover between model instances, and the components around them
that share, ration, hand out or record something. Modules are checked with TLC
and, where marked, proved with TLAPS. `PROJECT.json` maps every definition to the
lines it models, and lists components, runs, hazards, findings and theorems.

## 1. The system

Services are processes kept by systemd (`src/MD2/systemd`, `Restart=on-failure`),
each with a `tick()` called about once a second (`services/service_base.py`).
They share one SQLite file through `StateDB` (`core/persistence/state_db.py`),
whose lock orders the threads of one process only: between a SELECT and the
UPDATE that follows it, another process may commit.

```
  browser --HTTP--> BFF (a thread per request) -- guard, approvals, audit rows, event stream
                     | creates schedules, runs, workflows, items; decides approvals
  scheduler --upsert_run--> runs --scan--> orchestrator --enqueue--> work_items
                                               ^                        |
                                               +------ verdict ------ runner (+ remote agents)
                                                                        |
  inside a process:  model hub (route, balance, fail over), caches, tenancy, queues of
  learning tasks, canaries, agent pool, message bus, workflow instances, checkpoints,
  sessions, memory, cloud drive, audits, scores, entropy governance
```

The services of the first four lines meet in the database's tables. The
components of the last paragraph are libraries: none of them shares state with
another, apart from the workflow orchestrator with the instance manager, the
console with the tables, and those that are one module here.

| Component | State | Operations | What is hard |
|---|---|---|---|
| Work queue (`state_db.py`) | `work_items`: status, agent, lease | enqueue, claim, mark running, ack, reclaim | SELECT/UPDATE races between processes, leases that expire, guards that do not check the status |
| Runner (`runner_service.py`, `recovery/`) | item in hand, idempotency files | tick: reclaim, claim, mark, check, execute, record, ack | a crash between any two commits; at most once against never again |
| Orchestrator (`run_engine.py`) | `runs`, `node_runs`, `approvals` | tick: scan, unblock, load, insert, dispatch, collect, finish | rows read once and used for the whole pass, concurrent upserts of a run, new workflow versions |
| Scheduler (`core/scheduler`) | `schedules`, `schedule_triggers` | compute, tick | late ticks, jitter, three commits per firing, 0 as a marker, PATCH during a tick |
| BFF (`bff_service.py`) | open requests, the system's process, streams | guard, decide, control, lists, versions, events | two commits per refusal, threads that start and stop one process, changes between two polls |
| Stores (`executor.py`, `sqlite_store.py`, `idempotency.py`) | run records, leases, schema | mark, compare and swap, acquire, migrate | reads and writes of several processes with nothing between them |
| WAL, persistent bus | file of lines, offsets | append, replay | torn lines, crash between handler and offset |
| Model hub (`core/model_hub`) | circuits, health, loads, sessions | select, balance, execute with failover, check | half-open slots taken by queries, results of concurrent calls, checks that outlive a registration |
| Tenancy (`core/multi_tenant`) | quotas, windows, allocations, tenants | consume, reserve, limit, allocate, create | a lock taken twice, check and record under two locks, two dictionaries for one fact |
| Caching (`core/caching`) | two tiers, tag index, broadcasts | get, set, get_or_set, swap, invalidate, sync | stale values stored after an invalidation, books kept by hand |
| Learning queue, error records (`core/error_learning`) | tasks, workers, patterns, failures | submit, process, retry, stop, record, match | workers that finish a task before submit has written its status; dictionaries walked while they change |
| Canaries, feedback, benchmarks (`core/quality_feedback`) | releases, entries, runs | route, record, check, promote, aggregate, compare | a monitor that picks a canary and checks it later |
| Audits (`core/audit`) | auditors, tasks | assign, execute, release | isolation against retries and second registrations |
| Agents, message bus | agents, subscriptions | dispatch, complete, block, publish | agents that fail in mid-task; handlers that change what is iterated |
| Workflows, instances, stability (`core/workflow`, `instance`, `stability`) | executions, quotas, checkpoints | start, complete, cancel, recover, restore | awaits between check and set; crashes between files |
| Long running agents | feature list, progress lines, commits | sessions, features, resets | files that are rolled back by git under their reader |
| Memory, cloud drive | layers, stores, scratchpad; files, versions, shares | write, evict, upload, move, share | conflicts, limits, metadata against disk |
| Entropy governance | sweeps, alerts, samples, books | sweep, watch, adapt, attribute | threads that share a flag, caches stamped before or after what they hold |
| Reasoning, assessment, predictions | strategies, calibration, histories | search, vote, assess, predict | boundaries of scores and bins, cut histories |

### Correctness, in short

An acknowledged item was executed and recorded, and is executed at most once
until something overwrites its row; a run reaches SUCCEEDED only when all its
rows have; a schedule fires, not early, not twice without a crash; a breaker
moves on results only; a resource given out is accounted for; what a reader is
shown was true at some time it can name; what was recorded is found again after
a restart; nobody judges its own work. Section 3 says run by run which of these
hold, under which conditions, and which do not.

## 2. Modules

### The control plane

| Module | Models | State | Actions |
|---|---|---|---|
| `Delivery` | what the orchestrator may rely on: a submitted item gets a verdict `ok` only if its key was recorded; verdicts change only when a claim is withdrawn | `known`, `recorded`, `verdict` | `Submit`, `Record`, `Accept`, `Reject`, `Withdraw` |
| `WorkQueue` | `work_items` and the idempotency store, the runner's `tick()`, claim and ack endpoints, recovery at the start of other services | one function per column; `pc`, `cur`, `ok` for the runner; what a remote claim or a recovery has selected and not yet written | one per commit: `RunnerSelect`/`RunnerClaim`, `BffClaimSelect`/`BffClaimUpdate`, `RunnerReclaimSelect`/`RunnerReclaimUpdate`, ... |
| `RunEngine` | `RunEngine.tick` with `_progress_run` and `_try_unblock`; queue seen through `Delivery` | the tables; the scan's result, the loaded version, the remembered rows (`cache`), the node index | one per commit, `SelectRun`/`WriteRun` for `update_run_status` |
| `Scheduler` | `ScheduleEngine.compute`, `ScheduleOnlyScheduler.tick`, create and patch | `schedules`, how often each run and trigger was written; `todo`, `firing` | `Poll`, `Take` (set first, pass over, start firing), `Raise` (a policy that `compute` raises for), `AddTrigger`, `Advance`, `PatchSelect`/`PatchUpdate` |
| `Failover` | `CircuitBreaker`, `HealthChecker`, `FailoverManager` | `registered` (insertion order), `breaker`, `status`; the place of each caller and of the checker | one per stretch between two awaits: `StartCall`, `OpSucceeds`, `OpFails`, `DelayOver`, `Cancelled`, `AskAll`, `BeginPass`, `CheckEnds`; operator commands |
| `QuotaManager` | `quota_manager.py` with its lock | quota, reservations, `pc` and the lock's holder | one per stretch between two uses of the lock |
| `WorkQueue_proofs`, `RunEngine_proofs`, `Scheduler_proofs`, `Failover_proofs` | the theorems of section 4 | | |

`RunEngine` INSTANCEs `Delivery`; `WorkQueue` implements `Delivery` under the
refinement mapping `Promise`. So what is shown about the orchestrator holds with
the real queue beneath it, as far as safety goes.

### The libraries

Three modules compose them for TLC: `MCResources` (what is shared and rationed),
`MCRecords` (what is written and read again) and `MCAgents` (who works on what).
A module that models two or three components (`MultiTenant`, `Caching`,
`EntropyRecords`) has an `Init` and a `Next` for each, with its name.
The parts of a composition share no state in the code either. The variable `part`,
chosen in the initial state, says which one takes the steps of a behaviour, and
every property speaks of its part, so state spaces add up instead of multiplying.

| Module | Models | A step is |
|---|---|---|
| `MultiTenant` | pools with allocations and drains; windows per key; tenants and the index of their names | a stretch under a lock, or between two dictionary writes without one |
| `Caching` | the local cache's entries, order, tag index and totals; both tiers with loads, swaps, invalidations and peers | a method under the lock; the reads and writes of `get_or_set` and of a swap are apart |
| `StateStores` | run record, log and lease file; schema migration | one read or write of one process |
| `Console`, `Feed` | guard, approvals, audit rows, `SystemManager`; pages, workflow versions, event stream; histories of a metric, anomalies, predictions, scenarios | one commit, one poll of the stream, or one recorded value |
| `Routing` | `ModelSelector`, `LoadBalancer`, complexity estimate | a call; the selector's read and use of the registry are apart, as they are for threads (`select` has no await and no lock) |
| `Reasoning`, `Assessor` | strategies of the orchestrator with tree search, vote, reflection; validators, calibration, feedback | one iteration, one assessment |
| `LearningQueue`, `ErrorRecords` | queue, workers and sentinels; registries and failure analysis | one use of a lock or one entry of a dictionary walked without it |
| `StrategyCanary`, `QualityLoop`, `AuditSystem` | canaries with their monitor; feedback, benchmarks, evaluations; auditors and verdicts | an operation under its lock; a handler outside it is a step of its own |
| `EventLog` | `JsonlWAL` and `PersistentEventBus` | a line, a delivery, a stored offset, a crash in mid-line |
| `Stability`, `Recovery` | checkpoints of one execution; `execute_with_stability`, idempotency and recovery strategies, merged outputs, restores | a stretch between two awaits; what a thread of the executor does to a file; a crash |
| `LongRunning` | sessions, features, commits, resets, progress lines | a write to one file |
| `MemoryStores`, `CloudDrive` | hub, kernel memory, scratchpad, metacognition; files, versions, shares, links | a call (none of them suspends) |
| `WorkflowOrchestrator` | executions stage by stage, over pools of instances | a stretch between two awaits |
| `AgentPool`, `MessageBus`, `CentralBrain` | agents and dispatch; publication; pending queue and in-memory schedules (`MCAgents` extends it) | a call; each delivery of a publish |
| `Entropy`, `EntropyRecords` | sweeps, alerts, samples and their table, adaptive thresholds; tasks, topics, inbox, and trends and attribution | a use of a lock (a record of a sample is two); one caller in the books |
| `MCResources_proofs`, `MCRecords_proofs`, `MCStored_proofs`, `MCAgents_proofs` | the theorems of section 4 | |

### Abstractions

A payload, a result, a trace id or a text is left out or is a model value; an
execution (`Coordinator.process_task`, not part of this commit) succeeds or
raises; a lease is a count of ticks, `0` meaning expired and `NoLease` none; an
idempotency key is the file `_safe_key` maps it to; wall-clock time is a counter.
Ids are numbers in the order their ORDER BY lists them. Scores are integers
(thousandths, hundredths or tenths; each module says which), rounded as the
comparisons that follow require. Where code reads keywords off a text, the text is
what it reads. Each module's heading names what it abstracts.

In `Failover`, `is_available` is a step with an effect: `Asked` takes a slot of a
half-open breaker or half-opens it, and an id that is not registered has a new
breaker and a new status, so it is available, as in the code. Counters saturate at
the threshold they are compared with, ages at the timeout, which also stands for
"no failure yet". Which instance an operation really reaches is not modelled:
`execute_with_failover` passes it no instance.

The handlers for work items, schedules, runs and workflows in `WorkQueue`,
`RunEngine` and `Scheduler` are the ones behind the BFF's guard, that is what they
do once let through; what the guard lets through is `Console`'s. The endpoints for
work items accept any `agent_id`; that remote agents claim and acknowledge under
ids other than the runner's is an assumption about them (`QueueAssumption`).

### Mutants

An operator whose comment says "Mutant" stands before the definition it varies and
is in no specification: it is the definition with a plausible bug. `PROJECT.json`
names one for each property; where a property has several parts, the others are
for the parts that one does not break (put one in place of its definition and
check the run again).

## 3. What is checked

Eight runs pass, four find what the code does not keep.

| Run | Instance | Shows |
|---|---|---|
| `work_queue` | 2 items (priority 1 and 10), 1 remote agent, 2 other services, lease of 1 tick, 1 crash, 1 restart, 2 remote claims | ACKED items were recorded and, with distinct key files, executed (`AckedWasRecorded`, `AckedWasExecuted`); only the runner settles; at most once and the table of transitions until another service recovers, live leases kept (`MovesSound`); a recorded key is never rerun; claims are released and items settle (`ItemsGoOn`); `Delivery` is implemented |
| `run_engine` | 2 runs, 4 nodes (2 tasks with an edge, approval, eval), 2 versions stored in turn, 1 crash, 2 upserts | no work item without a row, SUCCEEDED means all rows (`RowsSound`); no dispatch before its dependencies, none refused after a crash (`DispatchSound`); queued runs start, failed work fails its run, root tasks are dispatched (`RunsAdvance`) |
| `scheduler` | an interval schedule with jitter and a window schedule, 5 ticks, days of 3, 1 crash, 1 patch to any of four policies, one of which `compute` raises for | spacing of runs, no early run, one upsert per crash, triggers have runs (`TicksSound`); `next_fire_at` never goes back; due schedules fire unless a raising one stands before them, triggers are recorded in spite of a crash (`FiringsGoOn`) |
| `failover` | 2 callers (symmetric), 2 instances, thresholds 2, 1 half-open slot, timeout of 1 tick, 2 attempts, 1 forced change | how many calls a half-open breaker lets through (`ProbesBounded`); breakers move only on the results recorded (`BreakerFollowsResults`) |
| `health` | 1 caller, 2 instances, sick after 2 checks, 3 commands among start, stop, register, unregister | health follows the checks of the present registration; checks go on although handlers hang; calls end (`ChecksSound`) |
| `resources` | 2 threads or processes on each shared thing, see `MCResources` | `TenancySound`, `CacheSound`, `SwapKeepsUpdates`, `StoresSound`, `ConsoleSound`, `RoutingSound` |
| `records` | 2 threads, tasks, canaries, auditors, features, files of 2 versions, crashes where something is on disk, see `MCRecords` | `LearningSound`, `CanariesSound`, `AuditorsIndependent`, `NothingSkipped`, `QualitySound`, `ErrorsSound`, `ContextOnDisk`, `SessionsSound`, `MemorySound`, `DriveSound` |
| `agents` | 3 stages, of which the last joins the others, on 2 instances; 2 agents with 3 tasks, 3 subscriptions and 2 publishers, 3 queued tasks, 2 schedules, 2 engine threads, see `MCAgents` | `WorkflowSound`, `OneTaskAtATime`, `SubscribersServed`, `BrainSound`, `EntropySound`, `MeasureSound` |
| `stranded` | work queue, 1 crash | **violated**: a RUNNING item is never taken up again |
| `reclaim_race` | work queue, 1 restart of another service | **violated**: the reclaim overwrites RUNNING or ACKED with CREATED |
| `quota_deadlock` | `QuotaManager`, 2 threads | **violated**: `consume` never returns, its thread waits for the lock it holds, and so does everybody after it |
| `console_decision` | `Console` alone | **violated**: deciding an approval needs an approval, which cannot be decided either |

The composed properties, part by part (the comment above each says it in full):

* `TenancySound`: a pool's ledger adds up and is overcommitted by one unit at
  most; a key is granted no more than its limit in any stretch as long as its
  window, with two threads between lookup and record; a name leads to a live
  tenant while nobody renames or deletes too early.
* `CacheSound`, `SwapKeepsUpdates`: tag index, totals and limits of L1; after an
  invalidation only a writer of old data can show it; a swap replaces what its
  caller read until a peer's version number is used twice.
* `StoresSound`: two leaseholders, or a log that knows of more than the store,
  only after a write over an unread change; a service that is up has every table.
* `ConsoleSound`: one system at most runs unkilled; one audit row per answer; pages
  show every row once; a version is never answered with another; changes are
  shown within 10 seconds while the stream's iterations are 2 seconds apart, within
  16 seconds and the length of the slow one if one of them was slower (nothing is
  said after two); jumps are noticed and trends survive the cut of a history.
* `RoutingSound`: selections within the limits they were asked for, sticky
  sessions, fair turns and connection counts, complexity monotone, best paths and
  answers, risk monotone in scores, feedback undone, calibration within 5 percent.
* `LearningSound`: attempts bounded; a QUEUED task is in the queue or about to be.
  `CanariesSound`: traffic to running canaries only; promotion at full share.
  `AuditorsIndependent`: nobody audits a task it worked on; verdicts consistent.
  `NothingSkipped`: offsets never pass an event that was not handled.
* `QualitySound`, `ErrorsSound`: aggregates count the newest entries once,
  benchmarks add up; an evaluation passes if its values reached thresholds that were
  in force, and what it meant to fail or to pass passes or fails only through a
  latency, an error rate or an evaluator that raised (see below); pattern books match
  records, recent failures are found while clean-ups run.
* `ContextOnDisk`: the active context is covered by a whole checkpoint, unless it was
  read back while another call was saving. `SessionsSound`: features in progress are
  worked on; until a death or a reset the progress log says what the list says; the
  manager's entries are in the file, those of before it was last written anew apart.
  `MemorySound`, `DriveSound`: survivors of conflicts, lifetimes, limits, an error in
  which a learnt one occurs is recognised and no other; a file stays what its metadata
  says until something is put on its path.
* `WorkflowSound`: stages start after their inputs, however often completions are
  reported; quotas are given back; an operation has one answer; outputs are filed
  under their stages while their states name the next one and nothing is restored,
  and stay filed. `OneTaskAtATime`: one task per agent unless it failed, was unblocked
  or rolled back meanwhile, or told late or again of the end of another.
  `SubscribersServed`, `BrainSound`: every subscription served once, urgent tasks
  first, fires a period apart.
* `EntropySound`, `MeasureSound`: no action in two hands, alerts a cooldown apart,
  thresholds in order; the samples that the calculator holds are in the table, on
  their way to it or refused by the closed database, but for rows crowded out; no
  conflicting topic missed; a cached trend misses no sample of its window as it was
  when it was computed, correlation is mutual.

Many are conditional ("unless ..."): the condition is what the code really allows,
tracked by a history variable such as `stale`, `lostMark`, `shifted`, `loose`,
`disturbed`, `interrupted`, `removed`, `overlapped`, `cut`, `loaded`, `dated` or
`slow`, which only the step that breaks the guarantee sets. They read: this is the only way it is lost.

### What the code does not keep

The four findings are in `PROJECT.json` with the lines they contradict. The code
also does the following, met as a counterexample or in reading. Where the part is
modelled the models do the same, so the properties above hold with it.

* Runs: a node stays PENDING after its item was acknowledged (`NodesStayPending`,
  proved): `NODE_TRANSITIONS` allows none of the moves the loop makes. So approvals
  do not hold a run up, a node with dependencies is never dispatched and only a run
  without rows succeeds; runs that share an idempotency key block each other.
  `DispatchFollowsDeps` and `SucceededIsComplete` are stated on the tables and hold
  because of the checks in the code, as their mutants show, but in this version
  of the code it is the roots only that they are about.
* Schedules: an `at` schedule fires at every tick; a window schedule that falls due
  outside its window fires. `schedule_policy_validate` accepts windows such as
  `09:00-25:00` and a jitter that is no number (`protocols/workflow.py:116-133`);
  `compute` raises for them (`engine.py:34`, `:100`), the tick has no try
  (`service.py:34-35`), so the service dies at every tick and the due schedules
  listed after that row are never fired.
* Breakers: half-open slots are taken by availability queries and never returned,
  so a breaker may stay half-open.
* Console: the lists compare `self.path` with the query attached, so the pages the
  browser asks for are answered 404; a version asked for as `X?version=v` is looked
  up as a workflow of that name. The comments of the event stream say that views are
  refreshed every 5 seconds (`bff_service.py:423`, `:449`) and that `list_runs(limit=1)`
  is the latest run (`:427`): a refresh needs an iteration to begin in a second
  divisible by five, so a change may wait 10 seconds at a regular pace of 2 and for
  ever at one of 2.5 or 3; and the run looked at is the one with the least id.
* Evaluations: `evaluate` wants latencies and error rates to be at most their threshold
  (`evaluator.py:183-184`) and an evaluator that raises to fail (`:204`);
  `EvaluationMetric.__post_init__` (`:43`) sets `passed` again, to value >= threshold for
  every metric. So a low latency fails, a high one passes, and an evaluator that
  raises, whose value is 0, passes where the threshold is 0 or less.
* Workflows: `current_stages` only ever holds the entry stage, so an execution may
  be COMPLETED while others run (`CompletedMeansDone`, stated and not kept).
  `complete_stage` does not look at the stage's status: a repeated report runs the next
  stages again.
* Recovery: `StageOutput` (`context.py:109-118`) has no `next_stage`, which
  `execute_with_stability` asks it for (`service.py:330`): with the repository's own class
  every execution fails after its first stage, whose answer is in the cache. A
  restore while a stage or its transfer is under way puts another context under it,
  and the next output is filed under a stage that did not give it.
* Agents: `complete_task` takes no task id and looks at nothing (`agent.py:106-117`), so
  a late or repeated report frees an agent that works on its next task.
* Event log: the append after a crash that cut a line runs on from it and is lost
  with it, although it returned True (`AckedReadable`, stated and not kept).
* Checkpoints: the test that would spare the start checkpoint from a compaction
  (`checkpoint.py:289`) compares members of two enums of the name `CheckpointTrigger`
  (`checkpoint.py:16`, `context.py:11`), which are never equal, so it is deleted like any
  other. `complete_stage` saves the context of before the merge. With more
  calls under way than half of `max_checkpoints`, slow ones that began before a
  transfer can push out the only checkpoint of the active context.
* Long running: priorities are written as numbers and read with `.upper()`; the
  handoff and the sessions recommend different features; two newest checkpoints
  with one timestamp make the sort raise; a git reset takes lines of
  `progress.jsonl` back. Nothing keeps `initialize_project` from being called again:
  it writes `progress.jsonl` anew (`initializer.py:283`) while the tracker keeps its
  entries of the old one.
* Memory: what was learnt is matched with `re.search` and `IGNORECASE`
  (`failure_library.py:24`), so a learnt message also names every error that contains it.
* Entropy: after `stop()` the database is closed (`persistence.py:506-510`) and `start()`
  does not open it, so samples stay in memory and saving or loading raises. Trends
  are cached under a key without their window (`monitor.py:224`), so after
  `detect_rapid_changes` the trend of an hour is answered for that of a day.
* Predictions: anomalies always carry the metric LATENCY, so the throughput advice
  cannot be reached; the first jump after a constant history is no SPIKE.
* Assessment: a confidence of -0.1 or less has no calibration bin, and every later
  assessment raises; steps that are empty dictionaries divide by zero.
* Audits: a score of 0 to 100 is compared with a required score of 0 to 1.
* Migration: services that start together on a new database conflict in
  `schema_migrations`; the one that loses dies and is started again.

### Bounds

Two items, runs or schedules are enough for every race of the control plane:
each is between two rows or two processes over one row. One crash in each run
reaches every pair of adjacent commits, because it may come at any step. A lease
of one tick can expire at any point of a claim. Time in `Scheduler` is long enough
for an interval schedule to be created, to fire, to be late and to fire again (1,
3, 5), and for the day to change. `MaxAsked`, `MaxCount` cap counters that the
properties compare with smaller numbers. `ScanLimit` and `MaxDue` cover all rows;
above them rows starve, as the hazard about limits says. Symmetry is used for the
two callers of `failover` only, which checks no liveness; elsewhere the items
differ in priority and the nodes in kind. `Commands` splits the operator's
commands between the two runs of `Failover`: breakers with two concurrent callers
in one, registrations and checks in the other, whose thresholds for breakers are 1
and whose timeout is 0 so that every state of a breaker is still met. Thresholds
of 2 tell a run of results from a single one.

In the compositions, each part has two actors wherever the code lets two meet, and
a limit (size, retries, checkpoints, versions, window) that is reached and passed:
3 entries of 4 keys in L1, a queue of 2 for 2 tasks and their sentinels, 2
instances for 3 stages, 2 samples kept of 3 and a table of 2 rows, pages
of 2 rows of 3, a history cut from 5 to 4 of 7 points, a list of 4 checkpoints cut
to 2 by 5 saves of 2 coroutines (seconds and a crash are met by one of them alone).
`Max...` constants count
calls, writes, ticks, crashes or restarts and stand in the guards of the actions
they bound; they are as large as the five minutes of a run allow, and each part was
also run alone. Resources of 2 and 3 units with requests of 1 and 3 meet
"fits none", "fits one" and "fits only after a release". `Feed` runs for 28
seconds with its last change at 7 and slow iterations of up to 4, so that the 20
seconds of `RefreshedInTime` can pass after any change. Trends have windows of 0 and
1 within 2 units of time, and 2 samples of up to 4 are given to an analysis, so that
both the window and the limit leave some out.

Deadlock is checked in the runs of `WorkQueue`, `RunEngine`, `Scheduler` and
`Failover`. The compositions say `CHECK_DEADLOCK FALSE`: a part whose bounded calls
are used up has nothing left to do. So does `quota_deadlock`, whose standstill is
caught by `CallsReturn`, which names the call that never returns.

### Fairness

`ServiceBase.run` calls `tick()` until it is told to stop, and systemd restarts
a process that died: the steps of a service and its restart are weakly fair.
In `WorkQueue` time passes, and a request or a recovery that has selected also
updates, since nothing but a crash stops it. Nobody is obliged to enqueue, to
claim remotely, to decide an approval, to patch or to crash. `Scheduler` does
not even assume that the clock goes on: a schedule that is due is due already.
In `Failover` the event loop runs every ready coroutine: an operation ends one
way or the other, delays and pauses end, and a check that hangs is given up
after its timeout; no handler has to answer (`CheckTimesOut` is fair,
`CheckEnds(TRUE)` is not). In `QuotaManager` each thread is strongly fair, the
most a lock can promise, and `consume` still does not return.

The compositions state safety only. What must eventually happen in the libraries
depends on their callers, who are the environment: a call that is made returns,
since its steps are a sequence, and nothing else is promised. `RefreshedInTime` in
`Feed` bounds the delay in seconds instead.

## 4. What is proved

Each theorem holds for every value of the constants that the named assumption
admits; TLC evaluates the assumption in the runs. The invariant that is inductive
was checked by TLC on the run's instance before it was proved.

`WorkQueue_proofs`, for all sets of items, agents, services and key files, all
priorities, lease times and bounds (`QueueAssumption`):

* `TypeCorrect`: `TypeOK`. It is not inductive: the runner's steps use the item
  in hand, so `TypeInv` adds that there is one wherever `pc` says so.
* `OnlyTheRunnerSettles`: `SettledByRunner`, from `TypeInv`; every action that
  moves a row either checks the agent or leads to CREATED or CLAIMED.
* `NoRerunOfRecorded`: the action property, from the runner's check; needs that
  nobody but the runner writes the store (`RecordsStay`).
* `AckedIsRecorded`: `RecordInv` says that a runner about to acknowledge with
  `ok` has recorded the key of the item in hand.
* `AckedIsExecuted`: `ExecutedInv` says whose key a file of the store holds, and
  that the item in hand past `exec` was executed; so an ACKED item was, if no two
  keys share a file.
* `AtMostOnce`: `OnceInv` relates the number of executions to the status and to
  the runner's place: until another service recovers, an item that was executed
  is in hand past `exec`, or RUNNING or settled, and none of these can be claimed.
* `MovesAreSound`: both parts of `MovesSound`. The UPDATEs of an acknowledgement
  and of a reclaim check neither the status nor the lease; `HeldInv` says that what
  they are about to write was selected from a row nobody else has moved since,
  until another service recovers.
* `QueueImplementsDelivery`: each action maps to a `Delivery` step or a stutter,
  with `HandInv`, `StatusMoves` and `RecordsStay`.

`RunEngine_proofs`, for all runs, nodes, workflows, versions stored in turn, keys
and bounds (`EngineAssumption`), over any queue that keeps `Delivery`:

* `RowsAreSound`: `RowsSound`. `IInv` adds to the tables what the pass holds in
  memory: a write is in hand with the place it returns to (`GoalInv`), each run
  is in the scan once (`TodoInv`), what is remembered of a node is in the table
  and PENDING (`CacheInv`), after the inserts every node of the workflow is
  remembered (`PassInv`), and a run that succeeded is not worked on again in this
  tick (`SucceededInv`). Without `CacheInv` a dispatch could be for a node the loop
  remembers and the table does not have; without `SucceededInv` a pass could add
  rows to a run that has succeeded.
* `DispatchesAreSound`: `DispatchSound`, from `IInv` and, for `DispatchNeverRefused`,
  from the fact that a verdict in the queue is only ever about an item that was
  submitted.

`Scheduler_proofs`, for all schedules, policies, clocks and bounds
(`SchedulerAssumption`; its `WithinTheDay` says that the bounds of a daily window
are times of the day: for others `replace(hour=hh, minute=mm)` in `engine.py:100`
raises, so they are among the policies of type "raising"):

* `TypeCorrect`: `TypeOK`. `TypeInv` adds what is in hand: a decision between the
  upsert of its run and the write of its `next_fire_at`, one row per schedule.
* `TicksAreSound`: `TicksSound`. `Steady` relates, for a schedule that nobody
  patched, the rows read by the tick, the decision in hand, the table and all runs
  so far: a firing takes place at `next_fire_at` and has a later one in hand, no
  run is younger than `next_fire_at`, and the run due next was upserted by crashed
  firings only. `IntervalSpacing`, `NeverEarly` and the count of upserts per
  crash follow.
* `NextNeverGoesBack`: `NextNeverBack`, from `Steady` too: what is written was
  computed from a row read before other commits, none of which moved it.

`Failover_proofs`, for all instances, callers, fallbacks and thresholds
(`FailoverAssumption`), from one inductive invariant, `BreakerOK` of every
breaker: its two counters are the lengths (up to the thresholds) of the runs at
the end of its log of results, a closed breaker is below its threshold, and a
half-open one has let through one call more than the slots it counts.

* `ProbesStayBounded`: `ProbesBounded`.
* `BreakersFollowResults`: `BreakerFollowsResults`, for a positive timeout. One
  step may ask a breaker twice (the fallback search and the call), or ask it
  after a failure was recorded; `AskTwice` and `AskAfterFailure` show that the
  composed change is still a single move. With a timeout of 0 it is not: a
  breaker that a call opens may be half-opened by the same call.
* `ClosedBelowThreshold`: the last conjunct of the type invariant for breakers.
* `HealthIsChecked`: `HealthFollowsChecks`, the safety half of `ChecksSound`. The two
  counters of an instance's health are the lengths of the runs at the end of the log
  of the checks that began under its present registration (`HealthRuns`).

The lemmas about `Remember` (a log of bounded length) carry the argument: one
more equal result lengthens the run at its end by one.

`MCResources_proofs`, about four parts of the composition, for any keys, tags, sizes,
limits, threads, processes, nodes, ttl, migrations and bounds (`CacheAssumption`,
`StoresAssumption`: "pending" is not a status that is set, no process has the name of a torn file, a
migration is a sequence of statements):

* `SwapsReplaceWhatWasRead`: `SwapKeepsUpdates`. `VersionsGivenOut` says that this
  node has given out every version there is, so that an entry that still has the
  version a swap read still has its value (`VersionTells`), until a peer's entry
  arrives whose version is given out again.
* `CachesAreSound`: `CacheSound`. `Books` is the local cache's index, count and total,
  and that a key without an entry has no size and no tags, which storing it relies on:
  an entry's old size is taken off whether there was one or not. `RemovedKeeps` and
  `StoredKeeps` carry it through the two operations that all the others are made of, and
  `FittingKeeps` and `StopsAt` through the two loops of `_enforce_limits`: the second
  stops with `max_entries` only when the total fits. Totals are sums over a set, and the
  order of use is what a recursion leaves of a list. Both are reasoned about by the least
  counterexample (`SmallestOf`), which needs no induction rule: `SumExists` and
  `SumUnique` say that there is one sum, `SumTakeOut` and `SumSplit` that it may be taken
  apart anyhow, `WithoutIs` what is left of a list. For the tiers `WriteShown` says that a
  write leaves a key clean only if it wrote the present data, and `NothingNewShown` that
  every other step shows what was shown before, or nothing.
* `StoresKeepTheirRules`: `StoresSound`. `FileRules`: as long as no step was taken on a
  changed file, whoever holds the lease is the one in the file, it is live, and
  who is about to write one has read none that is. `MarksKept`: what is about to
  be logged is stored, and a put that replaced the row it read keeps all marks
  before it. `OnItsWay`: a service has executed the statements before its place
  and has nothing left but what was not recorded when it started, so one that
  comes up has all versions and one that fails raced.

`MCRecords_proofs` and `MCStored_proofs`, about nine parts of the composition, whose constants
(`Releases`, `Lessons`, `Learners`, `Reviews`, `Readers`, `Phases`, `Callers`, `Planned`,
...) are parameters (`RecordsAssumption`, `AuditsAssumption`, `SessionsAssumption`,
`StabilityAssumption`, `ErrorsAssumption`, `MemoryAssumption`, `DriveAssumption`); each
invariant is conditional on `part`, and the steps of the
other parts leave its variables alone:

* `CanariesKeepTheirPlace`: `CanariesSound`. Types that say which releases have
  ended make it inductive; the monitor's late check changes nothing of a canary
  that has ended since it was picked.
* `LearningKeepsItsTasks`: `LearningSound`. `LessonInv` says of each task that one
  copy of it at most is about (in the queue or with one worker), that its retries
  count the calls that raised, and that until `submit` has written its status a
  task nobody began is waiting. `FS_CardinalityType` and its kin give the queue's limit.
* `AuditsStayIndependent`: `AuditorsIndependent`. Free auditors are not busy unless
  they are loose, and a report's action and advice are those of its code
  (`Judged`); `IssuesGrow` and `ScoresFall` show that a worse code has no better
  verdict.
* `EventsAreDelivered`: `NothingSkipped`. `Covered` says that a reader was called
  with every record of the topic up to an index and that the log has that many
  records, of each stored offset and of each replay under way. A line appended
  after a torn one changes how records are numbered, which `Numbered` and `Later`
  follow; `shifted` marks the only case in which it matters.
* `SessionsTellOneStory`: `SessionsSound`. `NothingLeft` says that until a death only
  the feature being tested is in progress, in the list and in the last commit, which
  a rollback brings back; `OneStory` that the newest line about a feature that passed
  says so, but for the one at work; `BookTypes` that line numbers and what the
  manager tracks are those of the file as far as they are newer than `cut`, the line
  at which a reset or another initialisation last wrote it anew. The assumption says
  that None is none of the values it stands beside.
* `ContextStaysOnDisk`: `ContextOnDisk`. `Behind` are the calls whose checkpoint, when
  it is written, will not cover the context that became active meanwhile. `Safe`
  says that the file that does cover it is less than half a list from its end even
  when all of them have returned, so no compaction drops it; a covering call that
  returns puts its own file last. `Pending` says that the file of a call under way is
  its own, absent, torn or whole; a recovery raises on a torn one only, so it may read
  a checkpoint back that the call's compaction then removes: `overlapped` marks that,
  and without it nothing the recovery reads is about to go. The one assumption that matters, `StabilityAssumption`, is that the coroutines
  inside are no more than half of `max_checkpoints` (20 by default,
  `checkpoint.py:150`): with three calls and a list of four TLC shows how slow calls
  push the file out.
* `RecordsAddUp` (`MCStored_proofs`): `ErrorsSound`. `ScanFits` says that the scan of a registry that has
  found nothing yet stands at the start, so that the next match is the first of those
  it knows, and registering only adds to them (`FittingKept`); `BookKept` that count,
  components and first and last hour of a pattern are those of the records that name
  it. `OnlyOldGone` says that what a cleanup took away is older than the retention and
  what it left is in the index, and `ReadsAll` of each failure there was when a reader
  began that it was read, is about to be, is ahead in the list the reader holds, or
  is too old. The assumption is that a report looks back no further than failures
  are kept; by default both are 24 hours (`failure_analyzer.py:96`, `:158`).
* `MemoriesAreKept`: `MemorySound`. `Survives` says of what a layer holds of a key that
  it is one of the writes since the key was forgotten, with that write's confidence,
  and the one the policy asks for; no write has more than full confidence, since a
  caller's is clamped after it was compared. `Fits` says that the pad and its snapshot give each key an object of its own
  and hold `max_entries` at most, so a store into a restored pad evicts as it should.
  `InOrderUpTo` says that the ledger is in the order of the traces, so what its slice
  drops is no newer than what it leaves, and `Recognised` says of each trace what
  `LearntIsRecognised` says of all: which errors the head of a trace occurs in is a
  parameter (`HeadsIn`), each in its own at least.
* `DriveKeepsFiles`: `DriveSound`. `Tree` says that the disk is a tree: the directories
  above every file and directory are there, and no path is both. A move gives every
  path under the old one a path under the new one, each its own (`RebasedIs`,
  `RebasedBack`), which keeps the tree a tree (`MovedTree`) and the contents where they
  belong (`MovedValues`). `Versioned` says that the last version of an entry with
  content is its content, and `Goes` lists what may become of a file that downloads.
  The assumption is that one version is kept at least (`max_versions` is 10 by default,
  `service.py:60`) and that limits and times are numbers.

`MCAgents_proofs`, for any workers and jobs (`PoolAssumption`), any subscriptions and
senders (`BusAssumption`), any priorities, retries and policies (`BrainAssumption`), any
graph of stages and any numbers of instances, resources and callers
(`WorkflowAssumption`, `RecoveryAssumption`), any executors, entropies, windows and
levels with room between them (`EntropyAssumption`), any outputs and topics
(`BooksAssumption`):

* `PoolKeepsOne`: `OneTaskAtATime`. `InOrder` says that an agent that is free or
  failed has no task and that a snapshot never holds one, so that what `unblock`
  restores is free, for every agent that was not interrupted: failed, unblocked or
  rolled back with a task, or told of the end of one while another stays open.
* `BusServesAll`: `SubscribersServed`. `Served` says of each publish under way that,
  while nothing is removed, the message was given to exactly the entries before
  its place in the list it walks, each once; a list that grows behind a walker
  leaves that alone.
* `BrainKeepsOrder`: `BrainSound`. What `submit_task` inserts stands behind the last
  entry that is as urgent (`Inserted`), what `dispatch_task` takes out is the first
  copy of a task and leaves the others in order (`FirstRemoved`), and only a failure,
  which puts a task at the end, makes exceptions. `FiredBefore` says that a schedule
  that fired is due a period after that, so the next tick that fires it is too.
* `WorkflowsAreSound`: `WorkflowSound`. `Counted` is the equation free + lost +
  quota of every holder, and `HandsKept` says who the holders are: the instances that
  were made and are not gone. `Indexed` says that the index lists the living once each,
  so that taking the first entry of an instance out (`FirstTaken`, `WithoutOne`) takes
  all of it out. `StagesKept` ties COMPLETED to a completion with success, from which
  `InputsReady` follows; it stays true when executions are cancelled or failed between
  the steps of a call. Of the recovery, `AnsweredOnce` says that an operation that is
  not shared is being run by one call and has no answer, or has the one in the cache
  and is being run by none; `DriverInStep` that the driver runs the stage of its own
  context; `Believed` that this is the stage the service believes in while every output's
  state named the next and no restore came in between (`aligned`), which is why outputs
  are filed where they were run, that each checkpoint has its lineage (`MergeKeeps`), and
  that the active context covers all that were saved until one is restored, so that the
  context a transfer writes to is the service's. The assumption says that None is none of the values it
  stands beside.
* `GovernanceIsSound`: `EntropySound`. `HandsApart`: the threads that execute have
  different actions, each entered in the table and marked as running, so the check
  under the lock turns a second one away. `Spaced`: the last alert of a rule is the one
  its cooldown is counted from. `LevelsApart`: the warning of a category stays below
  the highest its samples can ask for, the emergency above the lowest, and between
  the two is room for the critical level; entropies lie in 0..1, so their deviation is
  at most a half, and the assumption holds of the six categories of the code.
  Of `SamplesKept`, `KnownSound` says that a sample's time is the one it was made at
  unless a caller chose it, `SamplesOrdered` that until a load the calculator has what was
  made last, in order, and `SamplesSaved` that each sample it has is in the table, in the
  hands of a thread that is to save it, among those the closed database refused, or, once
  rows were loaded or have times of callers, older than a full table's. A prune
  takes no other one, since the table has as much room as the window at least
  (100000 and 10000). `BooksKept`: an output that
  exists stands in the index, under its topic, so a plan finds every pair to merge.

What stays with TLC, and why:

* Liveness (`ItemsGoOn`, `RunsAdvance`, `FiringsGoOn`, and the parts of `ChecksSound`
  that are about time to come): the provers have no rules for fairness.
* `QualitySound`, `MeasureSound`, `RoutingSound`, `ConsoleSound`: they compare the
  state with the result of a fold or of a recursive function over the data (best
  paths, weighted scores, histories). Each would need an induction of its own, as
  sums have in `MCResources_proofs`.
* `TenancySound`: the amounts of a pool are sums, and the rate windows count what any
  stretch of time holds; its inductive invariant is not worked out yet.

## 5. Not modelled

* Cache invalidation strategies (`caching/invalidation.py`): no caller connects its
  rules to a cache, and `receive_event` calls no handler.
* Task analysis, eval gate, growth loop: text processing and single-step gates
  without state that two actors share.
* Observability exporters, health endpoints, configuration, runtime: I/O.
* Skills, professions, types and protocols: data types and catalogues; their
  transition tables are used where a state machine reads them.
* Web console pages and the tracing demo: user interface. What the browser does to
  the services is in `Feed`.
* Deployment: the systemd units are the fairness above.
* Of components marked "partly", the note in `PROJECT.json` names what is left out:
  reports and texts, token buckets, budgets, dashboards, views of single rows.

## 6. Plan

1. `TenancySound`, with `NamesLeadToLive` last.
2. Abstract specifications for two of them: a quota as an account that is never
   overdrawn, a cache as a register.
