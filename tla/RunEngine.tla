------------------------------ MODULE RunEngine -----------------------------
(***************************************************************************)
(* The orchestrator service (core/orchestrator/run_engine.py): once a      *)
(* second it scans the active runs and moves the nodes of each workflow,   *)
(* through the tables runs, node_runs, approvals and work_items of StateDB.*)
(* The work queue is seen as Delivery promises it; the scheduler, the BFF  *)
(* and systemd are the environment.  Every commit of the orchestrator is a *)
(* step of its own, and update_run_status is two, because the scheduler    *)
(* and the BFF may write the run between its SELECT and its UPDATE.        *)
(***************************************************************************)
EXTENDS Integers, Sequences, FiniteSets

CONSTANTS
    Runs,           \* run ids, all of one workflow
    Nodes,          \* node ids, numbers in the order node_runs is listed in
    Kind,           \* Kind[n]: "task", "approval" or "eval"
    Dags,           \* workflow versions: [order : Seq(Nodes), edges : SUBSET (Nodes \X Nodes)]
    NoDag,          \* no version of the workflow is stored
    Keys, KeyOf,    \* KeyOf[<<r, n>>]: the idempotency key of a node's work item
    ScanLimit,      \* limit_runs of tick() (50 in the code)
    MaxAsked,       \* bound: undecided approvals counted per node
    MaxUpserts,     \* bound: runs written by the scheduler and the BFF
    MaxPublishes,   \* bound: workflow versions stored
    MaxCrashes      \* bound: crashes of the orchestrator

Items == Runs \X Nodes

ASSUME EngineAssumption ==
    /\ Nodes \subseteq Nat /\ IsFiniteSet(Nodes)
    /\ Kind \in [Nodes -> {"task", "approval", "eval"}]
    /\ Dags \subseteq [order : Seq(Nodes), edges : SUBSET (Nodes \X Nodes)]
    /\ NoDag \notin Dags
    /\ KeyOf \in [Items -> Keys]
    /\ ScanLimit \in Nat \ {0}
    /\ MaxAsked \in Nat \ {0}
    /\ MaxUpserts \in Nat /\ MaxPublishes \in Nat /\ MaxCrashes \in Nat

VARIABLES
    runs,       \* runs.status, "absent" where there is no row
    startedAt,  \* runs.started_at, as the number of the upsert; 0 without a row
    rows,       \* node_runs.status
    asked,      \* undecided approvals of each node
    linked,     \* status of the approval named in a node's snapshot, or "none"
    workflow,   \* the latest version of the workflow, or NoDag
    known, recorded, verdict,       \* the work queue (see Delivery)
    pc, todo,   \* the orchestrator: its place in tick(), what the scan returned
    dag, cache, at,     \* _progress_run: its workflow, node_runs and node index
    goal,       \* the update of a run's status that was selected for
    upserts, publishes, crashes

queue == <<known, recorded, verdict>>
tables == <<runs, startedAt, rows, asked, linked, workflow, queue>>
locals == <<todo, dag, cache, at>>
counters == <<upserts, publishes, crashes>>
vars == <<tables, pc, locals, goal, counters>>

Queue == INSTANCE Delivery WITH Tasks <- Items, KeyFiles <- Keys, FileOf <- KeyOf

RunStatus == {"pending", "queued", "running", "blocked", "succeeded", "failed", "canceled"}

NodeRunStatus == {"pending", "ready", "running", "waiting_approval", "skipped",
                  "succeeded", "failed", "canceled"}

RunTransitions ==
    { <<"pending", "queued">>, <<"pending", "canceled">>,
      <<"queued", "running">>, <<"queued", "canceled">> }
    \union {"running"} \X {"blocked", "succeeded", "failed", "canceled"}
    \union {"blocked"} \X {"running", "canceled", "failed"}

NodeTransitions ==
    {"pending"} \X {"ready", "canceled"}
    \union {"ready"} \X {"running", "waiting_approval", "skipped", "canceled"}
    \union {"waiting_approval"} \X {"running", "skipped", "canceled"}
    \union {"running"} \X {"succeeded", "failed", "canceled"}

CanTransition(table, from, to) == from = to \/ <<from, to>> \in table

NoEntry == [run |-> "none", status |-> "none"]
NoGoal == [status |-> "none", next |-> "none"]
NoCache == [n \in Nodes |-> "absent"]

Run == Head(todo).run

-----------------------------------------------------------------------------
Init ==
    /\ runs = [r \in Runs |-> "absent"] /\ startedAt = [r \in Runs |-> 0]
    /\ rows = [r \in Runs |-> NoCache]
    /\ asked = [r \in Runs |-> [n \in Nodes |-> 0]]
    /\ linked = [r \in Runs |-> [n \in Nodes |-> "none"]]
    /\ workflow = NoDag
    /\ Queue!Init
    /\ pc = "idle" /\ todo = <<>> /\ dag = NoDag /\ cache = NoCache /\ at = 1
    /\ goal = NoGoal
    /\ upserts = 0 /\ publishes = 0 /\ crashes = 0

-----------------------------------------------------------------------------
\* update_node_status: a row that exists moves only along NODE_TRANSITIONS, and
\* the snapshot is replaced with the status.
NodeMoves(r, n, to) ==
    rows[r][n] = "absent" \/ CanTransition(NodeTransitions, rows[r][n], to)

UpdateNode(r, n, to) ==
    rows' = IF NodeMoves(r, n, to) THEN [rows EXCEPT ![r][n] = to] ELSE rows

\* The SELECT of update_run_status; the UPDATE follows in WriteRun unless
\* RUN_TRANSITIONS forbids it. "next" is the place to go on from.
SelectRun(to, next) ==
    IF CanTransition(RunTransitions, runs[Run], to)
    THEN goal' = [status |-> to, next |-> next] /\ pc' = "write"
    ELSE pc' = next /\ UNCHANGED goal

WriteRun ==
    /\ pc = "write"
    /\ runs' = [runs EXCEPT ![Run] = goal.status]
    /\ pc' = goal.next /\ goal' = NoGoal
    /\ UNCHANGED <<startedAt, rows, asked, linked, workflow, queue, locals, counters>>

-----------------------------------------------------------------------------
\* Mutant: queued runs are not scanned for.
ActiveWithoutQueued == {"running", "blocked"}

Active == {"queued", "running", "blocked"}

OldestFirst(scanned) ==
    \A i, j \in DOMAIN scanned : i < j => startedAt[scanned[i]] < startedAt[scanned[j]]

\* tick: list_runs_by_status, oldest first, with the status each run has now.
Scan ==
    /\ pc = "idle"
    /\ \E length \in 0..ScanLimit :
       \E scanned \in [1..length -> {r \in Runs : runs[r] \in Active}] :
          LET left == {r \in Runs : runs[r] \in Active /\ \A i \in 1..length : scanned[i] # r}
          IN  /\ OldestFirst(scanned)
              /\ left = {} \/ length = ScanLimit
              /\ \A i \in 1..length, r \in left : startedAt[scanned[i]] < startedAt[r]
              /\ todo' = [i \in 1..length |-> [run |-> scanned[i], status |-> runs[scanned[i]]]]
              /\ pc' = IF length = 0 THEN "idle" ELSE "run"
    /\ UNCHANGED <<tables, dag, cache, at, goal, counters>>

\* The loop over the scanned runs acts on the status the scan returned.
TakeRun ==
    /\ pc = "run"
    /\ \/ Head(todo).status = "queued" /\ SelectRun("running", "load")
       \/ Head(todo).status = "running" /\ pc' = "load" /\ UNCHANGED goal
       \/ Head(todo).status = "blocked" /\ pc' = "unblock" /\ UNCHANGED goal
    /\ UNCHANGED <<tables, locals, counters>>

NextRun ==
    /\ pc = "next"
    /\ todo' = Tail(todo)
    /\ pc' = IF todo' = <<>> THEN "idle" ELSE "run"
    /\ dag' = NoDag /\ cache' = NoCache /\ at' = 1
    /\ UNCHANGED <<tables, goal, counters>>

\* _try_unblock lists the node_runs of the run ...
TryUnblock ==
    /\ pc = "unblock"
    /\ cache' = rows[Run] /\ at' = 0
    /\ pc' = "approval"
    /\ UNCHANGED <<tables, todo, dag, goal, counters>>

\* ... and takes the waiting nodes in that order, up to the first whose approval
\* is not granted. A node without an approval holds nobody up.
UnblockNode ==
    /\ pc = "approval"
    /\ LET left == {n \in Nodes : n >= at /\ cache[n] = "waiting_approval"}
       IN  \/ left = {} /\ SelectRun("running", "load") /\ at' = 1 /\ UNCHANGED rows
           \/ \E n \in left :
                 /\ \A m \in left : n <= m
                 /\ at' = n + 1
                 /\ \/ linked[Run][n] = "none" /\ UNCHANGED <<rows, pc>>
                    \/ /\ linked[Run][n] = "approved"
                       /\ UpdateNode(Run, n, "succeeded") /\ UNCHANGED pc
                    \/ /\ linked[Run][n] = "rejected"
                       /\ UpdateNode(Run, n, "failed") /\ pc' = "fail"
                    \/ linked[Run][n] = "pending" /\ pc' = "next" /\ UNCHANGED rows
                 /\ UNCHANGED goal
    /\ UNCHANGED <<runs, startedAt, asked, linked, workflow, queue, todo, dag, cache,
                   counters>>

\* get_latest_workflow, and the node_runs of the run.
Load ==
    /\ pc = "load"
    /\ IF workflow = NoDag
       THEN SelectRun("failed", "next") /\ UNCHANGED <<dag, cache>>
       ELSE pc' = "insert" /\ dag' = workflow /\ cache' = rows[Run] /\ UNCHANGED goal
    /\ UNCHANGED <<tables, todo, at, counters>>

\* Mutant: the new nodes are remembered but not stored.
InsertNothing ==
    /\ pc = "insert"
    /\ pc' = "node"
    /\ cache' = [n \in Nodes |-> IF cache[n] = "absent" THEN "pending" ELSE cache[n]]
    /\ UNCHANGED <<tables, todo, dag, at, goal, counters>>

\* A node without a row gets one; what the loop then remembers for it is the
\* last row of the listing, whichever node that is.
InsertNode ==
    /\ pc = "insert"
    /\ LET missing == {i \in DOMAIN dag.order : cache[dag.order[i]] = "absent"}
           listed == {n \in Nodes : rows'[Run][n] # "absent"}
       IN  \/ missing = {} /\ pc' = "node" /\ UNCHANGED <<rows, cache>>
           \/ \E i \in missing :
                 /\ \A j \in missing : i <= j
                 /\ UpdateNode(Run, dag.order[i], "pending")
                 /\ \E last \in listed :
                       /\ \A n \in listed : n <= last
                       /\ cache' = [cache EXCEPT ![dag.order[i]] = rows'[Run][last]]
                 /\ UNCHANGED pc
    /\ UNCHANGED <<runs, startedAt, asked, linked, workflow, queue, todo, dag, at, goal,
                   counters>>

-----------------------------------------------------------------------------
\* The loop over the nodes. What it remembers of node_runs is not refreshed.
Node == dag.order[at]
Item == <<Run, Node>>

\* Mutant: dependencies are ignored.
DepsIgnored(n) == TRUE

\* Mutant: the edges are read the wrong way round.
DepsReversed(n) == \A e \in dag.edges : e[1] = n => cache[e[2]] = "succeeded"

DepsSatisfied(n) == \A e \in dag.edges : e[2] = n => cache[e[1]] = "succeeded"

\* Mutant: what was dispatched is told from the node's status.
ExistingByStatus == Item \in known /\ cache[Node] # "pending"

\* get_work_item
Existing == Item \in known

InLoop == pc = "node" /\ at \in DOMAIN dag.order

Dispatchable ==
    /\ cache[Node] \notin {"succeeded", "skipped", "canceled"}
    /\ DepsSatisfied(Node)

\* Nothing is done for a node that is settled, that waits for another node or
\* for its approval, or whose work item has no verdict yet.
PassNode ==
    /\ InLoop
    /\ \/ ~Dispatchable
       \/ Kind[Node] = "approval" /\ cache[Node] \in {"waiting_approval", "succeeded"}
       \/ Kind[Node] = "task" /\ Existing /\ verdict[Item] = "none"
    /\ at' = at + 1
    /\ UNCHANGED <<tables, pc, todo, dag, cache, goal, counters>>

EvalNode ==
    /\ InLoop /\ Dispatchable /\ Kind[Node] = "eval"
    /\ UpdateNode(Run, Node, "succeeded")
    /\ at' = at + 1
    /\ UNCHANGED <<runs, startedAt, asked, linked, workflow, queue, pc, todo, dag, cache,
                   goal, counters>>

\* create_approval; the update of the node and of the run are commits of their own.
AskApproval ==
    /\ InLoop /\ Dispatchable /\ Kind[Node] = "approval"
    /\ cache[Node] \notin {"waiting_approval", "succeeded"}
    /\ asked' = [asked EXCEPT ![Run][Node] = IF @ < MaxAsked THEN @ + 1 ELSE @]
    /\ pc' = "link"
    /\ UNCHANGED <<runs, startedAt, rows, linked, workflow, queue, locals, goal, counters>>

LinkApproval ==
    /\ pc = "link"
    /\ UpdateNode(Run, Node, "waiting_approval")
    /\ linked' = IF NodeMoves(Run, Node, "waiting_approval")
                 THEN [linked EXCEPT ![Run][Node] = "pending"] ELSE linked
    /\ pc' = "block"
    /\ UNCHANGED <<runs, startedAt, asked, workflow, queue, locals, goal, counters>>

BlockRun ==
    /\ pc = "block"
    /\ SelectRun("blocked", "node")
    /\ at' = at + 1
    /\ UNCHANGED <<tables, todo, dag, cache, counters>>

KeyTaken(i) == \E j \in known : KeyOf[j] = KeyOf[i]

\* enqueue_work_item; a key that another item has violates the unique index,
\* and the exception ends the process.
DispatchTask ==
    /\ InLoop /\ Dispatchable /\ Kind[Node] = "task" /\ ~Existing
    /\ IF KeyTaken(Item)
       THEN /\ pc' = "down" /\ todo' = <<>> /\ dag' = NoDag /\ cache' = NoCache /\ at' = 1
            /\ UNCHANGED queue
       ELSE /\ \E i \in Items : i = Item /\ Queue!Submit(i)
            /\ pc' = "mark" /\ UNCHANGED locals
    /\ UNCHANGED <<runs, startedAt, rows, asked, linked, workflow, goal, counters>>

MarkDispatched ==
    /\ pc = "mark"
    /\ UpdateNode(Run, Node, "running")
    /\ pc' = "node" /\ at' = at + 1
    /\ UNCHANGED <<runs, startedAt, asked, linked, workflow, queue, todo, dag, cache,
                   goal, counters>>

CollectAcked ==
    /\ InLoop /\ Dispatchable /\ Kind[Node] = "task" /\ Existing
    /\ verdict[Item] = "ok"
    /\ UpdateNode(Run, Node, "succeeded")
    /\ at' = at + 1
    /\ UNCHANGED <<runs, startedAt, asked, linked, workflow, queue, pc, todo, dag, cache,
                   goal, counters>>

CollectFailed ==
    /\ InLoop /\ Dispatchable /\ Kind[Node] = "task" /\ Existing
    /\ verdict[Item] = "failed"
    /\ UpdateNode(Run, Node, "failed")
    /\ pc' = "fail"
    /\ UNCHANGED <<runs, startedAt, asked, linked, workflow, queue, locals, goal, counters>>

\* Mutant: only the node is failed.
FailNodeOnly ==
    /\ pc = "fail"
    /\ pc' = "next"
    /\ UNCHANGED <<tables, locals, goal, counters>>

FailRun ==
    /\ pc = "fail"
    /\ SelectRun("failed", "next")
    /\ UNCHANGED <<tables, locals, counters>>

\* Mutant: only the nodes of the loaded version count.
AllSucceededInDag(r) ==
    \A i \in DOMAIN dag.order : rows[r][dag.order[i]] = "succeeded"

\* After the loop: all rows of the run, those of earlier versions included.
AllSucceeded(r) == \A n \in Nodes : rows[r][n] \in {"absent", "succeeded"}

FinishRun ==
    /\ pc = "node" /\ at \notin DOMAIN dag.order
    /\ IF AllSucceeded(Run)
       THEN SelectRun("succeeded", "next")
       ELSE pc' = "next" /\ UNCHANGED goal
    /\ UNCHANGED <<tables, locals, counters>>

EngineStep ==
    \/ Scan \/ TakeRun \/ NextRun \/ TryUnblock \/ UnblockNode \/ Load \/ InsertNode
    \/ PassNode \/ EvalNode \/ AskApproval \/ LinkApproval \/ BlockRun \/ DispatchTask
    \/ MarkDispatched \/ CollectAcked \/ CollectFailed \/ FailRun \/ FinishRun
    \/ WriteRun

-----------------------------------------------------------------------------
\* The process dies between two commits.
Crash ==
    /\ pc # "down" /\ crashes < MaxCrashes
    /\ crashes' = crashes + 1
    /\ pc' = "down" /\ todo' = <<>> /\ dag' = NoDag /\ cache' = NoCache /\ at' = 1
    /\ goal' = NoGoal
    /\ UNCHANGED <<tables, upserts, publishes>>

\* systemd: Restart=on-failure.
Restart ==
    /\ pc = "down"
    /\ pc' = "idle"
    /\ UNCHANGED <<tables, locals, goal, counters>>

\* upsert_run, by the scheduler (QUEUED, at each trigger) or by POST /v1/runs
\* (PENDING): the row is replaced, whatever its status was.
UpsertRun(r, status) ==
    /\ upserts < MaxUpserts
    /\ upserts' = upserts + 1
    /\ runs' = [runs EXCEPT ![r] = status]
    /\ startedAt' = [startedAt EXCEPT ![r] = upserts + 1]
    /\ UNCHANGED <<rows, asked, linked, workflow, queue, pc, locals, goal,
                   publishes, crashes>>

\* POST /v1/workflows: the version stored last is the latest one.
PublishWorkflow(d) ==
    /\ publishes < MaxPublishes
    /\ publishes' = publishes + 1
    /\ workflow' = d
    /\ UNCHANGED <<runs, startedAt, rows, asked, linked, queue, pc, locals, goal,
                   upserts, crashes>>

\* POST /v1/approvals/../decide: only a pending approval is decided, and it may
\* or may not be the one the node's snapshot names.
DecideApproval(r, n, decision) ==
    /\ asked[r][n] > 0
    /\ asked' = [asked EXCEPT ![r][n] = @ - 1]
    /\ \/ UNCHANGED linked
       \/ linked[r][n] = "pending" /\ linked' = [linked EXCEPT ![r][n] = decision]
    /\ UNCHANGED <<runs, startedAt, rows, workflow, queue, pc, locals, goal, counters>>

\* The runner and the leases of the work queue.
QueueStep ==
    /\ \/ \E i \in Items : Queue!Work(i)
       \/ \E is \in SUBSET known : Queue!Withdraw(is)
    /\ UNCHANGED <<runs, startedAt, rows, asked, linked, workflow, pc, locals, goal, counters>>

Next ==
    \/ EngineStep
    \/ Crash
    \/ Restart
    \/ \E r \in Runs, status \in {"pending", "queued"} : UpsertRun(r, status)
    \/ \E d \in Dags : PublishWorkflow(d)
    \/ \E r \in Runs, n \in Nodes, decision \in {"approved", "rejected"} :
           DecideApproval(r, n, decision)
    \/ QueueStep

Spec == Init /\ [][Next]_vars

\* The orchestrator keeps ticking and systemd restarts it. Nobody is obliged to
\* decide an approval, to start a run or to work on an item.
FairSpec == Spec /\ WF_vars(EngineStep) /\ WF_vars(Restart)

-----------------------------------------------------------------------------
EnginePc == {"down", "idle", "run", "next", "unblock", "approval", "load", "insert", "node",
             "link", "block", "mark", "fail", "write"}

\* Every table and every local variable keeps its type.
TypeOK ==
    /\ runs \in [Runs -> RunStatus \union {"absent"}]
    /\ startedAt \in [Runs -> 0..MaxUpserts]
    /\ rows \in [Runs -> [Nodes -> NodeRunStatus \union {"absent"}]]
    /\ asked \in [Runs -> [Nodes -> 0..MaxAsked]]
    /\ linked \in [Runs -> [Nodes -> {"none", "pending", "approved", "rejected"}]]
    /\ workflow \in Dags \union {NoDag}
    /\ known \subseteq Items /\ recorded \subseteq Keys
    /\ verdict \in [Items -> Queue!Verdicts]
    /\ pc \in EnginePc
    /\ todo \in Seq([run : Runs, status : Active])
    /\ dag \in Dags \union {NoDag}
    /\ cache \in [Nodes -> NodeRunStatus \union {"absent"}]
    /\ at \in Nat
    /\ goal \in [status : RunStatus, next : EnginePc] \union {NoGoal}
    /\ upserts \in 0..MaxUpserts /\ publishes \in 0..MaxPublishes
    /\ crashes \in 0..MaxCrashes

\* A work item exists only for a node whose row exists, so that a restarted
\* orchestrator finds every node it has dispatched.
DispatchedHasRow ==
    \A r \in Runs, n \in Nodes : <<r, n>> \in known => rows[r][n] # "absent"

\* What the loop does with its nodes never reaches their rows: NODE_TRANSITIONS
\* allows none of the moves _progress_run makes from PENDING.
NodesStayPending == \A r \in Runs, n \in Nodes : rows[r][n] \in {"absent", "pending"}

\* A run is reported SUCCEEDED only if all its node rows are, also those that
\* an earlier version of the workflow left behind.
SucceededIsComplete ==
    \A r \in Runs : runs[r] = "succeeded" =>
        \A n \in Nodes : rows[r][n] \in {"absent", "succeeded"}

\* An item is dispatched only when, in the table itself and not only in what
\* the loop remembers of it, every node it depends on has succeeded.
DispatchFollowsDeps ==
    [][\A r \in Runs, n \in Nodes :
          <<r, n>> \in known' \ known =>
              \A e \in dag.edges : e[2] = n => rows[r][e[1]] = "succeeded"]_vars

\* If no two nodes share an idempotency key, no enqueue is refused: the
\* orchestrator never ends by its own exception, whatever it did before a crash.
KeysAreDistinct == \A i, j \in Items : KeyOf[i] = KeyOf[j] => i = j

DispatchNeverRefused ==
    [][KeysAreDistinct /\ pc # "down" /\ pc' = "down" => crashes' = crashes + 1]_vars

\* A queued run is taken up, in spite of crashes and of later upserts.
QueuedRunsStart ==
    \A r \in Runs : runs[r] = "queued" ~> runs[r] # "queued"

TasksOf(d) == {n \in Nodes : Kind[n] = "task" /\ \E i \in DOMAIN d.order : d.order[i] = n}
RootTasksOf(d) == {n \in TasksOf(d) : \A e \in d.edges : e[2] # n}

\* A failed work item fails its run, unless its verdict is withdrawn, another
\* version of the workflow is stored, or the run is written by someone else.
FailedWorkFailsRun ==
    \A r \in Runs : \A d \in Dags : \A n \in RootTasksOf(d) :
        verdict[<<r, n>>] = "failed" /\ runs[r] = "running" /\ workflow = d
            ~> \/ runs[r] \notin {"running", "blocked"} \/ verdict[<<r, n>>] # "failed"
               \/ workflow # d

\* A task that depends on nothing is dispatched once its run is running.
RootsAreDispatched ==
    \A r \in Runs : \A d \in Dags : \A n \in RootTasksOf(d) :
        runs[r] = "running" /\ workflow = d
            ~> \/ <<r, n>> \in known
               \/ runs[r] \notin {"running", "blocked"} \/ workflow # d

-----------------------------------------------------------------------------
\* At any moment: a work item exists only for a node with a row, and a run is
\* SUCCEEDED only if all its rows are, the ones an earlier version of the
\* workflow left behind included; no row ever leaves PENDING (_progress_run,
\* NODE_TRANSITIONS).
RowsSound == TypeOK /\ DispatchedHasRow /\ SucceededIsComplete /\ NodesStayPending

\* An item is dispatched only after all that its node depends on succeeded in
\* the table itself, and with distinct keys no dispatch is refused, so the
\* orchestrator never ends by its own exception (_deps_satisfied,
\* enqueue_work_item).
DispatchSound == DispatchFollowsDeps /\ DispatchNeverRefused

\* A queued run is taken up, a failed work item fails its run, and a task that
\* depends on nothing is dispatched, in spite of crashes and of other writers
\* of the tables (tick, _progress_run).
RunsAdvance == QueuedRunsStart /\ FailedWorkFailsRun /\ RootsAreDispatched
=============================================================================
