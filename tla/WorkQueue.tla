------------------------------ MODULE WorkQueue -----------------------------
(***************************************************************************)
(* The work_items table of StateDB (core/persistence/state_db.py) and the  *)
(* processes that share it: the runner service, which executes items, the  *)
(* BFF, through which remote agents enqueue, claim and acknowledge, and    *)
(* every service that reclaims expired leases when it starts.  The table   *)
(* is one SQLite file; StateDB's lock is per process, so a SELECT and the  *)
(* UPDATE that follows it are two steps that another process may separate. *)
(*                                                                         *)
(* External: the remote agents. The endpoints take any agent_id; remote    *)
(* agents are assumed to keep to ids of their own, never the runner's.     *)
(***************************************************************************)
EXTENDS Integers, FiniteSets

CONSTANTS
    Tasks,              \* task_id of every item that may be enqueued
    Remotes,            \* agent ids that remote agents claim under
    RunnerId,           \* the agent id of the runner service ("runner")
    Services,           \* the other services, which reclaim when they start
    Bff,                \* the one of them that serves the HTTP requests
    NoAgent, NoTask,    \* empty agent_id column; no item in hand
    Priority,           \* Priority[t], the column claims are ordered by
    MaxPriority,        \* default max_priority of a claim (10 in the code)
    ClientLimits,       \* max_priority values remote agents ask for
    LeaseTTL,           \* lease_ttl_sec, in ticks
    KeyFiles, FileOf,   \* idempotency file of each item's key (_safe_key)
    MaxCrashes,         \* bound: crashes of the runner, and failed writes of it
    MaxRestarts,        \* bound: restarts of the other services
    MaxRemoteClaims     \* bound: claims made by remote agents

ASSUME QueueAssumption ==
    /\ RunnerId \notin Remotes
    /\ NoAgent \notin Remotes \union {RunnerId}
    /\ NoTask \notin Tasks
    /\ Bff \in Services
    /\ RunnerId \notin Services
    /\ Priority \in [Tasks -> Int]
    /\ FileOf \in [Tasks -> KeyFiles]
    /\ LeaseTTL \in Nat \ {0}
    /\ MaxPriority \in Int
    /\ ClientLimits \subseteq Int
    /\ MaxCrashes \in Nat /\ MaxRestarts \in Nat /\ MaxRemoteClaims \in Nat

VARIABLES
    status,       \* work_items.status, "ABSENT" where there is no row
    agent,        \* work_items.agent_id (lease_owner always equals it)
    lease,        \* ticks left until lease_expires_at; NoLease for column 0
    recorded,     \* files of the idempotency store
    pc, cur, ok,  \* the runner: its place in tick(), its item, its verdict
    claiming,     \* the BFF between a claim's SELECT and UPDATE
    reclaiming,   \* items each process selected to reclaim, before its UPDATE
    executions,   \* history: how often each item was handed to process_task
    crashes, restarts, remoteClaims

items == <<status, agent, lease>>
runner == <<pc, cur, ok>>
counters == <<crashes, restarts, remoteClaims>>
vars == <<items, recorded, runner, claiming, reclaiming, executions, counters>>

NoLease == -1
NoClaim == [agent |-> NoAgent, task |-> NoTask]
Agents == Remotes \union {RunnerId}
Reclaimers == Services \union {RunnerId}

WorkItemStatus == {"CREATED", "CLAIMED", "RUNNING", "ACKED", "FAILED", "DEAD_LETTER"}

WorkItemTransitions ==
    { <<"CREATED", "CLAIMED">>, <<"CREATED", "DEAD_LETTER">>,
      <<"CLAIMED", "RUNNING">>, <<"CLAIMED", "CREATED">>, <<"CLAIMED", "DEAD_LETTER">>,
      <<"RUNNING", "ACKED">>, <<"RUNNING", "FAILED">>, <<"RUNNING", "DEAD_LETTER">>,
      <<"FAILED", "CREATED">>, <<"FAILED", "DEAD_LETTER">> }

\* Mutant: the transition table is not consulted.
CanTransitionAlways(from, to) == TRUE

CanTransition(from, to) == from = to \/ <<from, to>> \in WorkItemTransitions

RunnerPc == {"down", "boot", "tick", "claim", "update", "mark", "check",
             "exec", "ack", "settle"}

-----------------------------------------------------------------------------
Init ==
    /\ status = [t \in Tasks |-> "ABSENT"]
    /\ agent = [t \in Tasks |-> NoAgent]
    /\ lease = [t \in Tasks |-> NoLease]
    /\ recorded = {}
    /\ pc = "boot" /\ cur = NoTask /\ ok = FALSE
    /\ claiming = NoClaim
    /\ reclaiming = [p \in Reclaimers |-> {}]
    /\ executions = [t \in Tasks |-> 0]
    /\ crashes = 0 /\ restarts = 0 /\ remoteClaims = 0

\* enqueue_work_item, called by the orchestrator or by POST /v1/work-items; a
\* second insert of the task id or of its key is refused by the table.
Enqueue(t) ==
    /\ status[t] = "ABSENT"
    /\ status' = [status EXCEPT ![t] = "CREATED"]
    /\ UNCHANGED <<agent, lease, recorded, runner, claiming, reclaiming,
                   executions, counters>>

\* One second of the wall clock, as far as leases can tell.
Tick ==
    /\ \E t \in Tasks : lease[t] > 0
    /\ lease' = [t \in Tasks |-> IF lease[t] > 0 THEN lease[t] - 1 ELSE lease[t]]
    /\ UNCHANGED <<status, agent, recorded, runner, claiming, reclaiming,
                   executions, counters>>

-----------------------------------------------------------------------------
\* Mutant: a claim passes over the items at its own limit.
SelectableBelow(limit) ==
    LET claimable == {t \in Tasks : status[t] = "CREATED" /\ Priority[t] < limit}
    IN  {t \in claimable : \A u \in claimable : Priority[u] <= Priority[t]}

\* The SELECT of a claim: the claimable items of the highest priority.
Selectable(limit) ==
    LET claimable == {t \in Tasks : status[t] = "CREATED" /\ Priority[t] <= limit}
    IN  {t \in claimable : \A u \in claimable : Priority[u] <= Priority[t]}

\* Mutant: the UPDATE of a claim without "AND status=?".
ClaimUpdateUnguarded(a, t) ==
    /\ status' = [status EXCEPT ![t] = "CLAIMED"]
    /\ agent' = [agent EXCEPT ![t] = a]
    /\ \E left \in 0..LeaseTTL : lease' = [lease EXCEPT ![t] = left]

\* Mutant: the lease is one tick too long.
ClaimUpdateLonger(a, t) ==
    IF status[t] = "CREATED"
    THEN /\ status' = [status EXCEPT ![t] = "CLAIMED"]
         /\ agent' = [agent EXCEPT ![t] = a]
         /\ \E left \in 1..(LeaseTTL + 1) : lease' = [lease EXCEPT ![t] = left]
    ELSE UNCHANGED items

\* The UPDATE of a claim. Its WHERE clause repeats the status, and the caller
\* does not look at the number of rows it changed. The expiry was computed
\* before the SELECT, so any part of the lease may already be used up.
ClaimUpdate(a, t) ==
    IF status[t] = "CREATED"
    THEN /\ status' = [status EXCEPT ![t] = "CLAIMED"]
         /\ agent' = [agent EXCEPT ![t] = a]
         /\ \E left \in 0..LeaseTTL : lease' = [lease EXCEPT ![t] = left]
    ELSE UNCHANGED items

\* ack_work_item checks owner and transition in its SELECT ...
AckSelected(a, t, verdict) ==
    /\ agent[t] = a
    /\ CanTransition(status[t], verdict)

\* ... but only the owner in its UPDATE.
AckUpdate(a, t, verdict) ==
    status' = [status EXCEPT ![t] = IF agent[t] = a THEN verdict ELSE @]

\* Mutant: what is being executed is reclaimed as well.
ExpiredOrRunning == {t \in Tasks : status[t] \in {"CLAIMED", "RUNNING"} /\ lease[t] = 0}

\* Mutant: "lease_expires_at > 0" turned round.
ExpiredUnleased == {t \in Tasks : status[t] = "CLAIMED" /\ lease[t] = NoLease}

\* The SELECT of reclaim_expired_leases.
Expired == {t \in Tasks : status[t] = "CLAIMED" /\ lease[t] = 0}

\* The UPDATE of reclaim_expired_leases: every item the SELECT returned,
\* whatever has become of it since.
ReclaimUpdate(p) ==
    LET back == reclaiming[p]
    IN  /\ status' = [t \in Tasks |-> IF t \in back THEN "CREATED" ELSE status[t]]
        /\ agent' = [t \in Tasks |-> IF t \in back THEN NoAgent ELSE agent[t]]
        /\ lease' = [t \in Tasks |-> IF t \in back THEN NoLease ELSE lease[t]]
        /\ reclaiming' = [reclaiming EXCEPT ![p] = {}]

-----------------------------------------------------------------------------
\* Mutant: every acknowledgement is positive.
VerdictAlwaysOk(good) == "ACKED"

\* The runner service. ServiceBase.run recovers once ("boot") and then calls
\* tick() for ever; both begin by reclaiming.
Verdict(good) == IF good THEN "ACKED" ELSE "FAILED"

Afterwards(place) == IF place = "boot" THEN "tick" ELSE "claim"

RunnerReclaimSelect ==
    /\ pc \in {"boot", "tick"} /\ reclaiming[RunnerId] = {}
    /\ IF Expired = {}
       THEN pc' = Afterwards(pc) /\ UNCHANGED reclaiming
       ELSE /\ reclaiming' = [reclaiming EXCEPT ![RunnerId] = Expired]
            /\ UNCHANGED pc
    /\ UNCHANGED <<items, recorded, cur, ok, claiming, executions, counters>>

RunnerReclaimUpdate ==
    /\ pc \in {"boot", "tick"} /\ reclaiming[RunnerId] # {}
    /\ ReclaimUpdate(RunnerId)
    /\ pc' = Afterwards(pc)
    /\ UNCHANGED <<recorded, cur, ok, claiming, executions, counters>>

RunnerSelect ==
    /\ pc = "claim"
    /\ \/ /\ Selectable(MaxPriority) = {}
          /\ pc' = "tick"
          /\ UNCHANGED cur
       \/ \E t \in Selectable(MaxPriority) : cur' = t /\ pc' = "update"
    /\ UNCHANGED <<items, recorded, ok, claiming, reclaiming, executions, counters>>

RunnerClaim ==
    /\ pc = "update"
    /\ ClaimUpdate(RunnerId, cur)
    /\ pc' = "mark"
    /\ UNCHANGED <<recorded, cur, ok, claiming, reclaiming, executions, counters>>

\* mark_work_item_running: the status is part of the UPDATE's WHERE clause.
RunnerMark ==
    /\ pc = "mark"
    /\ IF agent[cur] = RunnerId /\ status[cur] \in {"CLAIMED", "RUNNING"}
       THEN status' = [status EXCEPT ![cur] = "RUNNING"] /\ pc' = "check"
       ELSE UNCHANGED status /\ pc' = "ack"
    /\ ok' = FALSE
    /\ UNCHANGED <<agent, lease, recorded, cur, claiming, reclaiming, executions, counters>>

\* Marking, or the heartbeat written before it, raises: the handler goes
\* straight to its negative acknowledgement.
RunnerMarkRaises ==
    /\ pc = "mark" /\ crashes < MaxCrashes
    /\ crashes' = crashes + 1
    /\ pc' = "ack" /\ ok' = FALSE
    /\ UNCHANGED <<items, recorded, cur, claiming, reclaiming, executions,
                   restarts, remoteClaims>>

\* Mutant: the runner does not ask the idempotency store.
RunnerCheckNothing ==
    /\ pc = "check"
    /\ pc' = "exec"
    /\ executions' = [executions EXCEPT ![cur] = @ + 1]
    /\ UNCHANGED <<items, recorded, cur, ok, claiming, reclaiming, counters>>

\* Mutant: any recorded key will do.
RunnerCheckAnyKey ==
    /\ pc = "check"
    /\ IF recorded # {}
       THEN pc' = "ack" /\ ok' \in BOOLEAN /\ UNCHANGED executions
       ELSE /\ pc' = "exec"
            /\ executions' = [executions EXCEPT ![cur] = @ + 1]
            /\ UNCHANGED ok
    /\ UNCHANGED <<items, recorded, cur, claiming, reclaiming, counters>>

\* idempotency.has: a recorded key is acknowledged without executing, unless
\* the audit or WAL write that follows raises.
RunnerCheck ==
    /\ pc = "check"
    /\ IF FileOf[cur] \in recorded
       THEN pc' = "ack" /\ ok' \in BOOLEAN /\ UNCHANGED executions
       ELSE /\ pc' = "exec"
            /\ executions' = [executions EXCEPT ![cur] = @ + 1]
            /\ UNCHANGED ok
    /\ UNCHANGED <<items, recorded, cur, claiming, reclaiming, counters>>

\* Mutant: the failure of process_task is lost.
RunnerExecuteForgiving ==
    /\ pc = "exec"
    /\ \/ recorded' = recorded \union {FileOf[cur]}
       \/ UNCHANGED recorded
    /\ ok' \in BOOLEAN
    /\ pc' = "ack"
    /\ UNCHANGED <<items, cur, claiming, reclaiming, executions, counters>>

\* process_task and the writes after it: it may raise before the key is
\* recorded, or a later write may raise once the key is recorded.
RunnerExecute ==
    /\ pc = "exec"
    /\ \/ recorded' = recorded \union {FileOf[cur]} /\ ok' \in BOOLEAN
       \/ UNCHANGED recorded /\ ok' = FALSE
    /\ pc' = "ack"
    /\ UNCHANGED <<items, cur, claiming, reclaiming, executions, counters>>

RunnerAckSelect ==
    /\ pc = "ack"
    /\ IF AckSelected(RunnerId, cur, Verdict(ok))
       THEN pc' = "settle" /\ UNCHANGED cur
       ELSE pc' = "tick" /\ cur' = NoTask
    /\ UNCHANGED <<items, recorded, ok, claiming, reclaiming, executions, counters>>

RunnerAckUpdate ==
    /\ pc = "settle"
    /\ AckUpdate(RunnerId, cur, Verdict(ok))
    /\ pc' = "tick" /\ cur' = NoTask
    /\ UNCHANGED <<agent, lease, recorded, ok, claiming, reclaiming, executions, counters>>

\* The process dies, or an exception escapes tick(): what is on disk stays.
RunnerCrash ==
    /\ pc # "down" /\ crashes < MaxCrashes
    /\ crashes' = crashes + 1
    /\ pc' = "down" /\ cur' = NoTask /\ ok' = FALSE
    /\ reclaiming' = [reclaiming EXCEPT ![RunnerId] = {}]
    /\ UNCHANGED <<items, recorded, claiming, executions, restarts, remoteClaims>>

\* systemd: Restart=on-failure.
RunnerStart ==
    /\ pc = "down"
    /\ pc' = "boot"
    /\ UNCHANGED <<items, recorded, cur, ok, claiming, reclaiming, executions, counters>>

RunnerStep ==
    \/ RunnerReclaimSelect \/ RunnerReclaimUpdate \/ RunnerSelect \/ RunnerClaim
    \/ RunnerMark \/ RunnerCheck \/ RunnerExecute \/ RunnerAckSelect
    \/ RunnerAckUpdate \/ RunnerStart

-----------------------------------------------------------------------------
\* POST /v1/work-items/claim. StateDB's lock keeps two requests of the BFF
\* apart; nothing keeps the runner out between the SELECT and the UPDATE.
BffClaimSelect(a) ==
    /\ claiming = NoClaim /\ remoteClaims < MaxRemoteClaims
    /\ \E limit \in ClientLimits : \E t \in Selectable(limit) :
          claiming' = [agent |-> a, task |-> t]
    /\ remoteClaims' = remoteClaims + 1
    /\ UNCHANGED <<items, recorded, runner, reclaiming, executions, crashes, restarts>>

BffClaimUpdate ==
    /\ claiming # NoClaim
    /\ ClaimUpdate(claiming.agent, claiming.task)
    /\ claiming' = NoClaim
    /\ UNCHANGED <<recorded, runner, reclaiming, executions, counters>>

\* POST /v1/work-items/ack: SELECT and UPDATE hold StateDB's lock, and no
\* other process writes a row that a remote agent owns and may settle.
BffAck(a, t, good) ==
    /\ claiming = NoClaim
    /\ IF AckSelected(a, t, Verdict(good))
       THEN AckUpdate(a, t, Verdict(good))
       ELSE UNCHANGED status
    /\ UNCHANGED <<agent, lease, recorded, runner, claiming, reclaiming,
                   executions, counters>>

\* Another service starts, or starts again, and recover_runtime selects the
\* expired leases; a restart of the BFF forgets the request it was serving.
ServiceRestart(s) ==
    /\ restarts < MaxRestarts
    /\ restarts' = restarts + 1
    /\ reclaiming' = [reclaiming EXCEPT ![s] = Expired]
    /\ claiming' = IF s = Bff THEN NoClaim ELSE claiming
    /\ UNCHANGED <<items, recorded, runner, executions, crashes, remoteClaims>>

ServiceReclaimUpdate(s) ==
    /\ reclaiming[s] # {}
    /\ ReclaimUpdate(s)
    /\ UNCHANGED <<recorded, runner, claiming, executions, counters>>

-----------------------------------------------------------------------------
Next ==
    \/ \E t \in Tasks : Enqueue(t)
    \/ Tick
    \/ RunnerStep
    \/ RunnerCrash
    \/ RunnerMarkRaises
    \/ \E a \in Remotes : BffClaimSelect(a)
    \/ BffClaimUpdate
    \/ \E a \in Remotes, t \in Tasks, good \in BOOLEAN : BffAck(a, t, good)
    \/ \E s \in Services : ServiceRestart(s)
    \/ \E s \in Services : ServiceReclaimUpdate(s)

Spec == Init /\ [][Next]_vars

\* The runner's loop goes on and systemd restarts it, time passes, and a
\* request or a recovery that was begun is finished. Nobody is obliged to
\* enqueue, to claim remotely, to crash or to restart.
Fairness ==
    /\ WF_vars(RunnerStep)
    /\ WF_vars(Tick)
    /\ WF_vars(BffClaimUpdate)
    /\ \A s \in Services : WF_vars(ServiceReclaimUpdate(s))

FairSpec == Spec /\ Fairness

-----------------------------------------------------------------------------
\* Every column and every local variable keeps its type.
TypeOK ==
    /\ status \in [Tasks -> WorkItemStatus \union {"ABSENT"}]
    /\ agent \in [Tasks -> Agents \union {NoAgent}]
    /\ lease \in [Tasks -> NoLease..LeaseTTL]
    /\ recorded \subseteq KeyFiles
    /\ pc \in RunnerPc /\ cur \in Tasks \union {NoTask} /\ ok \in BOOLEAN
    /\ claiming \in [agent : Remotes, task : Tasks] \union {NoClaim}
    /\ reclaiming \in [Reclaimers -> SUBSET Tasks]
    /\ executions \in [Tasks -> Nat]
    /\ crashes \in Nat /\ restarts \in Nat /\ remoteClaims \in Nat

\* An item the orchestrator will take for done (ACKED) has its key in the
\* idempotency store: no crash, lost claim or reclaim gives out an ACK for
\* work that was not recorded.
AckedWasRecorded ==
    \A t \in Tasks : status[t] = "ACKED" => FileOf[t] \in recorded

\* If no two keys share a file, an ACKED item was itself handed to
\* process_task. (_safe_key maps every odd character to "_", so two keys may.)
KeysHaveOwnFiles ==
    \A t, u \in Tasks : FileOf[t] = FileOf[u] => t = u

AckedWasExecuted ==
    KeysHaveOwnFiles => \A t \in Tasks : status[t] = "ACKED" => executions[t] > 0

\* Remote agents can hold items but never settle one: whatever is ACKED or
\* FAILED was settled by the runner, since no endpoint marks a claim RUNNING.
SettledByRunner ==
    \A t \in Tasks : status[t] \in {"RUNNING", "ACKED", "FAILED"} => agent[t] = RunnerId

\* The runner crashes and starts again as often as it likes: as long as no
\* other service recovers at the same time, no item is executed twice.
AtMostOnceUntilRestart ==
    restarts = 0 => \A t \in Tasks : executions[t] <= 1

\* Whatever happens, an item is never handed to process_task once its key is
\* in the idempotency store.
RecordedNeverRerun ==
    [][\A t \in Tasks : FileOf[t] \in recorded => executions'[t] = executions[t]]_vars

\* Until another service recovers, a row's status moves only along
\* WORK_ITEM_TRANSITIONS, although most statements do not check it.
TransitionsRespected ==
    [][restarts' = 0 => \A t \in Tasks :
          \/ status[t] = "ABSENT" /\ status'[t] = "CREATED"
          \/ CanTransition(status[t], status'[t])]_vars

\* Until another service recovers, nobody takes an item from an agent whose
\* lease on it has not run out.
LiveLeaseKept ==
    [][restarts' = 0 => \A t \in Tasks :
          status[t] = "CLAIMED" /\ lease[t] > 0 => agent'[t] = agent[t]]_vars

\* Until another service recovers, a row moves only along
\* WORK_ITEM_TRANSITIONS, and nobody takes a claimed row from an agent whose
\* lease has not run out (claim_work_item, reclaim_expired_leases,
\* mark_work_item_running, ack_work_item).
MovesSound == TransitionsRespected /\ LiveLeaseKept

\* A claim is never held for ever: the holder goes on with it, or the lease
\* expires and the runner's next tick gives it back, crashes included.
ClaimsAreReleased ==
    \A t \in Tasks : status[t] = "CLAIMED" ~> status[t] # "CLAIMED"

\* An item the runner may claim is settled in the end, if the runner does not
\* crash and remote agents stop claiming (MaxRemoteClaims). Items above the
\* default max_priority of a claim are excepted: the runner never sees them.
ItemsSettle ==
    \A t \in Tasks :
        status[t] = "CREATED" /\ Priority[t] <= MaxPriority
            ~> status[t] \in {"ACKED", "FAILED"} \/ crashes > 0

\* No claim is held for ever, and an item the runner may claim is settled in
\* the end if the runner does not crash (tick, claim_work_item).
ItemsGoOn == ClaimsAreReleased /\ ItemsSettle

\* An item whose execution was interrupted is taken up again. The code has no
\* step that does it: reclaim_expired_leases looks at CLAIMED rows only.
InterruptedItemsResume ==
    \A t \in Tasks : status[t] = "RUNNING" ~> status[t] # "RUNNING"

\* The same, as WORK_ITEM_TRANSITIONS says it, with other services restarting.
TransitionsAlwaysRespected ==
    [][\A t \in Tasks :
          \/ status[t] = "ABSENT" /\ status'[t] = "CREATED"
          \/ CanTransition(status[t], status'[t])]_vars

\* The queue implements Delivery.
AbstractVerdict(s) ==
    CASE s = "ACKED" -> "ok" [] s = "FAILED" -> "failed" [] OTHER -> "none"

Promise == INSTANCE Delivery WITH
    known <- {t \in Tasks : status[t] # "ABSENT"},
    verdict <- [t \in Tasks |-> AbstractVerdict(status[t])]

ImplementsDelivery == Promise!Spec
=============================================================================
