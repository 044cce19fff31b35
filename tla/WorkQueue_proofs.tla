--------------------------- MODULE WorkQueue_proofs --------------------------
(***************************************************************************)
(* Proofs about WorkQueue, for any sets of items, agents and services and  *)
(* any bounds.                                                             *)
(***************************************************************************)
EXTENDS WorkQueue, TLAPS

\* The places of tick() at which the runner has an item in hand.
Busy == {"update", "mark", "check", "exec", "ack", "settle"}

TypeInv == TypeOK /\ (pc \in Busy => cur \in Tasks)

\* TypeInv is inductive: TypeOK alone is not, because the steps that use the
\* item in hand need to know that there is one.
LEMMA TypeInvariance == Spec => []TypeInv
<1> USE QueueAssumption DEF NoLease, Agents, Reclaimers, WorkItemStatus, RunnerPc
<1>1. Init => TypeInv
  <2> SUFFICES ASSUME Init PROVE TypeInv
    OBVIOUS
  <2>1. lease \in [Tasks -> NoLease..LeaseTTL]
    BY DEF Init
  <2>2. claiming \in [agent : Remotes, task : Tasks] \union {NoClaim}
    BY DEF Init
  <2>3. reclaiming \in [Reclaimers -> SUBSET Tasks]
    BY DEF Init
  <2>4. QED
    BY <2>1, <2>2, <2>3 DEF Init, TypeOK, TypeInv, Busy
<1>2. TypeInv /\ [Next]_vars => TypeInv'
  <2> SUFFICES ASSUME TypeInv, [Next]_vars PROVE TypeInv'
    OBVIOUS
  <2> USE DEF TypeOK, TypeInv, Busy
  <2>1. ASSUME NEW t \in Tasks, Enqueue(t) PROVE TypeInv'
    BY <2>1 DEF Enqueue, runner, counters
  <2>2. CASE Tick
    BY <2>2 DEF Tick, runner, counters
  <2>3. CASE RunnerReclaimSelect
    BY <2>3 DEF RunnerReclaimSelect, Expired, Afterwards, items, counters
  <2>4. CASE RunnerReclaimUpdate
    BY <2>4 DEF RunnerReclaimUpdate, ReclaimUpdate, Afterwards, counters
  <2>5. CASE RunnerSelect
    BY <2>5 DEF RunnerSelect, Selectable, items, counters
  <2>6. CASE RunnerClaim
    BY <2>6 DEF RunnerClaim, ClaimUpdate, items, counters
  <2>7. CASE RunnerMark
    BY <2>7 DEF RunnerMark, counters
  <2>8. CASE RunnerCheck
    BY <2>8 DEF RunnerCheck, items, counters
  <2>9. CASE RunnerExecute
    BY <2>9 DEF RunnerExecute, items, counters
  <2>10. CASE RunnerAckSelect
    BY <2>10 DEF RunnerAckSelect, items, counters
  <2>11. CASE RunnerAckUpdate
    BY <2>11 DEF RunnerAckUpdate, AckUpdate, Verdict, counters
  <2>12. CASE RunnerCrash
    <3>1. reclaiming' \in [Reclaimers -> SUBSET Tasks]
      BY <2>12 DEF RunnerCrash
    <3>2. crashes' \in Nat /\ restarts' \in Nat /\ remoteClaims' \in Nat
      BY <2>12 DEF RunnerCrash
    <3>3. pc' = "down" /\ cur' = NoTask /\ ok' = FALSE
      BY <2>12 DEF RunnerCrash
    <3>4. UNCHANGED <<items, recorded, claiming, executions>>
      BY <2>12 DEF RunnerCrash
    <3>5. QED
      BY <3>1, <3>2, <3>3, <3>4 DEF items
  <2>13. CASE RunnerStart
    BY <2>13 DEF RunnerStart, items, counters
  <2>14. ASSUME NEW a \in Remotes, BffClaimSelect(a) PROVE TypeInv'
    BY <2>14 DEF BffClaimSelect, Selectable, items, runner
  <2>15. CASE BffClaimUpdate
    BY <2>15 DEF BffClaimUpdate, ClaimUpdate, NoClaim, items, runner, counters
  <2>16. ASSUME NEW a \in Remotes, NEW t \in Tasks, NEW good \in BOOLEAN,
                BffAck(a, t, good)
         PROVE  TypeInv'
    BY <2>16 DEF BffAck, AckUpdate, Verdict, runner, counters
  <2>17. ASSUME NEW s \in Services, ServiceRestart(s) PROVE TypeInv'
    BY <2>17 DEF ServiceRestart, Expired, items, runner
  <2>18. ASSUME NEW s \in Services, ServiceReclaimUpdate(s) PROVE TypeInv'
    BY <2>18 DEF ServiceReclaimUpdate, ReclaimUpdate, runner, counters
  <2>19. CASE UNCHANGED vars
    BY <2>19 DEF vars, items, runner, counters
  <2>20. CASE RunnerMarkRaises
    <3>1. crashes' \in Nat /\ restarts' \in Nat /\ remoteClaims' \in Nat
      BY <2>20 DEF RunnerMarkRaises
    <3>2. pc' = "ack" /\ cur' = cur /\ ok' = FALSE /\ cur \in Tasks
      BY <2>20 DEF RunnerMarkRaises
    <3>3. UNCHANGED <<items, recorded, claiming, reclaiming, executions>>
      BY <2>20 DEF RunnerMarkRaises
    <3>4. QED
      BY <3>1, <3>2, <3>3 DEF items
  <2>21. QED
    BY <2>1, <2>2, <2>3, <2>4, <2>5, <2>6, <2>7, <2>8, <2>9, <2>10, <2>11,
       <2>12, <2>13, <2>14, <2>15, <2>16, <2>17, <2>18, <2>19, <2>20
       DEF Next, RunnerStep
<1>3. QED
  BY <1>1, <1>2, PTL DEF Spec

\* The type of every column and local variable of the work queue is kept by
\* every handler of state_db.py and by every step of the runner.
THEOREM TypeCorrect == Spec => []TypeOK
<1>1. TypeInv => TypeOK
  BY DEF TypeInv
<1>2. QED
  BY <1>1, TypeInvariance, PTL

-----------------------------------------------------------------------------
\* Nobody but the runner settles an item: the claim of a remote agent never
\* becomes RUNNING, and ack_work_item refuses every other status.
THEOREM OnlyTheRunnerSettles == Spec => []SettledByRunner
<1> USE QueueAssumption DEF SettledByRunner
<1>1. Init => SettledByRunner
  BY DEF Init
<1>2. TypeInv /\ SettledByRunner /\ [Next]_vars => SettledByRunner'
  <2> SUFFICES ASSUME TypeInv, SettledByRunner, [Next]_vars PROVE SettledByRunner'
    OBVIOUS
  <2> USE DEF TypeInv, TypeOK
  <2>1. CASE UNCHANGED items
    BY <2>1 DEF items
  <2>2. ASSUME NEW t \in Tasks, Enqueue(t) PROVE SettledByRunner'
    BY <2>2 DEF Enqueue
  <2>3. CASE Tick
    BY <2>3 DEF Tick
  <2>4. ASSUME NEW p \in Reclaimers, ReclaimUpdate(p) PROVE SettledByRunner'
    BY <2>4 DEF ReclaimUpdate
  <2>5. ASSUME NEW a \in Agents, NEW t \in Tasks, ClaimUpdate(a, t)
        PROVE  SettledByRunner'
    <3>1. CASE status[t] = "CREATED"
      <4>1. \A u \in Tasks : u # t => status'[u] = status[u] /\ agent'[u] = agent[u]
        BY <2>5, <3>1 DEF ClaimUpdate
      <4>2. status'[t] = "CLAIMED"
        BY <2>5, <3>1 DEF ClaimUpdate
      <4>3. QED
        BY <4>1, <4>2
    <3>2. CASE status[t] # "CREATED"
      BY <2>5, <3>2 DEF ClaimUpdate, items
    <3>3. QED
      BY <3>1, <3>2
  <2>6. CASE RunnerMark
    BY <2>6 DEF RunnerMark
  <2>7. CASE RunnerAckUpdate
    BY <2>7 DEF RunnerAckUpdate, AckUpdate
  <2>8. ASSUME NEW a \in Remotes, NEW t \in Tasks, NEW good \in BOOLEAN,
               BffAck(a, t, good)
        PROVE  SettledByRunner'
    <3>1. ~AckSelected(a, t, Verdict(good))
      BY DEF AckSelected, CanTransition, WorkItemTransitions, Verdict
    <3>2. QED
      BY <2>8, <3>1 DEF BffAck
  <2>9. CASE Next
    <3>1. CASE RunnerStep
      <4>1. CASE RunnerClaim
        BY <2>5, <4>1 DEF RunnerClaim, Busy, Agents
      <4>2. CASE RunnerReclaimUpdate
        BY <2>4, <4>2 DEF RunnerReclaimUpdate, Reclaimers
      <4>3. CASE RunnerReclaimSelect \/ RunnerSelect \/ RunnerCheck
                 \/ RunnerExecute \/ RunnerAckSelect \/ RunnerStart
        BY <2>1, <4>3 DEF RunnerReclaimSelect, RunnerSelect, RunnerCheck,
                          RunnerExecute, RunnerAckSelect, RunnerStart
      <4>4. QED
        BY <2>6, <2>7, <3>1, <4>1, <4>2, <4>3 DEF RunnerStep
    <3>2. CASE BffClaimUpdate
      <4>1. claiming.agent \in Agents /\ claiming.task \in Tasks
        BY <3>2 DEF BffClaimUpdate, Agents
      <4>2. QED
        BY <2>5, <3>2, <4>1 DEF BffClaimUpdate
    <3>3. ASSUME NEW s \in Services, ServiceReclaimUpdate(s) PROVE SettledByRunner'
      BY <2>4, <3>3 DEF ServiceReclaimUpdate, Reclaimers
    <3>4. CASE RunnerCrash \/ RunnerMarkRaises \/ (\E a \in Remotes : BffClaimSelect(a))
               \/ (\E s \in Services : ServiceRestart(s))
      BY <2>1, <3>4 DEF RunnerCrash, RunnerMarkRaises, BffClaimSelect, ServiceRestart
    <3>5. QED
      BY <2>2, <2>3, <2>8, <2>9, <3>1, <3>2, <3>3, <3>4 DEF Next
  <2>10. QED
    BY <2>1, <2>9 DEF vars
<1>3. QED
  BY <1>1, <1>2, TypeInvariance, PTL DEF Spec

-----------------------------------------------------------------------------
\* Once an item's key is recorded, no step of any process hands the item to
\* process_task: idempotency.has stands before the only call of it.
THEOREM NoRerunOfRecorded == Spec => RecordedNeverRerun
<1>1. TypeInv /\ [Next]_vars =>
        [\A t \in Tasks : FileOf[t] \in recorded => executions'[t] = executions[t]]_vars
  <2> SUFFICES ASSUME TypeInv, [Next]_vars,
                      NEW t \in Tasks, FileOf[t] \in recorded
               PROVE  executions'[t] = executions[t]
    OBVIOUS
  <2>1. CASE RunnerCheck
    BY <2>1 DEF RunnerCheck, TypeInv, TypeOK
  <2>2. CASE UNCHANGED executions
    BY <2>2
  <2>3. QED
    BY <2>1, <2>2 DEF Next, vars, Enqueue, Tick, RunnerStep, RunnerReclaimSelect,
       RunnerReclaimUpdate, RunnerSelect, RunnerClaim, RunnerMark, RunnerExecute,
       RunnerAckSelect, RunnerAckUpdate, RunnerCrash, RunnerMarkRaises, RunnerStart, BffClaimSelect,
       BffClaimUpdate, BffAck, ServiceRestart, ServiceReclaimUpdate
<1>2. QED
  BY <1>1, TypeInvariance, PTL DEF Spec, RecordedNeverRerun

-----------------------------------------------------------------------------
\* The only ways in which the status of an item changes.
EnqueueMove(t) == status[t] = "ABSENT" /\ status'[t] = "CREATED"

ClaimMove(t) == status[t] = "CREATED" /\ status'[t] = "CLAIMED"

ReclaimMove(t) ==
    /\ \E p \in Reclaimers : t \in reclaiming[p] /\ reclaiming'[p] = {}
    /\ status'[t] = "CREATED"

MarkMove(t) ==
    /\ t = cur /\ pc = "mark" /\ pc' = "check" /\ agent[t] = RunnerId
    /\ status[t] = "CLAIMED" /\ status'[t] = "RUNNING"

SettleMove(t) ==
    /\ t = cur /\ pc = "settle" /\ pc' = "tick" /\ agent[t] = RunnerId
    /\ status'[t] = Verdict(ok)

\* Each change of a status is one of these moves, whatever statement made it.
LEMMA StatusMoves ==
    ASSUME TypeInv, SettledByRunner, [Next]_vars,
           NEW t \in Tasks, status'[t] # status[t]
    PROVE  EnqueueMove(t) \/ ClaimMove(t) \/ ReclaimMove(t) \/ MarkMove(t) \/ SettleMove(t)
<1> USE QueueAssumption DEF TypeInv, TypeOK
<1>1. ASSUME NEW p \in Reclaimers, ReclaimUpdate(p) PROVE ReclaimMove(t)
  BY <1>1 DEF ReclaimUpdate, ReclaimMove
<1>2. ASSUME NEW a \in Agents, NEW u \in Tasks, ClaimUpdate(a, u) PROVE ClaimMove(t)
  BY <1>2 DEF ClaimUpdate, ClaimMove, items
<1>3. ASSUME NEW u \in Tasks, Enqueue(u) PROVE EnqueueMove(t)
  BY <1>3 DEF Enqueue, EnqueueMove
<1>4. CASE RunnerMark
  BY <1>4 DEF RunnerMark, MarkMove
<1>5. CASE RunnerAckUpdate
  BY <1>5 DEF RunnerAckUpdate, AckUpdate, SettleMove
<1>6. CASE RunnerClaim
  BY <1>2, <1>6 DEF RunnerClaim, Busy, Agents
<1>7. CASE BffClaimUpdate
  <2>1. claiming.agent \in Agents /\ claiming.task \in Tasks
    BY <1>7 DEF BffClaimUpdate, Agents
  <2>2. QED
    BY <1>2, <1>7, <2>1 DEF BffClaimUpdate
<1>8. CASE RunnerReclaimUpdate
  BY <1>1, <1>8 DEF RunnerReclaimUpdate, Reclaimers
<1>9. ASSUME NEW s \in Services, ServiceReclaimUpdate(s) PROVE ReclaimMove(t)
  BY <1>1, <1>9 DEF ServiceReclaimUpdate, Reclaimers
<1>10. ASSUME NEW a \in Remotes, NEW u \in Tasks, NEW good \in BOOLEAN, BffAck(a, u, good)
       PROVE  FALSE
  <2>1. ~AckSelected(a, u, Verdict(good))
    BY DEF AckSelected, CanTransition, WorkItemTransitions, Verdict, SettledByRunner
  <2>2. QED
    BY <1>10, <2>1 DEF BffAck
<1>11. ~ UNCHANGED items
  BY DEF items
<1>12. QED
  BY <1>3, <1>4, <1>5, <1>6, <1>7, <1>8, <1>9, <1>10, <1>11
     DEF Next, vars, Tick, RunnerStep, RunnerReclaimSelect, RunnerSelect, RunnerCheck,
         RunnerExecute, RunnerAckSelect, RunnerStart, RunnerCrash, RunnerMarkRaises, BffClaimSelect,
         ServiceRestart

-----------------------------------------------------------------------------
\* What makes AckedWasRecorded inductive: the runner carries ok = TRUE towards
\* its acknowledgement only for an item whose key is recorded.
RecordInv ==
    /\ AckedWasRecorded
    /\ pc \in {"ack", "settle"} /\ ok => FileOf[cur] \in recorded

\* Keys are never removed from the idempotency store.
LEMMA RecordsStay ==
    ASSUME [Next]_vars
    PROVE  recorded \subseteq recorded'
BY DEF Next, vars, Enqueue, Tick, RunnerStep, RunnerReclaimSelect, RunnerReclaimUpdate,
       RunnerSelect, RunnerClaim, RunnerMark, RunnerCheck, RunnerExecute, RunnerAckSelect,
       RunnerAckUpdate, RunnerCrash, RunnerMarkRaises, RunnerStart, BffClaimSelect, BffClaimUpdate, BffAck,
       ServiceRestart, ServiceReclaimUpdate

\* Between its execution and its acknowledgement an item stays recorded, and
\* only the runner's UPDATE turns a status into ACKED.
LEMMA RecordInvariance == Spec => []RecordInv
<1>1. Init => RecordInv
  BY DEF Init, RecordInv, AckedWasRecorded
<1>2. TypeInv /\ SettledByRunner /\ RecordInv /\ [Next]_vars => RecordInv'
  <2> SUFFICES ASSUME TypeInv, SettledByRunner, RecordInv, [Next]_vars
               PROVE  RecordInv'
    OBVIOUS
  <2>1. recorded \subseteq recorded'
    BY RecordsStay
  <2>2. AckedWasRecorded'
    <3> SUFFICES ASSUME NEW t \in Tasks, status'[t] = "ACKED"
                 PROVE  FileOf[t] \in recorded
      BY <2>1 DEF AckedWasRecorded
    <3>1. CASE status[t] = "ACKED"
      BY <3>1 DEF RecordInv, AckedWasRecorded
    <3>2. CASE status'[t] # status[t]
      <4>1. SettleMove(t)
        BY <3>2, StatusMoves DEF EnqueueMove, ClaimMove, ReclaimMove, MarkMove
      <4>2. QED
        BY <4>1 DEF SettleMove, Verdict, RecordInv, TypeInv, TypeOK
    <3>3. QED
      BY <3>1, <3>2
  <2>3. pc' \in {"ack", "settle"} /\ ok' => FileOf[cur'] \in recorded'
    <3>1. CASE UNCHANGED runner
      BY <2>1, <3>1 DEF runner, RecordInv
    <3>2. CASE RunnerStep
      BY <2>1, <3>2 DEF RunnerStep, RunnerReclaimSelect, RunnerReclaimUpdate,
         RunnerSelect, RunnerClaim, RunnerMark, RunnerCheck, RunnerExecute,
         RunnerAckSelect, RunnerAckUpdate, RunnerStart, Afterwards, RecordInv
    <3>3. CASE RunnerCrash \/ RunnerMarkRaises
      BY <3>3 DEF RunnerCrash, RunnerMarkRaises
    <3>4. QED
      BY <3>1, <3>2, <3>3 DEF Next, vars, Enqueue, Tick, BffClaimSelect,
         BffClaimUpdate, BffAck, ServiceRestart, ServiceReclaimUpdate
  <2>4. QED
    BY <2>2, <2>3 DEF RecordInv
<1>3. QED
  BY <1>1, <1>2, TypeInvariance, OnlyTheRunnerSettles, PTL DEF Spec

\* An ACKED item has its key in the idempotency store, whatever crashes, lost
\* claims and reclaims come between: the runner acknowledges after the record.
THEOREM AckedIsRecorded == Spec => []AckedWasRecorded
<1>1. RecordInv => AckedWasRecorded
  BY DEF RecordInv
<1>2. QED
  BY <1>1, RecordInvariance, PTL

-----------------------------------------------------------------------------
\* As long as no other service has recovered, only the runner reclaims, between
\* two items and only what is still CLAIMED; so whatever was executed once is
\* out of reach of every later claim.
OnceInv ==
    restarts = 0 =>
        /\ \A s \in Services : reclaiming[s] = {}
        /\ \A t \in reclaiming[RunnerId] : status[t] = "CLAIMED"
        /\ reclaiming[RunnerId] # {} => pc \in {"boot", "tick"}
        /\ \A t \in Tasks : executions[t] <= 1
        /\ \A t \in Tasks :
              executions[t] = 1 => status[t] \in {"RUNNING", "ACKED", "FAILED"}
        /\ pc \in {"update", "mark"} => status[cur] \in {"CREATED", "CLAIMED"}
        /\ pc = "check" => status[cur] = "RUNNING" /\ executions[cur] = 0

\* No step of the runner or of the BFF leaves OnceInv, reclaims and crashes
\* of the runner included.
LEMMA OnceInvariance == Spec => []OnceInv
<1> USE QueueAssumption
<1>1. Init => OnceInv
  BY DEF Init, OnceInv, Reclaimers
<1>2. TypeInv /\ SettledByRunner /\ OnceInv /\ [Next]_vars => OnceInv'
  <2> SUFFICES ASSUME TypeInv, SettledByRunner, OnceInv, [Next]_vars, restarts' = 0
               PROVE  OnceInv'
    BY DEF OnceInv
  <2> USE DEF TypeInv, TypeOK
  <2>1. restarts = 0 /\ \A s \in Services : ~ServiceRestart(s)
    BY DEF Next, vars, counters, Enqueue, Tick, RunnerStep, RunnerReclaimSelect,
       RunnerReclaimUpdate, RunnerSelect, RunnerClaim, RunnerMark, RunnerCheck,
       RunnerExecute, RunnerAckSelect, RunnerAckUpdate, RunnerCrash, RunnerMarkRaises, RunnerStart,
       BffClaimSelect, BffClaimUpdate, BffAck, ServiceRestart, ServiceReclaimUpdate
  <2>2. \A p \in Reclaimers : reclaiming[p] # {} =>
           p = RunnerId /\ pc \in {"boot", "tick"}
    BY <2>1 DEF OnceInv, Reclaimers
  <2>3. \A t \in Tasks : ReclaimMove(t) =>
           /\ pc \in {"boot", "tick"} /\ status[t] = "CLAIMED"
           /\ reclaiming'[RunnerId] = {}
    BY <2>1, <2>2 DEF ReclaimMove, OnceInv
  <2>4. CASE UNCHANGED <<runner, reclaiming, executions>>
    <3>1. \A t \in Tasks : status'[t] # status[t] =>
             EnqueueMove(t) \/ ClaimMove(t) \/ ReclaimMove(t)
      <4> SUFFICES ASSUME NEW t \in Tasks, status'[t] # status[t]
                   PROVE  EnqueueMove(t) \/ ClaimMove(t) \/ ReclaimMove(t)
        OBVIOUS
      <4>1. QED
        BY <2>4, StatusMoves DEF MarkMove, SettleMove, runner
    <3>2. \A t \in Tasks : status'[t] # status[t] =>
             \/ status[t] = "ABSENT" /\ status'[t] = "CREATED"
             \/ status[t] = "CREATED" /\ status'[t] = "CLAIMED"
             \/ pc \in {"boot", "tick"} /\ status[t] = "CLAIMED"
                /\ reclaiming[RunnerId] = {}
      BY <2>3, <2>4, <3>1 DEF EnqueueMove, ClaimMove
    <3>3. \A t \in reclaiming[RunnerId] : status'[t] = "CLAIMED"
      BY <2>1, <3>2 DEF OnceInv, Reclaimers
    <3>4. \A t \in Tasks : executions[t] = 1 => status'[t] = status[t]
      BY <2>1, <3>2 DEF OnceInv
    <3>5. pc \in {"update", "mark"} => status'[cur] \in {"CREATED", "CLAIMED"}
      BY <2>1, <3>2 DEF OnceInv, Busy
    <3>6. pc = "check" => status'[cur] = "RUNNING"
      BY <2>1, <3>2 DEF OnceInv, Busy
    <3>7. QED
      BY <2>1, <2>4, <3>3, <3>4, <3>5, <3>6 DEF OnceInv, runner
  <2>5. CASE RunnerStep
    <3>1. CASE RunnerReclaimSelect
      BY <2>1, <3>1 DEF RunnerReclaimSelect, OnceInv, Afterwards, Expired, items, Reclaimers
    <3>2. CASE RunnerReclaimUpdate
      BY <2>1, <3>2 DEF RunnerReclaimUpdate, ReclaimUpdate, OnceInv, Afterwards, Reclaimers
    <3>3. CASE RunnerSelect
      BY <2>1, <3>3 DEF RunnerSelect, Selectable, OnceInv, items
    <3>4. CASE RunnerClaim
      BY <2>1, <3>4 DEF RunnerClaim, ClaimUpdate, OnceInv, items, Busy
    <3>5. CASE RunnerMark
      BY <2>1, <3>5 DEF RunnerMark, OnceInv, Busy
    <3>6. CASE RunnerCheck
      BY <2>1, <3>6 DEF RunnerCheck, OnceInv, items, Busy
    <3>7. CASE RunnerExecute
      BY <2>1, <3>7 DEF RunnerExecute, OnceInv, items, Busy
    <3>8. CASE RunnerAckSelect
      BY <2>1, <3>8 DEF RunnerAckSelect, OnceInv, items, Busy
    <3>9. CASE RunnerAckUpdate
      BY <2>1, <3>9 DEF RunnerAckUpdate, AckUpdate, Verdict, OnceInv, Busy
    <3>10. CASE RunnerStart
      BY <2>1, <3>10 DEF RunnerStart, OnceInv, items
    <3>11. QED
      BY <2>5, <3>1, <3>2, <3>3, <3>4, <3>5, <3>6, <3>7, <3>8, <3>9, <3>10 DEF RunnerStep
  <2>6. CASE RunnerCrash \/ RunnerMarkRaises
    BY <2>1, <2>6 DEF RunnerCrash, RunnerMarkRaises, OnceInv, items, Reclaimers
  <2>7. ASSUME NEW s \in Services, ServiceReclaimUpdate(s) PROVE FALSE
    BY <2>1, <2>7 DEF ServiceReclaimUpdate, OnceInv
  <2>8. QED
    BY <2>1, <2>4, <2>5, <2>6, <2>7 DEF Next, vars, Enqueue, Tick, BffClaimSelect,
       BffClaimUpdate, BffAck
<1>3. QED
  BY <1>1, <1>2, TypeInvariance, OnlyTheRunnerSettles, PTL DEF Spec

\* A crash of the runner never leads to a second execution of an item, as long
\* as no other service reclaims leases at the same time.
THEOREM AtMostOnce == Spec => []AtMostOnceUntilRestart
<1>1. OnceInv => AtMostOnceUntilRestart
  BY DEF OnceInv, AtMostOnceUntilRestart
<1>2. QED
  BY <1>1, OnceInvariance, PTL

-----------------------------------------------------------------------------
\* What the refinement needs: the item the runner has in hand exists and is not
\* settled yet, and only items that exist are ever selected for reclaiming.
HandInv ==
    /\ pc \in Busy => status[cur] \notin {"ABSENT", "ACKED", "FAILED"}
    /\ \A p \in Reclaimers : \A t \in reclaiming[p] : status[t] # "ABSENT"

\* Neither a reclaim nor another agent settles or removes the item in hand.
LEMMA HandInvariance == Spec => []HandInv
<1> USE QueueAssumption
<1>1. Init => HandInv
  BY DEF Init, HandInv, Busy
<1>2. TypeInv /\ SettledByRunner /\ HandInv /\ [Next]_vars => HandInv'
  <2> SUFFICES ASSUME TypeInv, SettledByRunner, HandInv, [Next]_vars PROVE HandInv'
    OBVIOUS
  <2> USE DEF TypeInv, TypeOK
  <2>1. \A t \in Tasks : status[t] # "ABSENT" => status'[t] # "ABSENT"
    BY StatusMoves DEF EnqueueMove, ClaimMove, ReclaimMove, MarkMove, SettleMove, Verdict
  <2>2. \A p \in Reclaimers : \A t \in reclaiming'[p] : status'[t] # "ABSENT"
    <3>1. \A p \in Reclaimers : \A t \in reclaiming'[p] : t \in reclaiming[p] \/ t \in Expired
      BY DEF Next, vars, Enqueue, Tick, RunnerStep, RunnerReclaimSelect,
         RunnerReclaimUpdate, ReclaimUpdate, RunnerSelect, RunnerClaim, RunnerMark,
         RunnerCheck, RunnerExecute, RunnerAckSelect, RunnerAckUpdate, RunnerCrash, RunnerMarkRaises,
         RunnerStart, BffClaimSelect, BffClaimUpdate, BffAck, ServiceRestart,
         ServiceReclaimUpdate
    <3>2. \A t \in Expired : status[t] # "ABSENT"
      BY DEF Expired
    <3>3. QED
      BY <2>1, <3>1, <3>2 DEF HandInv, Expired
  <2>3. pc' \in Busy => status'[cur'] \notin {"ABSENT", "ACKED", "FAILED"}
    <3> SUFFICES ASSUME pc' \in Busy
                 PROVE  status'[cur'] \notin {"ABSENT", "ACKED", "FAILED"}
      OBVIOUS
    <3>1. CASE RunnerSelect
      BY <3>1 DEF RunnerSelect, Selectable, items, Busy
    <3>2. CASE pc \in Busy /\ cur' = cur
      <4>1. status'[cur] # status[cur] => status'[cur] \in {"CREATED", "CLAIMED", "RUNNING"}
        BY <3>2, StatusMoves DEF EnqueueMove, ClaimMove, ReclaimMove, MarkMove,
           SettleMove, Busy
      <4>2. QED
        BY <3>2, <4>1 DEF HandInv
    <3>3. QED
      BY <3>1, <3>2 DEF Next, vars, runner, Enqueue, Tick, RunnerStep,
         RunnerReclaimSelect, RunnerReclaimUpdate, RunnerClaim, RunnerMark,
         RunnerCheck, RunnerExecute, RunnerAckSelect, RunnerAckUpdate, RunnerCrash, RunnerMarkRaises,
         RunnerStart, BffClaimSelect, BffClaimUpdate, BffAck, ServiceRestart,
         ServiceReclaimUpdate, Afterwards, Busy
  <2>4. QED
    BY <2>2, <2>3 DEF HandInv
<1>3. QED
  BY <1>1, <1>2, TypeInvariance, OnlyTheRunnerSettles, PTL DEF Spec

\* The work queue, with its leases, crashes and lost claims, does nothing that
\* Delivery does not allow: each key is recorded at most once, before any
\* verdict "ok" that rests on it.
THEOREM QueueImplementsDelivery == Spec => ImplementsDelivery
<1> USE QueueAssumption DEF AbstractVerdict
<1>1. Init => Promise!Init
  BY DEF Init, Promise!Init
<1>2. TypeInv /\ SettledByRunner /\ RecordInv /\ HandInv /\ [Next]_vars =>
         [Promise!Next]_(Promise!deliveryVars)
  <2> SUFFICES ASSUME TypeInv, SettledByRunner, RecordInv, HandInv, [Next]_vars
               PROVE  Promise!Next \/ UNCHANGED Promise!deliveryVars
    BY DEF Promise!deliveryVars
  <2> USE DEF TypeInv, TypeOK
  <2>1. ASSUME NEW t \in Tasks, Enqueue(t) PROVE Promise!Submit(t)
    <3>1. recorded' = recorded /\ status[t] = "ABSENT"
      BY <2>1 DEF Enqueue
    <3>2. status' = [status EXCEPT ![t] = "CREATED"]
      BY <2>1 DEF Enqueue
    <3>3. QED
      BY <3>1, <3>2 DEF Promise!Submit
  <2>2. ASSUME NEW p \in Reclaimers, ReclaimUpdate(p), UNCHANGED recorded
        PROVE  Promise!Next
    <3>1. PICK ts \in SUBSET Tasks : ts = reclaiming[p]
      OBVIOUS
    <3>2. Promise!Withdraw(ts)
      BY <2>2, <3>1 DEF ReclaimUpdate, Promise!Withdraw, HandInv
    <3>3. QED
      BY <3>2 DEF Promise!Next
  <2>3. CASE RunnerExecute
    <3>1. cur \in Tasks /\ status[cur] \notin {"ABSENT", "ACKED", "FAILED"} /\ UNCHANGED status
      BY <2>3 DEF RunnerExecute, Busy, HandInv, items
    <3>2. CASE recorded' = recorded
      BY <3>1, <3>2 DEF Promise!deliveryVars
    <3>3. CASE recorded' # recorded
      <4>1. PICK t \in Tasks : t = cur
        BY <3>1
      <4>2. recorded' = recorded \union {FileOf[t]}
        BY <2>3, <3>3, <4>1 DEF RunnerExecute
      <4>3. FileOf[t] \notin recorded
        BY <3>3, <4>2
      <4>4. Promise!Record(t)
        BY <3>1, <4>1, <4>2, <4>3 DEF Promise!Record
      <4>5. QED
        BY <4>4 DEF Promise!Next, Promise!Work
    <3>4. QED
      BY <3>2, <3>3
  <2>4. CASE RunnerAckUpdate
    <3>1. cur \in Tasks /\ status[cur] \notin {"ABSENT", "ACKED", "FAILED"}
          /\ UNCHANGED recorded
      BY <2>4 DEF RunnerAckUpdate, Busy, HandInv
    <3>2. CASE agent[cur] # RunnerId
      <4>1. status' = status
        BY <2>4, <3>2 DEF RunnerAckUpdate, AckUpdate
      <4>2. QED
        BY <3>1, <4>1 DEF Promise!deliveryVars
    <3>3. CASE agent[cur] = RunnerId
      <4>1. PICK t \in Tasks : t = cur
        BY <3>1
      <4>2. status' = [status EXCEPT ![t] = Verdict(ok)]
        BY <2>4, <3>3, <4>1 DEF RunnerAckUpdate, AckUpdate
      <4>3. ok => Promise!Accept(t)
        BY <2>4, <3>1, <4>1, <4>2 DEF RunnerAckUpdate, RecordInv, Verdict, Promise!Accept
      <4>4. ~ok => Promise!Reject(t)
        BY <3>1, <4>1, <4>2 DEF Verdict, Promise!Reject
      <4>5. QED
        BY <4>3, <4>4 DEF Promise!Next, Promise!Work
    <3>4. QED
      BY <3>2, <3>3
  <2>5. ASSUME UNCHANGED recorded,
               \A t \in Tasks : status'[t] # status[t] => ClaimMove(t) \/ MarkMove(t)
        PROVE  UNCHANGED Promise!deliveryVars
    BY <2>5 DEF Promise!deliveryVars, ClaimMove, MarkMove
  <2>6. CASE Tick \/ RunnerReclaimSelect \/ RunnerSelect \/ RunnerCheck
             \/ RunnerAckSelect \/ RunnerStart \/ RunnerCrash \/ RunnerMarkRaises
             \/ (\E a \in Remotes : BffClaimSelect(a))
             \/ (\E s \in Services : ServiceRestart(s))
             \/ UNCHANGED vars
    BY <2>5, <2>6 DEF Tick, RunnerReclaimSelect, RunnerSelect, RunnerCheck,
       RunnerAckSelect, RunnerStart, RunnerCrash, RunnerMarkRaises, BffClaimSelect, ServiceRestart,
       vars, items
  <2>7. CASE RunnerClaim \/ BffClaimUpdate \/ RunnerMark
             \/ (\E a \in Remotes, t \in Tasks, good \in BOOLEAN : BffAck(a, t, good))
    <3>1. \A t \in Tasks : status'[t] # status[t] => ClaimMove(t) \/ MarkMove(t)
      <4>1. ASSUME NEW a, NEW u, ClaimUpdate(a, u), NEW t \in Tasks, status'[t] # status[t]
            PROVE  ClaimMove(t)
        BY <4>1 DEF ClaimUpdate, ClaimMove, items
      <4>2. ASSUME NEW a \in Remotes, NEW u \in Tasks, NEW good \in BOOLEAN,
                   BffAck(a, u, good)
            PROVE  status' = status
        <5>1. ~AckSelected(a, u, Verdict(good))
          BY DEF AckSelected, CanTransition, WorkItemTransitions, Verdict, SettledByRunner
        <5>2. QED
          BY <4>2, <5>1 DEF BffAck
      <4>3. RunnerMark => \A t \in Tasks : status'[t] # status[t] => MarkMove(t)
        BY DEF RunnerMark, MarkMove
      <4>4. QED
        BY <2>7, <4>1, <4>2, <4>3 DEF RunnerClaim, BffClaimUpdate
    <3>2. UNCHANGED recorded
      BY <2>7 DEF RunnerClaim, BffClaimUpdate, RunnerMark, BffAck
    <3>3. QED
      BY <2>5, <3>1, <3>2
  <2>8. CASE RunnerReclaimUpdate
    BY <2>2, <2>8 DEF RunnerReclaimUpdate, Reclaimers
  <2>9. ASSUME NEW s \in Services, ServiceReclaimUpdate(s) PROVE Promise!Next
    BY <2>2, <2>9 DEF ServiceReclaimUpdate, Reclaimers
  <2>10. QED
    BY <2>1, <2>3, <2>4, <2>6, <2>7, <2>8, <2>9 DEF Next, RunnerStep, Promise!Next
<1>3. QED
  BY <1>1, <1>2, RecordInvariance, TypeInvariance, OnlyTheRunnerSettles, HandInvariance, PTL
     DEF Spec, ImplementsDelivery, Promise!Spec

-----------------------------------------------------------------------------
\* If no two keys share a file, a recorded key belongs to an item that was
\* handed to process_task, and so does the item between there and its record.
ExecutedInv ==
    KeysHaveOwnFiles =>
        /\ \A t \in Tasks : FileOf[t] \in recorded => executions[t] > 0
        /\ pc = "exec" => executions[cur] > 0

\* Executions are only ever counted up, and a key is recorded by the runner for
\* the very item it has executed.
LEMMA ExecutedInvariance == Spec => []ExecutedInv
<1> USE QueueAssumption
<1>1. Init => ExecutedInv
  BY DEF Init, ExecutedInv
<1>2. TypeInv /\ ExecutedInv /\ [Next]_vars => ExecutedInv'
  <2> SUFFICES ASSUME TypeInv, ExecutedInv, [Next]_vars, KeysHaveOwnFiles
               PROVE  /\ \A t \in Tasks : FileOf[t] \in recorded' => executions'[t] > 0
                      /\ pc' = "exec" => executions'[cur'] > 0
    BY DEF ExecutedInv, KeysHaveOwnFiles
  <2> USE DEF TypeInv, TypeOK, ExecutedInv
  <2>1. CASE RunnerCheck
    BY <2>1 DEF RunnerCheck, Busy
  <2>2. CASE RunnerExecute
    <3>1. cur \in Tasks /\ executions[cur] > 0 /\ pc' = "ack" /\ executions' = executions
      BY <2>2 DEF RunnerExecute, Busy
    <3>2. \A t \in Tasks : FileOf[t] \in recorded' => FileOf[t] \in recorded \/ t = cur
      BY <2>2, <3>1 DEF RunnerExecute, KeysHaveOwnFiles
    <3>3. QED
      BY <3>1, <3>2
  <2>3. CASE UNCHANGED <<recorded, executions>> /\ (pc' = "exec" => pc = "exec" /\ cur' = cur)
    BY <2>3
  <2>4. QED
    BY <2>1, <2>2, <2>3 DEF Next, vars, runner, Enqueue, Tick, RunnerStep,
       RunnerReclaimSelect, RunnerReclaimUpdate, RunnerSelect, RunnerClaim, RunnerMark,
       RunnerAckSelect, RunnerAckUpdate, RunnerCrash, RunnerMarkRaises, RunnerStart,
       BffClaimSelect, BffClaimUpdate, BffAck, ServiceRestart, ServiceReclaimUpdate,
       Afterwards
<1>3. QED
  BY <1>1, <1>2, TypeInvariance, PTL DEF Spec

\* An ACKED item was itself handed to process_task, unless another item's key
\* is kept in the same file of the idempotency store.
THEOREM AckedIsExecuted == Spec => []AckedWasExecuted
<1>1. TypeInv /\ RecordInv /\ ExecutedInv => AckedWasExecuted
  BY DEF TypeInv, TypeOK, RecordInv, AckedWasRecorded, ExecutedInv, AckedWasExecuted
<1>2. QED
  BY <1>1, TypeInvariance, RecordInvariance, ExecutedInvariance, PTL

-----------------------------------------------------------------------------
\* As long as no other service has recovered: what the runner is about to
\* reclaim has run out, and the row it is about to settle is RUNNING, although
\* neither UPDATE says so.
HeldInv ==
    restarts = 0 =>
        /\ \A t \in reclaiming[RunnerId] : lease[t] = 0
        /\ pc = "settle" => status[cur] = "RUNNING"

\* Restarts are never uncounted.
LEMMA NoRestartBefore ==
    ASSUME TypeInv, [Next]_vars, restarts' = 0
    PROVE  restarts = 0 /\ \A s \in Services : ~ServiceRestart(s)
BY DEF TypeInv, TypeOK, Next, vars, counters, Enqueue, Tick, RunnerStep, RunnerReclaimSelect,
       RunnerReclaimUpdate, RunnerSelect, RunnerClaim, RunnerMark, RunnerCheck,
       RunnerExecute, RunnerAckSelect, RunnerAckUpdate, RunnerCrash, RunnerMarkRaises,
       RunnerStart, BffClaimSelect, BffClaimUpdate, BffAck, ServiceRestart,
       ServiceReclaimUpdate

\* Without another service, a reclaim is the runner's own, between two items,
\* and of rows that are CLAIMED.
LEMMA ReclaimIsOwn ==
    ASSUME TypeInv, OnceInv, [Next]_vars, restarts' = 0,
           NEW t \in Tasks, ReclaimMove(t)
    PROVE  pc \in {"boot", "tick"} /\ status[t] = "CLAIMED" /\ t \in reclaiming[RunnerId]
BY NoRestartBefore DEF OnceInv, ReclaimMove, Reclaimers, TypeInv, TypeOK

\* What SELECT found stays so until the UPDATE, since nobody else takes a
\* CLAIMED row back or touches a RUNNING one.
LEMMA HeldInvariance == Spec => []HeldInv
<1> USE QueueAssumption DEF TypeInv, TypeOK
<1>1. Init => HeldInv
  BY DEF Init, HeldInv, Reclaimers
<1>2. TypeInv /\ SettledByRunner /\ HandInv /\ OnceInv /\ HeldInv /\ [Next]_vars => HeldInv'
  <2> SUFFICES ASSUME TypeInv, SettledByRunner, HandInv, OnceInv, HeldInv, [Next]_vars,
                      restarts' = 0
               PROVE  /\ \A t \in reclaiming'[RunnerId] : lease'[t] = 0
                      /\ pc' = "settle" => status'[cur'] = "RUNNING"
    BY DEF HeldInv
  <2>1. restarts = 0 /\ \A s \in Services : ~ServiceRestart(s)
    BY NoRestartBefore
  <2>2. RunnerId \in Reclaimers /\ reclaiming[RunnerId] \subseteq Tasks
    BY DEF Reclaimers
  <2>3. \A t \in reclaiming'[RunnerId] : lease'[t] = 0
    <3>1. CASE RunnerReclaimSelect
      BY <2>1, <2>2, <3>1 DEF RunnerReclaimSelect, Expired, items, HeldInv
    <3>2. CASE RunnerReclaimUpdate
      BY <2>2, <3>2 DEF RunnerReclaimUpdate, ReclaimUpdate
    <3>3. ASSUME NEW s \in Services, ServiceReclaimUpdate(s) PROVE FALSE
      BY <2>1, <3>3 DEF ServiceReclaimUpdate, OnceInv
    <3>4. ASSUME NEW a, NEW u, ClaimUpdate(a, u), UNCHANGED reclaiming
          PROVE  \A t \in reclaiming'[RunnerId] : lease'[t] = 0
      <4>1. \A t \in reclaiming[RunnerId] : lease[t] = 0 /\ status[t] = "CLAIMED"
        BY <2>1 DEF HeldInv, OnceInv
      <4>2. QED
        BY <2>2, <3>4, <4>1 DEF ClaimUpdate, items
    <3>5. CASE Tick
      BY <2>1, <2>2, <3>5 DEF Tick, HeldInv
    <3>6. CASE reclaiming'[RunnerId] = {}
      BY <3>6
    <3>7. CASE UNCHANGED <<lease, reclaiming>>
      BY <2>1, <3>7 DEF HeldInv
    <3>8. RunnerCrash => reclaiming'[RunnerId] = {}
      BY <2>2 DEF RunnerCrash
    <3>9. QED
      BY <2>1, <3>1, <3>2, <3>3, <3>4, <3>5, <3>6, <3>7, <3>8 DEF Next, vars, items, Enqueue,
         RunnerStep, RunnerSelect, RunnerClaim, RunnerMark, RunnerCheck, RunnerExecute,
         RunnerAckSelect, RunnerAckUpdate, RunnerMarkRaises, RunnerStart,
         BffClaimSelect, BffClaimUpdate, BffAck
  <2>4. ASSUME pc' = "settle" PROVE status'[cur'] = "RUNNING"
    <3>1. CASE RunnerAckSelect
      <4>1. cur' = cur /\ status' = status /\ cur \in Tasks /\ CanTransition(status[cur], Verdict(ok))
        BY <2>4, <3>1 DEF RunnerAckSelect, AckSelected, items, Busy
      <4>2. status[cur] \notin {"ABSENT", "ACKED", "FAILED"}
        BY <3>1 DEF RunnerAckSelect, HandInv, Busy
      <4>3. QED
        BY <4>1, <4>2 DEF CanTransition, WorkItemTransitions, Verdict
    <3>2. CASE pc = "settle" /\ cur' = cur
      <4>1. status[cur] = "RUNNING" /\ cur \in Tasks
        BY <2>1, <3>2 DEF HeldInv, Busy
      <4>2. status'[cur] = status[cur]
        <5> SUFFICES ASSUME status'[cur] # status[cur] PROVE FALSE
          OBVIOUS
        <5>1. ~ReclaimMove(cur)
          BY <2>1, <3>2, <4>1, ReclaimIsOwn
        <5>2. ~SettleMove(cur)
          BY <2>4 DEF SettleMove
        <5>3. QED
          BY <3>2, <4>1, <5>1, <5>2, StatusMoves DEF EnqueueMove, ClaimMove, MarkMove
      <4>3. QED
        BY <3>2, <4>1, <4>2
    <3>3. QED
      BY <2>4, <3>1, <3>2 DEF Next, vars, runner, Enqueue, Tick, RunnerStep,
         RunnerReclaimSelect, RunnerReclaimUpdate, RunnerSelect, RunnerClaim, RunnerMark,
         RunnerCheck, RunnerExecute, RunnerAckUpdate, RunnerCrash, RunnerMarkRaises,
         RunnerStart, BffClaimSelect, BffClaimUpdate, BffAck, ServiceRestart,
         ServiceReclaimUpdate, Afterwards
  <2>5. QED
    BY <2>3, <2>4
<1>3. QED
  BY <1>1, <1>2, TypeInvariance, OnlyTheRunnerSettles, HandInvariance, OnceInvariance, PTL
     DEF Spec

\* Until another service recovers, every row moves along WORK_ITEM_TRANSITIONS
\* and a live lease is respected, although the UPDATEs of an acknowledgement
\* and of a reclaim check neither.
THEOREM MovesAreSound == Spec => MovesSound
<1> USE QueueAssumption DEF TypeInv, TypeOK
<1>1. TypeInv /\ SettledByRunner /\ HandInv /\ OnceInv /\ HeldInv /\ [Next]_vars =>
        [restarts' = 0 => \A t \in Tasks :
            \/ status[t] = "ABSENT" /\ status'[t] = "CREATED"
            \/ CanTransition(status[t], status'[t])]_vars
  <2> SUFFICES ASSUME TypeInv, SettledByRunner, HandInv, OnceInv, HeldInv, [Next]_vars,
                      restarts' = 0, NEW t \in Tasks, status'[t] # status[t],
                      ~(status[t] = "ABSENT" /\ status'[t] = "CREATED")
               PROVE  <<status[t], status'[t]>> \in WorkItemTransitions
    BY DEF CanTransition
  <2>1. CASE ReclaimMove(t)
    BY <2>1, ReclaimIsOwn DEF ReclaimMove, WorkItemTransitions
  <2>2. CASE SettleMove(t)
    BY <2>2, NoRestartBefore DEF SettleMove, HeldInv, Verdict, WorkItemTransitions
  <2>3. QED
    BY <2>1, <2>2, StatusMoves DEF EnqueueMove, ClaimMove, MarkMove, WorkItemTransitions
<1>2. TypeInv /\ SettledByRunner /\ OnceInv /\ HeldInv /\ [Next]_vars =>
        [restarts' = 0 => \A t \in Tasks :
            status[t] = "CLAIMED" /\ lease[t] > 0 => agent'[t] = agent[t]]_vars
  <2> SUFFICES ASSUME TypeInv, SettledByRunner, OnceInv, HeldInv, [Next]_vars,
                      restarts' = 0, NEW t \in Tasks, status[t] = "CLAIMED", lease[t] > 0
               PROVE  agent'[t] = agent[t]
    OBVIOUS
  <2>1. restarts = 0 /\ \A s \in Services : ~ServiceRestart(s)
    BY NoRestartBefore
  <2>2. RunnerId \in Reclaimers /\ t \notin reclaiming[RunnerId]
    BY <2>1 DEF HeldInv, Reclaimers
  <2>3. RunnerReclaimUpdate => agent'[t] = agent[t]
    BY <2>2 DEF RunnerReclaimUpdate, ReclaimUpdate
  <2>4. ASSUME NEW s \in Services, ServiceReclaimUpdate(s) PROVE FALSE
    BY <2>1, <2>4 DEF ServiceReclaimUpdate, OnceInv
  <2>5. ASSUME NEW a, NEW u, ClaimUpdate(a, u) PROVE agent'[t] = agent[t]
    BY <2>5 DEF ClaimUpdate, items
  <2>6. QED
    BY <2>1, <2>3, <2>4, <2>5 DEF Next, vars, items, Enqueue, Tick, RunnerStep,
       RunnerReclaimSelect, RunnerSelect, RunnerClaim, RunnerMark, RunnerCheck,
       RunnerExecute, RunnerAckSelect, RunnerAckUpdate, RunnerCrash, RunnerMarkRaises,
       RunnerStart, BffClaimSelect, BffClaimUpdate, BffAck
<1>3. QED
  BY <1>1, <1>2, TypeInvariance, OnlyTheRunnerSettles, HandInvariance, OnceInvariance,
     HeldInvariance, PTL DEF Spec, MovesSound, TransitionsRespected, LiveLeaseKept
=============================================================================
