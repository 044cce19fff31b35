--------------------------- MODULE RunEngine_proofs --------------------------
(***************************************************************************)
(* Proofs about RunEngine, for any runs, nodes, versions of the workflow,  *)
(* keys and bounds.                                                        *)
(***************************************************************************)
EXTENDS RunEngine, SequenceTheorems, TLAPS

\* Where the orchestrator is, or will be after the write it has selected for.
Place == IF pc = "write" THEN goal.next ELSE pc

InPass == Place \in {"insert", "node", "link", "block", "mark"}

\* A write is selected for by TakeRun, UnblockNode, Load, BlockRun, FailRun and
\* FinishRun, and goes on from there.
GoalInv ==
    pc = "write" => goal.next \in {"load", "next", "node"} /\ goal.status \in RunStatus

\* A run is in hand except between ticks.
TodoInv ==
    /\ todo = <<>> <=> pc \in {"idle", "down"}
    /\ \A i, j \in DOMAIN todo : todo[i].run = todo[j].run => i = j

\* What is remembered of node_runs is stored, and nothing is between runs.
CacheInv ==
    /\ pc \in {"idle", "down", "run"} => cache = NoCache
    /\ \A n \in Nodes : cache[n] # "absent" => cache[n] = "pending" /\ rows[Run][n] # "absent"

\* A pass has a workflow, and after the inserts remembers each of its nodes.
PassInv ==
    /\ InPass => dag \in Dags
    /\ Place \in {"link", "block", "mark"} => at \in DOMAIN dag.order
    /\ Place \in {"node", "link", "block", "mark"} =>
           \A i \in DOMAIN dag.order : cache[dag.order[i]] # "absent"

\* A succeeded run is not worked on in this tick any more.
Ahead(r) == \E i \in DOMAIN todo : todo[i].run = r /\ (i > 1 \/ Place # "next")

SucceededInv ==
    /\ \A r \in Runs : runs[r] = "succeeded" => ~Ahead(r)
    /\ pc = "write" /\ goal.status = "succeeded" => goal.next = "next" /\ AllSucceeded(Run)

\* The inductive invariant: SucceededIsComplete alone is lost by a step of a pass
\* over a run that succeeded, DispatchedHasRow by a dispatch for a node the loop
\* remembers and the table does not have.
IInv ==
    /\ TypeOK /\ NodesStayPending /\ DispatchedHasRow /\ SucceededIsComplete
    /\ GoalInv /\ TodoInv /\ CacheInv /\ PassInv /\ SucceededInv

-----------------------------------------------------------------------------
\* The run in hand is the first of those that were scanned.
LEMMA InHand ==
    ASSUME TypeOK, todo # <<>>
    PROVE  /\ Run \in Runs /\ Run = todo[1].run /\ 1 \in DOMAIN todo
           /\ Head(todo).status \in Active
<1>1. todo \in Seq([run : Runs, status : Active])
  BY DEF TypeOK
<1>2. Head(todo) \in [run : Runs, status : Active]
  BY <1>1, HeadTailProperties
<1>3. Head(todo) = todo[1]
  BY <1>1
<1>4. Len(todo) \in Nat /\ Len(todo) # 0 /\ DOMAIN todo = 1..Len(todo)
  BY <1>1
<1>5. QED
  BY <1>2, <1>3, <1>4 DEF Run

\* What is left of the scan after the run in hand.
LEMMA TailOfTodo ==
    ASSUME TypeOK, todo # <<>>
    PROVE  /\ Tail(todo) \in Seq([run : Runs, status : Active])
           /\ \A i \in DOMAIN Tail(todo) : i + 1 \in DOMAIN todo /\ Tail(todo)[i] = todo[i + 1]
           /\ DOMAIN Tail(todo) \subseteq Nat \ {0}
<1>1. todo \in Seq([run : Runs, status : Active])
  BY DEF TypeOK
<1>2. /\ Tail(todo) \in Seq([run : Runs, status : Active])
      /\ Len(Tail(todo)) = Len(todo) - 1
      /\ \A i \in 1..Len(todo) - 1 : Tail(todo)[i] = todo[i + 1]
  BY <1>1
<1>3. DOMAIN todo = 1..Len(todo) /\ DOMAIN Tail(todo) = 1..Len(Tail(todo)) /\ Len(todo) \in Nat
  BY <1>1, <1>2
<1>4. QED
  BY <1>2, <1>3

\* update_run_status goes on to the place it was given, with or without a write.
LEMMA SelectedFor ==
    ASSUME NEW to \in RunStatus, NEW next \in {"load", "next", "node"}, TypeOK, pc # "write",
           SelectRun(to, next)
    PROVE  /\ Place' = next /\ pc' \in {next, "write"} /\ pc' \in EnginePc
           /\ goal' \in [status : RunStatus, next : EnginePc] \union {NoGoal}
           /\ pc' = "write" => goal'.next = next /\ goal'.status = to
BY DEF SelectRun, Place, EnginePc, TypeOK

\* The moves of _progress_run and _try_unblock leave a stored row as it is: there
\* is no way from PENDING to any of them.
LEMMA StoredRowStays ==
    ASSUME NEW r \in Runs, NEW n \in Nodes, TypeOK, NodesStayPending, rows[r][n] # "absent",
           NEW to \in {"succeeded", "failed", "running", "waiting_approval"},
           UpdateNode(r, n, to)
    PROVE  rows' = rows
<1>1. rows[r][n] = "pending"
  BY DEF NodesStayPending
<1>2. ~CanTransition(NodeTransitions, "pending", to)
  BY DEF CanTransition, NodeTransitions
<1>3. QED
  BY <1>1, <1>2 DEF UpdateNode, NodeMoves

\* A new row is PENDING, and so is a row that is stored once more.
LEMMA NewRow ==
    ASSUME NEW r \in Runs, NEW n \in Nodes, TypeOK, NodesStayPending,
           UpdateNode(r, n, "pending")
    PROVE  rows' = [rows EXCEPT ![r][n] = "pending"]
<1>1. rows[r][n] \in {"absent", "pending"}
  BY DEF NodesStayPending
<1>2. NodeMoves(r, n, "pending")
  BY <1>1 DEF NodeMoves, CanTransition
<1>3. QED
  BY <1>2 DEF UpdateNode

-----------------------------------------------------------------------------
\* Between ticks and after a crash there is no run in hand.
LEMMA RunInHand ==
    ASSUME IInv, pc \notin {"idle", "down"}
    PROVE  todo # <<>> /\ Run \in Runs /\ Run = todo[1].run /\ 1 \in DOMAIN todo
BY InHand DEF IInv, TodoInv

\* The node the loop is at is a node of the workflow, and has a row.
LEMMA NodeInHand ==
    ASSUME IInv, pc \in {"link", "block", "mark"} \/ InLoop
    PROVE  /\ Node \in Nodes /\ Item \in Items
           /\ rows[Run][Node] # "absent" /\ cache[Node] = "pending"
           /\ dag \in Dags /\ at \in DOMAIN dag.order /\ at \in Nat
<1>1. pc \in {"node", "link", "block", "mark"} /\ Place = pc /\ InPass
  BY DEF InLoop, InPass, Place
<1>2. at \in DOMAIN dag.order /\ dag \in Dags /\ cache[dag.order[at]] # "absent"
  BY <1>1 DEF IInv, PassInv, InLoop
<1>3. dag.order \in Seq(Nodes)
  BY <1>2, EngineAssumption
<1>4. Node \in Nodes
  BY <1>2, <1>3, ElementOfSeq DEF Node
<1>5. Run \in Runs
  BY <1>1, RunInHand
<1>6. cache[Node] = "pending" /\ rows[Run][Node] # "absent"
  BY <1>2, <1>4 DEF IInv, CacheInv, Node
<1>7. QED
  BY <1>2, <1>3, <1>4, <1>5, <1>6 DEF Item, Items

\* No step of the loop changes a row, or names an approval in a snapshot.
LEMMA LoopKeepsRows ==
    ASSUME IInv,
           EvalNode \/ LinkApproval \/ MarkDispatched \/ CollectAcked \/ CollectFailed
    PROVE  rows' = rows /\ linked' = linked
<1>1. pc \in {"link", "mark"} \/ InLoop
  BY DEF EvalNode, LinkApproval, MarkDispatched, CollectAcked, CollectFailed
<1>2. Run \in Runs /\ Node \in Nodes /\ rows[Run][Node] # "absent"
  BY <1>1, NodeInHand, RunInHand DEF InLoop
<1>3. TypeOK /\ NodesStayPending
  BY DEF IInv
<1>4. rows' = rows
  BY <1>2, <1>3, StoredRowStays DEF EvalNode, LinkApproval, MarkDispatched, CollectAcked, CollectFailed
<1>5. rows[Run][Node] = "pending"
  BY <1>2, <1>3 DEF NodesStayPending
<1>6. ~NodeMoves(Run, Node, "waiting_approval")
  BY <1>5 DEF NodeMoves, CanTransition, NodeTransitions
<1>7. QED
  BY <1>4, <1>6 DEF EvalNode, LinkApproval, MarkDispatched, CollectAcked, CollectFailed

\* No node is found waiting for its approval.
LEMMA NobodyWaits ==
    ASSUME IInv, UnblockNode
    PROVE  SelectRun("running", "load") /\ at' = 1 /\ UNCHANGED rows
<1>1. \A n \in Nodes : cache[n] # "waiting_approval"
  BY DEF IInv, CacheInv
<1>2. QED
  BY <1>1 DEF UnblockNode

\* A node is inserted for the run in hand, and remembered as PENDING whichever
\* row the listing ends with.
LEMMA Inserted ==
    ASSUME IInv, InsertNode
    PROVE  \/ /\ rows' = rows /\ cache' = cache /\ pc' = "node"
              /\ \A i \in DOMAIN dag.order : cache[dag.order[i]] # "absent"
           \/ \E n \in Nodes : /\ rows' = [rows EXCEPT ![Run][n] = "pending"]
                               /\ cache' = [cache EXCEPT ![n] = "pending"]
                               /\ pc' = "insert"
<1>1. pc = "insert" /\ Place = pc /\ InPass
  BY DEF InsertNode, InPass, Place
<1>2. dag \in Dags /\ Run \in Runs /\ TypeOK /\ NodesStayPending
  BY <1>1, RunInHand DEF IInv, PassInv
<1>3. dag.order \in Seq(Nodes)
  BY <1>2, EngineAssumption
<1> DEFINE missing == {i \in DOMAIN dag.order : cache[dag.order[i]] = "absent"}
           listed == {n \in Nodes : rows'[Run][n] # "absent"}
<1>4. CASE missing = {}
  BY <1>1, <1>4 DEF InsertNode
<1>5. CASE missing # {}
  <2>1. PICK i \in missing :
           /\ UpdateNode(Run, dag.order[i], "pending")
           /\ \E last \in listed : cache' = [cache EXCEPT ![dag.order[i]] = rows'[Run][last]]
           /\ UNCHANGED pc
    BY <1>5 DEF InsertNode
  <2>2. dag.order[i] \in Nodes
    BY <1>3, <2>1, ElementOfSeq
  <2>3. rows' = [rows EXCEPT ![Run][dag.order[i]] = "pending"]
    BY <1>2, <2>1, <2>2, NewRow
  <2>4. \A n \in listed : rows'[Run][n] = "pending"
    BY <1>2, <2>2, <2>3 DEF NodesStayPending, TypeOK
  <2>5. cache' = [cache EXCEPT ![dag.order[i]] = "pending"]
    BY <2>1, <2>4
  <2>6. QED
    BY <1>1, <2>1, <2>2, <2>3, <2>5
<1>6. QED
  BY <1>4, <1>5

-----------------------------------------------------------------------------
\* Type correctness, one action at a time; the rows need NodesStayPending.
LEMMA TypeInvariance ==
    ASSUME IInv, [Next]_vars
    PROVE  TypeOK'
<1> USE EngineAssumption
<1>1. TypeOK /\ GoalInv
  BY DEF IInv
<1>2. CASE Scan
  <2>1. PICK length \in 0..ScanLimit : \E scanned \in [1..length -> {r \in Runs : runs[r] \in Active}] :
           /\ todo' = [i \in 1..length |-> [run |-> scanned[i], status |-> runs[scanned[i]]]]
           /\ pc' = IF length = 0 THEN "idle" ELSE "run"
    BY <1>2 DEF Scan
  <2>2. todo' \in Seq([run : Runs, status : Active])
    BY <2>1
  <2>3. QED
    BY <1>1, <1>2, <2>1, <2>2 DEF Scan, TypeOK, tables, queue, counters, EnginePc
<1>3. CASE TakeRun
  <2>1. ASSUME SelectRun("running", "load")
        PROVE  /\ pc' \in EnginePc
               /\ goal' \in [status : RunStatus, next : EnginePc] \union {NoGoal}
    BY <1>1, <1>3, <2>1, SelectedFor DEF TakeRun, RunStatus
  <2>2. QED
    BY <1>1, <1>3, <2>1, RunInHand, NodeInHand, NobodyWaits
    DEF TakeRun, TypeOK, tables, queue, locals, counters, EnginePc
<1>4. CASE NextRun
  <2>1. Tail(todo) \in Seq([run : Runs, status : Active])
    BY <1>1, <1>4, RunInHand, TailOfTodo DEF NextRun
  <2>2. QED
    BY <1>1, <1>4, <2>1 DEF NextRun, TypeOK, tables, queue, counters, EnginePc, NoCache, NodeRunStatus
<1>5. CASE TryUnblock
  BY <1>1, <1>5, RunInHand DEF TryUnblock, TypeOK, tables, queue, locals, counters, EnginePc
<1>6. CASE UnblockNode
  <2>1. ASSUME SelectRun("running", "load")
        PROVE  /\ pc' \in EnginePc
               /\ goal' \in [status : RunStatus, next : EnginePc] \union {NoGoal}
    BY <1>1, <1>6, <2>1, SelectedFor DEF UnblockNode, RunStatus
  <2>2. QED
    <3>1. /\ rows' = rows /\ at' = 1
          /\ pc' \in EnginePc
          /\ goal' \in [status : RunStatus, next : EnginePc] \union {NoGoal}
      BY <1>6, <2>1, NobodyWaits
    <3>2. UNCHANGED <<runs, startedAt, asked, linked, workflow, queue, todo, dag, cache, counters>>
      BY <1>6 DEF UnblockNode
    <3>3. QED
      BY <1>1, <3>1, <3>2 DEF TypeOK, queue, counters
<1>7. CASE Load
  <2>1. ASSUME SelectRun("failed", "next")
        PROVE  /\ pc' \in EnginePc
               /\ goal' \in [status : RunStatus, next : EnginePc] \union {NoGoal}
    BY <1>1, <1>7, <2>1, SelectedFor DEF Load, RunStatus
  <2>2. QED
    BY <1>1, <1>7, <2>1, RunInHand, NodeInHand, NobodyWaits
    DEF Load, TypeOK, tables, queue, locals, counters, EnginePc
<1>8. CASE InsertNode
  <2>1. Run \in Runs
    BY <1>8, RunInHand DEF InsertNode
  <2>2. rows' \in [Runs -> [Nodes -> NodeRunStatus \union {"absent"}]]
        /\ cache' \in [Nodes -> NodeRunStatus \union {"absent"}] /\ pc' \in EnginePc
    <3>1. CASE rows' = rows /\ cache' = cache /\ pc' = "node"
      BY <1>1, <3>1 DEF TypeOK, EnginePc
    <3>2. CASE \E n \in Nodes : /\ rows' = [rows EXCEPT ![Run][n] = "pending"]
                               /\ cache' = [cache EXCEPT ![n] = "pending"]
                               /\ pc' = "insert"
      <4>1. PICK n \in Nodes : /\ rows' = [rows EXCEPT ![Run][n] = "pending"]
                               /\ cache' = [cache EXCEPT ![n] = "pending"]
                               /\ pc' = "insert"
        BY <3>2
      <4>2. "pending" \in NodeRunStatus
        BY DEF NodeRunStatus
      <4>3. QED
        BY <1>1, <2>1, <4>1, <4>2 DEF TypeOK, EnginePc
    <3>3. QED
      BY <1>8, <3>1, <3>2, Inserted
  <2>3. QED
    BY <1>1, <1>8, <2>2 DEF InsertNode, TypeOK, queue, counters
<1>9. CASE PassNode
  BY <1>1, <1>9, NodeInHand, RunInHand DEF PassNode, TypeOK, tables, queue, locals, counters, EnginePc, InLoop
<1>10. CASE EvalNode
  BY <1>1, <1>10, NodeInHand, LoopKeepsRows DEF EvalNode, TypeOK, tables, queue, locals, counters, EnginePc, InLoop
<1>11. CASE AskApproval
  <2>1. \A k \in 0..MaxAsked : (IF k < MaxAsked THEN k + 1 ELSE k) \in 0..MaxAsked
    OBVIOUS
  <2>2. Run \in Runs /\ Node \in Nodes
    BY <1>11, NodeInHand, RunInHand DEF AskApproval, InLoop
  <2>3. asked[Run][Node] \in 0..MaxAsked
    BY <1>1, <2>2 DEF TypeOK
  <2>4. asked' \in [Runs -> [Nodes -> 0..MaxAsked]]
    BY <1>1, <1>11, <2>1, <2>2, <2>3 DEF AskApproval, TypeOK
  <2>5. QED
    BY <1>1, <1>11, <2>4 DEF AskApproval, TypeOK, queue, locals, counters, EnginePc
<1>12. CASE LinkApproval
  BY <1>1, <1>12, NodeInHand, LoopKeepsRows DEF LinkApproval, TypeOK, tables, queue, locals, counters, EnginePc, InLoop
<1>13. CASE BlockRun
  <2>1. ASSUME SelectRun("blocked", "node")
        PROVE  /\ pc' \in EnginePc
               /\ goal' \in [status : RunStatus, next : EnginePc] \union {NoGoal}
    BY <1>1, <1>13, <2>1, SelectedFor DEF BlockRun, RunStatus
  <2>2. QED
    BY <1>1, <1>13, <2>1, RunInHand, NodeInHand, NobodyWaits
    DEF BlockRun, TypeOK, tables, queue, locals, counters, EnginePc
<1>14. CASE DispatchTask
  <2>1. Item \in Items
    BY <1>14, NodeInHand DEF DispatchTask
  <2>2. known' \subseteq Items /\ recorded' = recorded /\ verdict' = verdict
    BY <1>1, <1>14, <2>1 DEF DispatchTask, Queue!Submit, queue, TypeOK
  <2>3. /\ pc' \in EnginePc
        /\ todo' \in Seq([run : Runs, status : Active]) /\ dag' \in Dags \union {NoDag}
        /\ cache' \in [Nodes -> NodeRunStatus \union {"absent"}] /\ at' \in Nat
    <3>1. CASE KeyTaken(Item)
      <4>1. pc' = "down" /\ todo' = <<>> /\ dag' = NoDag /\ cache' = NoCache /\ at' = 1
        BY <1>14, <3>1 DEF DispatchTask
      <4>2. <<>> \in Seq([run : Runs, status : Active])
        OBVIOUS
      <4>3. QED
        BY <4>1, <4>2 DEF EnginePc, NoCache
    <3>2. CASE ~KeyTaken(Item)
      BY <1>1, <1>14, <3>2 DEF DispatchTask, TypeOK, locals, EnginePc
    <3>3. QED
      BY <3>1, <3>2
  <2>4. QED
    BY <1>1, <1>14, <2>2, <2>3 DEF DispatchTask, TypeOK, counters
<1>15. CASE MarkDispatched
  BY <1>1, <1>15, NodeInHand, LoopKeepsRows DEF MarkDispatched, TypeOK, tables, queue, locals, counters, EnginePc, InLoop
<1>16. CASE CollectAcked
  BY <1>1, <1>16, NodeInHand, LoopKeepsRows DEF CollectAcked, TypeOK, tables, queue, locals, counters, EnginePc, InLoop
<1>17. CASE CollectFailed
  BY <1>1, <1>17, NodeInHand, LoopKeepsRows DEF CollectFailed, TypeOK, tables, queue, locals, counters, EnginePc, InLoop
<1>18. CASE FailRun
  <2>1. ASSUME SelectRun("failed", "next")
        PROVE  /\ pc' \in EnginePc
               /\ goal' \in [status : RunStatus, next : EnginePc] \union {NoGoal}
    BY <1>1, <1>18, <2>1, SelectedFor DEF FailRun, RunStatus
  <2>2. QED
    BY <1>1, <1>18, <2>1, RunInHand, NodeInHand, NobodyWaits
    DEF FailRun, TypeOK, tables, queue, locals, counters, EnginePc
<1>19. CASE FinishRun
  <2>1. ASSUME SelectRun("succeeded", "next")
        PROVE  /\ pc' \in EnginePc
               /\ goal' \in [status : RunStatus, next : EnginePc] \union {NoGoal}
    BY <1>1, <1>19, <2>1, SelectedFor DEF FinishRun, RunStatus
  <2>2. QED
    BY <1>1, <1>19, <2>1, RunInHand, NodeInHand, NobodyWaits
    DEF FinishRun, TypeOK, tables, queue, locals, counters, EnginePc
<1>20. CASE WriteRun
  BY <1>1, <1>20, RunInHand DEF WriteRun, TypeOK, tables, queue, locals, counters, EnginePc, GoalInv
<1>21. CASE Crash
  BY <1>1, <1>21 DEF Crash, TypeOK, tables, queue, locals, counters, EnginePc, NoCache, NodeRunStatus
<1>22. CASE Restart
  BY <1>1, <1>22 DEF Restart, TypeOK, tables, queue, locals, counters, EnginePc
<1>23. ASSUME NEW r \in Runs, NEW status \in {"pending", "queued"}, UpsertRun(r, status)
      PROVE  TypeOK'
  BY <1>1, <1>23 DEF UpsertRun, RunStatus, TypeOK, tables, queue, locals, counters
<1>24. ASSUME NEW d \in Dags, PublishWorkflow(d)
      PROVE  TypeOK'
  BY <1>1, <1>24 DEF PublishWorkflow, TypeOK, tables, queue, locals, counters
<1>25. ASSUME NEW r \in Runs, NEW n \in Nodes, NEW decision \in {"approved", "rejected"},
             DecideApproval(r, n, decision)
      PROVE  TypeOK'
  <2>1. asked[r][n] \in 0..MaxAsked /\ asked[r][n] - 1 \in 0..MaxAsked
    BY <1>1, <1>25 DEF TypeOK, DecideApproval
  <2>2. asked' \in [Runs -> [Nodes -> 0..MaxAsked]]
    BY <1>1, <1>25, <2>1 DEF TypeOK, DecideApproval
  <2>3. linked' \in [Runs -> [Nodes -> {"none", "pending", "approved", "rejected"}]]
    <3>1. linked' = linked \/ linked' = [linked EXCEPT ![r][n] = decision]
      BY <1>25 DEF DecideApproval
    <3>2. decision \in {"none", "pending", "approved", "rejected"}
      OBVIOUS
    <3>3. linked \in [Runs -> [Nodes -> {"none", "pending", "approved", "rejected"}]]
      BY <1>1 DEF TypeOK
    <3>4. QED
      BY <3>1, <3>2, <3>3
  <2>4. QED
    BY <1>1, <1>25, <2>2, <2>3 DEF TypeOK, DecideApproval, queue, locals, counters
<1>26. CASE QueueStep
  <2>1. /\ known' \subseteq Items /\ recorded' \subseteq Keys
        /\ verdict' \in [Items -> Queue!Verdicts]
    <3>1. ASSUME NEW i \in Items, Queue!Work(i)
          PROVE  /\ known' = known /\ recorded' \subseteq Keys
                 /\ verdict' \in [Items -> Queue!Verdicts]
      <4>1. KeyOf[i] \in Keys
        OBVIOUS
      <4>2. QED
        BY <1>1, <3>1, <4>1 DEF TypeOK, Queue!Work, Queue!Record, Queue!Accept, Queue!Reject,
           Queue!Verdicts
    <3>2. ASSUME NEW is \in SUBSET known, Queue!Withdraw(is)
          PROVE  /\ known' = known /\ recorded' = recorded
                 /\ verdict' \in [Items -> Queue!Verdicts]
      BY <1>1, <3>2 DEF TypeOK, Queue!Withdraw, Queue!Verdicts
    <3>3. QED
      BY <1>1, <1>26, <3>1, <3>2 DEF QueueStep, TypeOK
  <2>2. QED
    BY <1>1, <1>26, <2>1 DEF QueueStep, TypeOK, locals, counters
<1>27. CASE UNCHANGED vars
  BY <1>1, <1>27 DEF TypeOK, vars, tables, queue, locals, counters
<1>28. QED
  BY <1>2, <1>3, <1>4, <1>5, <1>6, <1>7, <1>8, <1>9, <1>10, <1>11, <1>12, <1>13, <1>14, <1>15, <1>16, <1>17, <1>18, <1>19, <1>20, <1>21, <1>22, <1>23, <1>24, <1>25, <1>26, <1>27
  DEF Next, EngineStep

-----------------------------------------------------------------------------
\* The writers of the tables beside the orchestrator.
OtherStep ==
    \/ \E r \in Runs, status \in {"pending", "queued"} : UpsertRun(r, status)
    \/ \E d \in Dags : PublishWorkflow(d)
    \/ \E r \in Runs, n \in Nodes, decision \in {"approved", "rejected"} :
           DecideApproval(r, n, decision)
    \/ QueueStep

\* They touch neither the rows nor what the orchestrator holds, and submit nothing.
LEMMA OtherStepsKeep ==
    ASSUME OtherStep \/ UNCHANGED vars
    PROVE  UNCHANGED <<rows, known, pc, todo, dag, cache, at, goal>>
<1>1. CASE \E r \in Runs, status \in {"pending", "queued"} : UpsertRun(r, status)
  BY <1>1 DEF UpsertRun, queue, locals
<1>2. CASE \E d \in Dags : PublishWorkflow(d)
  BY <1>2 DEF PublishWorkflow, queue, locals
<1>3. CASE \E r \in Runs, n \in Nodes, decision \in {"approved", "rejected"} :
              DecideApproval(r, n, decision)
  BY <1>3 DEF DecideApproval, queue, locals
<1>4. CASE QueueStep
  BY <1>4 DEF QueueStep, locals, Queue!Work, Queue!Record, Queue!Accept, Queue!Reject,
     Queue!Withdraw
<1>5. CASE UNCHANGED vars
  BY <1>5 DEF vars, tables, queue, locals
<1>6. QED
  BY <1>1, <1>2, <1>3, <1>4, <1>5 DEF OtherStep

\* What the steps that select a run for update do: they leave the rows, the queue,
\* the scan and the run as they are, and go on to one place.
Selects(to, next) ==
    /\ SelectRun(to, next)
    /\ UNCHANGED <<runs, rows, known, todo, dag, cache>>

LEMMA SelectingSteps ==
    ASSUME IInv
    PROVE  /\ TakeRun => \/ Selects("running", "load")
                         \/ /\ pc' \in {"load", "unblock"}
                            /\ UNCHANGED <<runs, rows, known, todo, dag, cache, at, goal>>
           /\ UnblockNode => Selects("running", "load")
           /\ Load => \/ Selects("failed", "next")
                      \/ /\ workflow \in Dags /\ pc' = "insert" /\ dag' = workflow
                         /\ cache' = rows[Run]
                         /\ UNCHANGED <<runs, rows, known, todo, goal>>
           /\ BlockRun => Selects("blocked", "node")
           /\ FailRun => Selects("failed", "next")
           /\ FinishRun => \/ Selects("succeeded", "next") /\ AllSucceeded(Run)
                           \/ /\ pc' = "next"
                              /\ UNCHANGED <<runs, rows, known, todo, dag, cache, at, goal>>
<1>1. TakeRun => \/ Selects("running", "load")
                 \/ /\ pc' \in {"load", "unblock"}
                    /\ UNCHANGED <<runs, rows, known, todo, dag, cache, at, goal>>
  BY DEF TakeRun, Selects, tables, queue, locals
<1>2. UnblockNode => Selects("running", "load")
  <2>1. ASSUME UnblockNode PROVE UNCHANGED <<runs, rows, known, todo, dag, cache>>
    BY <2>1, NobodyWaits DEF UnblockNode, queue
  <2>2. QED
    BY <2>1, NobodyWaits DEF Selects
<1>3. Load => \/ Selects("failed", "next")
              \/ /\ workflow \in Dags /\ pc' = "insert" /\ dag' = workflow
                 /\ cache' = rows[Run]
                 /\ UNCHANGED <<runs, rows, known, todo, goal>>
  BY DEF Load, Selects, tables, queue, IInv, TypeOK
<1>4. BlockRun => Selects("blocked", "node")
  BY DEF BlockRun, Selects, tables, queue
<1>5. FailRun => Selects("failed", "next")
  BY DEF FailRun, Selects, tables, queue, locals
<1>6. FinishRun => \/ Selects("succeeded", "next") /\ AllSucceeded(Run)
                   \/ /\ pc' = "next"
                      /\ UNCHANGED <<runs, rows, known, todo, dag, cache, at, goal>>
  BY DEF FinishRun, Selects, tables, queue, locals
<1>7. QED
  BY <1>1, <1>2, <1>3, <1>4, <1>5, <1>6

-----------------------------------------------------------------------------
\* A run is in hand exactly during a tick, once, and a write knows where to go on.
LEMMA ControlInvariance ==
    ASSUME IInv, [Next]_vars
    PROVE  GoalInv' /\ TodoInv'
<1> USE EngineAssumption
<1>1. TypeOK /\ GoalInv /\ TodoInv
  BY DEF IInv
<1>2. CASE Scan
  <2>1. PICK length \in 0..ScanLimit : \E scanned \in [1..length -> {r \in Runs : runs[r] \in Active}] :
           /\ OldestFirst(scanned)
           /\ todo' = [i \in 1..length |-> [run |-> scanned[i], status |-> runs[scanned[i]]]]
           /\ pc' = IF length = 0 THEN "idle" ELSE "run"
    BY <1>2 DEF Scan
  <2>2. PICK scanned \in [1..length -> {r \in Runs : runs[r] \in Active}] :
           /\ OldestFirst(scanned)
           /\ todo' = [i \in 1..length |-> [run |-> scanned[i], status |-> runs[scanned[i]]]]
           /\ pc' = IF length = 0 THEN "idle" ELSE "run"
    BY <2>1
  <2>3. \A i, j \in 1..length : scanned[i] = scanned[j] => i = j
    <3>1. SUFFICES ASSUME NEW i \in 1..length, NEW j \in 1..length, i < j
                   PROVE  scanned[i] # scanned[j]
      OBVIOUS
    <3>2. startedAt[scanned[i]] < startedAt[scanned[j]]
      BY <2>2, <3>1 DEF OldestFirst
    <3>3. startedAt[scanned[i]] \in Nat
      BY <1>1 DEF TypeOK
    <3>4. QED
      BY <3>2, <3>3
  <2>4. DOMAIN todo' = 1..length /\ \A i \in 1..length : todo'[i].run = scanned[i]
    BY <2>2
  <2>5. todo' = <<>> <=> length = 0
    <3>1. todo' \in Seq([run : Runs, status : Active])
      BY <2>2
    <3>2. Len(todo') = length
      BY <2>2, <3>1
    <3>3. CASE length = 0
      BY <3>1, <3>2, <3>3, EmptySeq
    <3>4. CASE length # 0
      BY <3>2, <3>4, EmptySeq
    <3>5. QED
      BY <3>3, <3>4
  <2>6. QED
    BY <2>2, <2>3, <2>4, <2>5, <1>2 DEF GoalInv, TodoInv
<1>3. CASE TakeRun
  <2>1. pc \notin {"idle", "down", "write"} /\ todo' = todo
    BY <1>1, <1>3, SelectingSteps DEF TakeRun, Selects
  <2>2. pc' \notin {"idle", "down"} /\ GoalInv'
    BY <1>1, <1>3, <2>1, SelectingSteps, SelectedFor DEF Selects, GoalInv, RunStatus
  <2>3. QED
    BY <1>1, <2>1, <2>2 DEF TodoInv
<1>4. CASE NextRun
  <2>1. todo # <<>>
    BY <1>4, RunInHand DEF NextRun
  <2>2. \A i, j \in DOMAIN Tail(todo) : Tail(todo)[i].run = Tail(todo)[j].run => i = j
    <3>1. SUFFICES ASSUME NEW i \in DOMAIN Tail(todo), NEW j \in DOMAIN Tail(todo),
                          Tail(todo)[i].run = Tail(todo)[j].run
                   PROVE  i = j
      OBVIOUS
    <3>2. i \in Nat /\ j \in Nat /\ i + 1 = j + 1
      BY <1>1, <2>1, <3>1, TailOfTodo DEF TodoInv
    <3>3. QED
      BY <3>2
  <2>3. QED
    BY <1>1, <2>2, <1>4 DEF NextRun, GoalInv, TodoInv
<1>5. CASE TryUnblock
  BY <1>1, <1>5 DEF TryUnblock, GoalInv, TodoInv
<1>6. CASE UnblockNode
  <2>1. pc \notin {"idle", "down", "write"} /\ todo' = todo
    BY <1>1, <1>6, SelectingSteps DEF UnblockNode, Selects
  <2>2. pc' \notin {"idle", "down"} /\ GoalInv'
    BY <1>1, <1>6, <2>1, SelectingSteps, SelectedFor DEF Selects, GoalInv, RunStatus
  <2>3. QED
    BY <1>1, <2>1, <2>2 DEF TodoInv
<1>7. CASE Load
  <2>1. pc \notin {"idle", "down", "write"} /\ todo' = todo
    BY <1>1, <1>7, SelectingSteps DEF Load, Selects
  <2>2. pc' \notin {"idle", "down"} /\ GoalInv'
    BY <1>1, <1>7, <2>1, SelectingSteps, SelectedFor DEF Selects, GoalInv, RunStatus
  <2>3. QED
    BY <1>1, <2>1, <2>2 DEF TodoInv
<1>8. CASE InsertNode
  BY <1>1, <1>8, Inserted DEF InsertNode, GoalInv, TodoInv
<1>9. CASE PassNode
  BY <1>1, <1>9 DEF PassNode, GoalInv, TodoInv, InLoop, locals
<1>10. CASE EvalNode
  BY <1>1, <1>10 DEF EvalNode, GoalInv, TodoInv, InLoop, locals
<1>11. CASE AskApproval
  BY <1>1, <1>11 DEF AskApproval, GoalInv, TodoInv, InLoop, locals
<1>12. CASE LinkApproval
  BY <1>1, <1>12 DEF LinkApproval, GoalInv, TodoInv, InLoop, locals
<1>13. CASE BlockRun
  <2>1. pc \notin {"idle", "down", "write"} /\ todo' = todo
    BY <1>1, <1>13, SelectingSteps DEF BlockRun, Selects
  <2>2. pc' \notin {"idle", "down"} /\ GoalInv'
    BY <1>1, <1>13, <2>1, SelectingSteps, SelectedFor DEF Selects, GoalInv, RunStatus
  <2>3. QED
    BY <1>1, <2>1, <2>2 DEF TodoInv
<1>14. CASE DispatchTask
  <2>1. CASE KeyTaken(Item)
    BY <1>14, <2>1 DEF DispatchTask, GoalInv, TodoInv
  <2>2. CASE ~KeyTaken(Item)
    BY <1>1, <1>14, <2>2 DEF DispatchTask, InLoop, GoalInv, TodoInv, locals
  <2>3. QED
    BY <2>1, <2>2
<1>15. CASE MarkDispatched
  BY <1>1, <1>15 DEF MarkDispatched, GoalInv, TodoInv, InLoop, locals
<1>16. CASE CollectAcked
  BY <1>1, <1>16 DEF CollectAcked, GoalInv, TodoInv, InLoop, locals
<1>17. CASE CollectFailed
  BY <1>1, <1>17 DEF CollectFailed, GoalInv, TodoInv, InLoop, locals
<1>18. CASE FailRun
  <2>1. pc \notin {"idle", "down", "write"} /\ todo' = todo
    BY <1>1, <1>18, SelectingSteps DEF FailRun, Selects
  <2>2. pc' \notin {"idle", "down"} /\ GoalInv'
    BY <1>1, <1>18, <2>1, SelectingSteps, SelectedFor DEF Selects, GoalInv, RunStatus
  <2>3. QED
    BY <1>1, <2>1, <2>2 DEF TodoInv
<1>19. CASE FinishRun
  <2>1. pc \notin {"idle", "down", "write"} /\ todo' = todo
    BY <1>1, <1>19, SelectingSteps DEF FinishRun, Selects
  <2>2. pc' \notin {"idle", "down"} /\ GoalInv'
    BY <1>1, <1>19, <2>1, SelectingSteps, SelectedFor DEF Selects, GoalInv, RunStatus
  <2>3. QED
    BY <1>1, <2>1, <2>2 DEF TodoInv
<1>20. CASE WriteRun
  BY <1>1, <1>20 DEF WriteRun, GoalInv, TodoInv, locals
<1>21. CASE Crash
  BY <1>1, <1>21 DEF Crash, GoalInv, TodoInv
<1>22. CASE Restart
  BY <1>1, <1>22 DEF Restart, GoalInv, TodoInv, locals
<1>23. CASE OtherStep \/ UNCHANGED vars
  BY <1>1, <1>23, OtherStepsKeep DEF GoalInv, TodoInv
<1>24. QED
  BY <1>2, <1>3, <1>4, <1>5, <1>6, <1>7, <1>8, <1>9, <1>10, <1>11, <1>12, <1>13,
     <1>14, <1>15, <1>16, <1>17, <1>18, <1>19, <1>20, <1>21, <1>22, <1>23
  DEF Next, EngineStep, OtherStep

\* What a pass remembers of the nodes stays true of the rows.
LEMMA PassInvariance ==
    ASSUME IInv, [Next]_vars
    PROVE  CacheInv' /\ PassInv'
<1> USE EngineAssumption
<1>1. TypeOK /\ NodesStayPending /\ GoalInv /\ TodoInv /\ CacheInv /\ PassInv
  BY DEF IInv
<1>2. CASE Scan
  BY <1>1, <1>2 DEF Scan, tables, NoCache, CacheInv, PassInv, InPass, Place, Run
<1>3. CASE TakeRun
  <2>1. Place' \in {"load", "next", "unblock"} /\ pc' \in {"load", "next", "unblock", "write"}
    BY <1>1, <1>3, SelectingSteps, SelectedFor DEF TakeRun, Selects, RunStatus, Place
  <2>2. UNCHANGED <<rows, todo, cache>>
    BY <1>3, SelectingSteps DEF Selects
  <2>3. QED
    BY <1>1, <2>1, <2>2 DEF InPass, CacheInv, PassInv, Run
<1>4. CASE NextRun
  BY <1>1, <1>4 DEF NextRun, tables, NoCache, CacheInv, PassInv, InPass, Place, Run
<1>5. CASE TryUnblock
  <2>1. Run \in Runs
    BY <1>5, RunInHand DEF TryUnblock
  <2>2. \A n \in Nodes : rows[Run][n] # "absent" => rows[Run][n] = "pending"
    BY <1>1, <2>1 DEF NodesStayPending
  <2>3. QED
    BY <1>5, <2>2 DEF TryUnblock, tables, CacheInv, PassInv, InPass, Place, Run
<1>6. CASE UnblockNode
  <2>1. Place' \in {"load", "next", "unblock"} /\ pc' \in {"load", "next", "unblock", "write"}
    BY <1>1, <1>6, SelectingSteps, SelectedFor DEF UnblockNode, Selects, RunStatus, Place
  <2>2. UNCHANGED <<rows, todo, cache>>
    BY <1>6, SelectingSteps DEF Selects
  <2>3. QED
    BY <1>1, <2>1, <2>2 DEF InPass, CacheInv, PassInv, Run
<1>7. CASE Load
  <2>1. CASE Selects("failed", "next")
    BY <1>1, <1>7, <2>1, SelectedFor DEF Load, Selects, SelectRun, RunStatus, CacheInv, PassInv, InPass, Place, Run
  <2>2. CASE /\ workflow \in Dags /\ pc' = "insert" /\ dag' = workflow
             /\ cache' = rows[Run]
             /\ UNCHANGED <<runs, rows, known, todo, goal>>
    <3>1. Run \in Runs
      BY <1>7, RunInHand DEF Load
    <3>2. \A n \in Nodes : rows[Run][n] # "absent" => rows[Run][n] = "pending"
      BY <1>1, <3>1 DEF NodesStayPending
    <3>3. QED
      BY <2>2, <3>2 DEF CacheInv, PassInv, InPass, Place, Run
  <2>3. QED
    BY <1>7, <2>1, <2>2, SelectingSteps
<1>8. CASE InsertNode
  <2>1. pc = "insert" /\ Place = "insert" /\ dag \in Dags /\ Run \in Runs
    BY <1>1, <1>8, RunInHand DEF InsertNode, Place, InPass, PassInv
  <2>2. todo' = todo /\ dag' = dag
    BY <1>8 DEF InsertNode
  <2>3. CASE /\ rows' = rows /\ cache' = cache /\ pc' = "node"
             /\ \A i \in DOMAIN dag.order : cache[dag.order[i]] # "absent"
    BY <1>1, <2>1, <2>2, <2>3 DEF CacheInv, PassInv, InPass, Place, Run
  <2>4. ASSUME NEW n \in Nodes, rows' = [rows EXCEPT ![Run][n] = "pending"],
               cache' = [cache EXCEPT ![n] = "pending"], pc' = "insert"
        PROVE  CacheInv' /\ PassInv'
    <3>1. \A m \in Nodes : cache'[m] # "absent" => cache'[m] = "pending" /\ rows'[Run][m] # "absent"
      BY <1>1, <2>1, <2>4 DEF TypeOK, CacheInv
    <3>2. QED
      BY <2>1, <2>2, <2>4, <3>1 DEF CacheInv, PassInv, InPass, Place, Run
  <2>5. QED
    BY <1>8, <2>3, <2>4, Inserted
<1>9. CASE PassNode
  <2>1. pc = "node" /\ at \in DOMAIN dag.order /\ pc' = "node"
        /\ UNCHANGED <<rows, todo, dag, cache>>
    BY <1>9 DEF PassNode, InLoop, tables, locals
  <2>2. QED
    BY <1>1, <2>1 DEF CacheInv, PassInv, InPass, Place, Run
<1>10. CASE EvalNode
  <2>1. pc = "node" /\ at \in DOMAIN dag.order /\ pc' = "node"
        /\ UNCHANGED <<rows, todo, dag, cache>>
    BY <1>10, LoopKeepsRows DEF EvalNode, InLoop, tables, locals
  <2>2. QED
    BY <1>1, <2>1 DEF CacheInv, PassInv, InPass, Place, Run
<1>11. CASE AskApproval
  <2>1. pc = "node" /\ at \in DOMAIN dag.order /\ pc' = "link"
        /\ UNCHANGED <<rows, todo, dag, cache, at>>
    BY <1>11 DEF AskApproval, InLoop, tables, locals
  <2>2. QED
    BY <1>1, <2>1 DEF CacheInv, PassInv, InPass, Place, Run
<1>12. CASE LinkApproval
  <2>1. pc = "link" /\ pc' = "block"
        /\ UNCHANGED <<rows, todo, dag, cache, at>>
    BY <1>12, LoopKeepsRows DEF LinkApproval, InLoop, tables, locals
  <2>2. QED
    BY <1>1, <2>1 DEF CacheInv, PassInv, InPass, Place, Run
<1>13. CASE BlockRun
  <2>1. Selects("blocked", "node") /\ pc = "block" /\ Place = "block"
    BY <1>13, SelectingSteps DEF BlockRun, Place
  <2>2. Place' = "node" /\ pc' \in {"node", "write"}
    BY <1>1, <2>1, SelectedFor DEF Selects, RunStatus
  <2>3. UNCHANGED <<rows, todo, dag, cache>>
    BY <2>1 DEF Selects
  <2>4. QED
    BY <1>1, <2>1, <2>2, <2>3 DEF InPass, CacheInv, PassInv, Run
<1>14. CASE DispatchTask
  <2>1. CASE KeyTaken(Item)
    BY <1>1, <1>14, <2>1 DEF DispatchTask, NoCache, CacheInv, PassInv, InPass, Place, Run
  <2>2. CASE ~KeyTaken(Item)
    <3>1. pc = "node" /\ at \in DOMAIN dag.order /\ pc' = "mark"
          /\ UNCHANGED <<rows, todo, dag, cache, at>>
      BY <1>14, <2>2 DEF DispatchTask, InLoop, locals
    <3>2. QED
      BY <1>1, <3>1 DEF CacheInv, PassInv, InPass, Place, Run
  <2>3. QED
    BY <2>1, <2>2
<1>15. CASE MarkDispatched
  <2>1. pc = "mark" /\ pc' = "node"
        /\ UNCHANGED <<rows, todo, dag, cache>>
    BY <1>15, LoopKeepsRows DEF MarkDispatched, InLoop, tables, locals
  <2>2. QED
    BY <1>1, <2>1 DEF CacheInv, PassInv, InPass, Place, Run
<1>16. CASE CollectAcked
  <2>1. pc = "node" /\ at \in DOMAIN dag.order /\ pc' = "node"
        /\ UNCHANGED <<rows, todo, dag, cache>>
    BY <1>16, LoopKeepsRows DEF CollectAcked, InLoop, tables, locals
  <2>2. QED
    BY <1>1, <2>1 DEF CacheInv, PassInv, InPass, Place, Run
<1>17. CASE CollectFailed
  <2>1. pc = "node" /\ at \in DOMAIN dag.order /\ pc' = "fail"
        /\ UNCHANGED <<rows, todo, dag, cache>>
    BY <1>17, LoopKeepsRows DEF CollectFailed, InLoop, tables, locals
  <2>2. QED
    BY <1>1, <2>1 DEF CacheInv, PassInv, InPass, Place, Run
<1>18. CASE FailRun
  <2>1. Place' \in {"load", "next", "unblock"} /\ pc' \in {"load", "next", "unblock", "write"}
    BY <1>1, <1>18, SelectingSteps, SelectedFor DEF FailRun, Selects, RunStatus, Place
  <2>2. UNCHANGED <<rows, todo, cache>>
    BY <1>18, SelectingSteps DEF Selects
  <2>3. QED
    BY <1>1, <2>1, <2>2 DEF InPass, CacheInv, PassInv, Run
<1>19. CASE FinishRun
  <2>1. Place' \in {"load", "next", "unblock"} /\ pc' \in {"load", "next", "unblock", "write"}
    BY <1>1, <1>19, SelectingSteps, SelectedFor DEF FinishRun, Selects, RunStatus, Place
  <2>2. UNCHANGED <<rows, todo, cache>>
    BY <1>19, SelectingSteps DEF Selects
  <2>3. QED
    BY <1>1, <2>1, <2>2 DEF InPass, CacheInv, PassInv, Run
<1>20. CASE WriteRun
  <2>1. Place' = Place /\ pc' \in {"load", "next", "node"} /\ UNCHANGED <<rows, todo, dag, cache, at>>
    BY <1>1, <1>20 DEF WriteRun, GoalInv, Place, locals
  <2>2. QED
    BY <1>1, <2>1 DEF InPass, CacheInv, PassInv, Run
<1>21. CASE Crash
  BY <1>1, <1>21 DEF Crash, tables, NoCache, CacheInv, PassInv, InPass, Place, Run
<1>22. CASE Restart
  BY <1>1, <1>22 DEF Restart, tables, locals, NoCache, CacheInv, PassInv, InPass, Place, Run
<1>23. CASE OtherStep \/ UNCHANGED vars
  BY <1>1, <1>23, OtherStepsKeep DEF CacheInv, PassInv, InPass, Place, Run
<1>24. QED
  BY <1>2, <1>3, <1>4, <1>5, <1>6, <1>7, <1>8, <1>9, <1>10, <1>11, <1>12, <1>13,
     <1>14, <1>15, <1>16, <1>17, <1>18, <1>19, <1>20, <1>21, <1>22, <1>23
  DEF Next, EngineStep, OtherStep

-----------------------------------------------------------------------------
\* Only an insert stores a row, and the row is PENDING.
LEMMA OnlyInsertStores ==
    ASSUME IInv, [Next]_vars
    PROVE  \/ rows' = rows
           \/ InsertNode /\ \E n \in Nodes : rows' = [rows EXCEPT ![Run][n] = "pending"]
<1>1. CASE TakeRun \/ UnblockNode \/ Load \/ BlockRun \/ FailRun \/ FinishRun
  BY <1>1, SelectingSteps DEF Selects
<1>2. CASE EvalNode \/ LinkApproval \/ MarkDispatched \/ CollectAcked \/ CollectFailed
  BY <1>2, LoopKeepsRows
<1>3. CASE Scan \/ NextRun \/ TryUnblock \/ PassNode \/ Crash \/ Restart
  BY <1>3 DEF Scan, NextRun, TryUnblock, PassNode, Crash, Restart, tables
<1>4. CASE AskApproval \/ DispatchTask \/ WriteRun
  BY <1>4 DEF AskApproval, DispatchTask, WriteRun
<1>5. CASE OtherStep \/ UNCHANGED vars
  BY <1>5, OtherStepsKeep
<1>6. CASE InsertNode
  BY <1>6, Inserted
<1>7. QED
  BY <1>1, <1>2, <1>3, <1>4, <1>5, <1>6 DEF Next, EngineStep, OtherStep

\* Only a dispatch submits a work item, that of the node in hand.
LEMMA OnlyDispatchSubmits ==
    ASSUME IInv, [Next]_vars
    PROVE  \/ known' = known
           \/ DispatchTask /\ ~KeyTaken(Item) /\ known' = known \union {Item}
<1>1. CASE TakeRun \/ UnblockNode \/ Load \/ BlockRun \/ FailRun \/ FinishRun
  BY <1>1, SelectingSteps DEF Selects
<1>2. CASE EvalNode \/ LinkApproval \/ MarkDispatched \/ CollectAcked \/ CollectFailed
  BY <1>2 DEF EvalNode, LinkApproval, MarkDispatched, CollectAcked, CollectFailed, queue
<1>3. CASE Scan \/ NextRun \/ TryUnblock \/ PassNode \/ Crash \/ Restart
  BY <1>3 DEF Scan, NextRun, TryUnblock, PassNode, Crash, Restart, tables, queue
<1>4. CASE AskApproval \/ InsertNode \/ WriteRun
  BY <1>4 DEF AskApproval, InsertNode, WriteRun, queue
<1>5. CASE OtherStep \/ UNCHANGED vars
  BY <1>5, OtherStepsKeep
<1>6. CASE DispatchTask
  BY <1>6 DEF DispatchTask, Queue!Submit, queue
<1>7. QED
  BY <1>1, <1>2, <1>3, <1>4, <1>5, <1>6 DEF Next, EngineStep, OtherStep

\* Rows stay PENDING, and every item that was submitted has one.
LEMMA RowsInvariance ==
    ASSUME IInv, [Next]_vars
    PROVE  NodesStayPending' /\ DispatchedHasRow'
<1>1. TypeOK /\ NodesStayPending /\ DispatchedHasRow
  BY DEF IInv
<1>2. NodesStayPending' /\ \A r \in Runs, n \in Nodes : rows[r][n] # "absent" => rows'[r][n] # "absent"
  <2>1. CASE rows' = rows
    BY <1>1, <2>1 DEF NodesStayPending
  <2>2. ASSUME NEW n \in Nodes, InsertNode, rows' = [rows EXCEPT ![Run][n] = "pending"]
        PROVE  NodesStayPending' /\ \A r \in Runs, m \in Nodes :
                                       rows[r][m] # "absent" => rows'[r][m] # "absent"
    <3>1. Run \in Runs
      BY <2>2, RunInHand DEF InsertNode
    <3>2. QED
      BY <1>1, <2>2, <3>1 DEF NodesStayPending, TypeOK
  <2>3. QED
    BY <2>1, <2>2, OnlyInsertStores
<1>3. DispatchedHasRow'
  <2>1. CASE known' = known
    BY <1>1, <1>2, <2>1 DEF DispatchedHasRow
  <2>2. CASE DispatchTask /\ known' = known \union {Item}
    <3>1. rows[Run][Node] # "absent"
      BY <2>2, NodeInHand DEF DispatchTask
    <3>2. \A r \in Runs, n \in Nodes : <<r, n>> = Item => r = Run /\ n = Node
      BY DEF Item
    <3>3. QED
      BY <1>1, <1>2, <2>2, <3>1, <3>2 DEF DispatchedHasRow
  <2>3. QED
    BY <2>1, <2>2, OnlyDispatchSubmits
<1>4. QED
  BY <1>2, <1>3

-----------------------------------------------------------------------------
\* Nothing is added to what a tick still has to do, except by the next scan.
LEMMA AheadShrinks ==
    ASSUME IInv, [Next]_vars, ~Scan, NEW r \in Runs, Ahead(r)'
    PROVE  Ahead(r)
<1>1. TypeOK /\ GoalInv /\ TodoInv
  BY DEF IInv
<1>2. PICK i \in DOMAIN todo' : todo'[i].run = r /\ (i > 1 \/ Place' # "next")
  BY DEF Ahead
<1>3. CASE NextRun
  <2>1. todo' = Tail(todo) /\ todo # <<>>
    BY <1>3, RunInHand DEF NextRun
  <2>2. i + 1 \in DOMAIN todo /\ todo[i + 1].run = r /\ i \in Nat \ {0}
    BY <1>1, <1>2, <2>1, TailOfTodo
  <2>3. i + 1 > 1
    BY <2>2
  <2>4. QED
    BY <2>2, <2>3 DEF Ahead
<1>4. CASE WriteRun
  BY <1>1, <1>2, <1>4 DEF WriteRun, GoalInv, Place, Ahead, locals
<1>5. CASE OtherStep \/ UNCHANGED vars
  BY <1>2, <1>5, OtherStepsKeep DEF Ahead, Place
<1>6. CASE TakeRun \/ UnblockNode \/ Load \/ BlockRun \/ FailRun \/ FinishRun
  <2>1. todo' = todo
    BY <1>6, SelectingSteps DEF Selects
  <2>2. Place # "next"
    BY <1>6 DEF TakeRun, UnblockNode, Load, BlockRun, FailRun, FinishRun, Place
  <2>3. QED
    BY <1>2, <2>1, <2>2 DEF Ahead
<1>7. CASE TryUnblock \/ PassNode \/ EvalNode \/ AskApproval \/ LinkApproval \/ MarkDispatched
           \/ CollectAcked \/ CollectFailed \/ InsertNode
  <2>1. todo' = todo
    BY <1>7 DEF TryUnblock, PassNode, EvalNode, AskApproval, LinkApproval, MarkDispatched,
       CollectAcked, CollectFailed, InsertNode, locals
  <2>2. Place # "next"
    BY <1>7 DEF TryUnblock, PassNode, EvalNode, AskApproval, LinkApproval, MarkDispatched,
       CollectAcked, CollectFailed, InsertNode, InLoop, Place
  <2>3. QED
    BY <1>2, <2>1, <2>2 DEF Ahead
<1>8. CASE Crash \/ Restart
  <2>1. todo' = <<>>
    BY <1>1, <1>8 DEF Crash, Restart, TodoInv, locals
  <2>2. QED
    BY <1>2, <2>1
<1>9. CASE DispatchTask
  <2>1. todo' = <<>> \/ todo' = todo
    BY <1>9 DEF DispatchTask, locals
  <2>2. Place # "next"
    BY <1>9 DEF DispatchTask, InLoop, Place
  <2>3. QED
    BY <1>2, <2>1, <2>2 DEF Ahead
<1>10. QED
  BY <1>3, <1>4, <1>5, <1>6, <1>7, <1>8, <1>9 DEF Next, EngineStep, OtherStep

\* A run becomes SUCCEEDED only by the write that FinishRun has selected for.
LEMMA OnlyFinishSucceeds ==
    ASSUME IInv, [Next]_vars, NEW r \in Runs, runs'[r] = "succeeded"
    PROVE  \/ runs[r] = "succeeded"
           \/ WriteRun /\ r = Run /\ goal.status = "succeeded"
<1>1. TypeOK
  BY DEF IInv
<1>2. CASE WriteRun
  <2>1. Run \in Runs
    BY <1>2, RunInHand DEF WriteRun
  <2>2. QED
    BY <1>1, <1>2, <2>1 DEF WriteRun, TypeOK
<1>3. ASSUME NEW q \in Runs, NEW status \in {"pending", "queued"}, UpsertRun(q, status)
      PROVE  runs[r] = "succeeded"
  BY <1>1, <1>3 DEF UpsertRun, TypeOK
<1>4. CASE TakeRun \/ UnblockNode \/ Load \/ BlockRun \/ FailRun \/ FinishRun
  BY <1>4, SelectingSteps DEF Selects
<1>5. CASE Scan \/ NextRun \/ TryUnblock \/ PassNode \/ Crash \/ Restart
  BY <1>5 DEF Scan, NextRun, TryUnblock, PassNode, Crash, Restart, tables
<1>6. CASE InsertNode \/ EvalNode \/ AskApproval \/ LinkApproval \/ DispatchTask
           \/ MarkDispatched \/ CollectAcked \/ CollectFailed
  BY <1>6 DEF InsertNode, EvalNode, AskApproval, LinkApproval, DispatchTask, MarkDispatched,
     CollectAcked, CollectFailed
<1>7. ASSUME NEW d \in Dags, PublishWorkflow(d)
      PROVE  runs' = runs
  BY <1>7 DEF PublishWorkflow
<1>8. ASSUME NEW q \in Runs, NEW n \in Nodes, NEW decision \in {"approved", "rejected"},
             DecideApproval(q, n, decision)
      PROVE  runs' = runs
  BY <1>8 DEF DecideApproval
<1>9. CASE QueueStep \/ UNCHANGED vars
  BY <1>9 DEF QueueStep, vars, tables
<1>10. QED
  BY <1>2, <1>3, <1>4, <1>5, <1>6, <1>7, <1>8, <1>9 DEF Next, EngineStep

\* A write of SUCCEEDED is selected for only by FinishRun.
LEMMA OnlyFinishSelects ==
    ASSUME IInv, [Next]_vars, pc' = "write", goal'.status = "succeeded"
    PROVE  \/ FinishRun /\ Selects("succeeded", "next") /\ AllSucceeded(Run)
           \/ UNCHANGED <<rows, pc, todo, goal>>
<1>1. TypeOK /\ GoalInv
  BY DEF IInv
<1>2. CASE TakeRun \/ UnblockNode \/ Load \/ BlockRun \/ FailRun
  <2>1. pc # "write"
    BY <1>2 DEF TakeRun, UnblockNode, Load, BlockRun, FailRun
  <2>2. ASSUME NEW to \in {"running", "failed", "blocked"}, NEW next \in {"load", "next", "node"},
               SelectRun(to, next)
        PROVE  goal'.status = to
    BY <1>1, <2>1, <2>2, SelectedFor DEF RunStatus
  <2>3. QED
    BY <1>2, <2>1, <2>2, SelectingSteps DEF Selects
<1>3. CASE FinishRun
  <2>1. pc # "write"
    BY <1>3 DEF FinishRun
  <2>2. QED
    BY <1>3, <2>1, SelectingSteps
<1>4. CASE Scan \/ NextRun \/ TryUnblock \/ PassNode \/ Crash \/ Restart
  BY <1>4 DEF Scan, NextRun, TryUnblock, PassNode, Crash, Restart, InLoop
<1>5. CASE EvalNode \/ AskApproval \/ LinkApproval \/ DispatchTask \/ MarkDispatched
           \/ CollectAcked \/ CollectFailed
  BY <1>5 DEF EvalNode, AskApproval, LinkApproval, DispatchTask, MarkDispatched, CollectAcked,
     CollectFailed, InLoop
<1>6. CASE InsertNode
  BY <1>6, Inserted
<1>7. CASE WriteRun
  BY <1>1, <1>7 DEF WriteRun, GoalInv
<1>8. CASE OtherStep \/ UNCHANGED vars
  BY <1>8, OtherStepsKeep
<1>9. QED
  BY <1>2, <1>3, <1>4, <1>5, <1>6, <1>7, <1>8 DEF Next, EngineStep, OtherStep

\* A succeeded run is complete and out of the tick's hands, one that is about to be
\* marked succeeded is complete.
LEMMA SucceededInvariance ==
    ASSUME IInv, [Next]_vars
    PROVE  SucceededIsComplete' /\ SucceededInv'
<1>1. TypeOK /\ TodoInv /\ SucceededIsComplete /\ SucceededInv /\ NodesStayPending
  BY DEF IInv
<1>2. ASSUME WriteRun, goal.status = "succeeded"
      PROVE  AllSucceeded(Run) /\ ~Ahead(Run)' /\ rows' = rows
  <2>1. AllSucceeded(Run) /\ goal.next = "next"
    BY <1>1, <1>2 DEF SucceededInv, WriteRun
  <2>2. pc' = "next" /\ todo' = todo /\ rows' = rows
    BY <1>2, <2>1 DEF WriteRun, locals
  <2>3. todo' = todo /\ Place' = "next"
    BY <2>2 DEF Place
  <2>4. ASSUME NEW i \in DOMAIN todo, todo[i].run = Run
        PROVE  i = 1
    <3>1. 1 \in DOMAIN todo /\ todo[1].run = Run
      BY <1>2, RunInHand DEF WriteRun
    <3>2. QED
      BY <1>1, <2>4, <3>1 DEF TodoInv
  <2>5. \A i \in DOMAIN todo : todo[i].run = Run => ~(i > 1)
    BY <2>4
  <2>6. Run' = Run
    BY <2>2 DEF Run
  <2>7. QED
    BY <2>1, <2>2, <2>3, <2>5, <2>6 DEF Ahead
<1>3. ASSUME NEW r \in Runs, runs'[r] = "succeeded"
      PROVE  ~Ahead(r)'
  <2>1. CASE Scan
    <3>1. runs[r] = "succeeded"
      BY <1>3, <2>1 DEF Scan, tables
    <3>2. \A i \in DOMAIN todo' : runs[todo'[i].run] \in Active
      BY <2>1 DEF Scan
    <3>3. QED
      BY <3>1, <3>2 DEF Ahead, Active
  <2>2. CASE ~Scan
    <3>1. CASE runs[r] = "succeeded"
      BY <1>1, <2>2, <3>1, AheadShrinks DEF SucceededInv
    <3>2. CASE WriteRun /\ r = Run /\ goal.status = "succeeded"
      <4>1. Run' = Run
        BY <3>2 DEF WriteRun, locals, Run
      <4>2. QED
        BY <1>2, <3>2, <4>1 DEF Ahead
    <3>3. QED
      BY <1>3, <3>1, <3>2, OnlyFinishSucceeds
  <2>3. QED
    BY <2>1, <2>2
<1>4. ASSUME NEW r \in Runs, runs'[r] = "succeeded", NEW n \in Nodes
      PROVE  rows'[r][n] \in {"absent", "succeeded"}
  <2>1. CASE runs[r] = "succeeded"
    <3>1. rows[r][n] \in {"absent", "succeeded"}
      BY <1>1, <2>1 DEF SucceededIsComplete
    <3>2. CASE rows' = rows
      BY <3>1, <3>2
    <3>3. ASSUME NEW m \in Nodes, InsertNode, rows' = [rows EXCEPT ![Run][m] = "pending"]
          PROVE  rows'[r][n] = rows[r][n]
      <4>1. Place # "next" /\ 1 \in DOMAIN todo /\ todo[1].run = Run
        BY <3>3, RunInHand DEF InsertNode, Place
      <4>2. Ahead(Run)
        BY <4>1 DEF Ahead
      <4>3. r # Run
        BY <1>1, <2>1, <4>2 DEF SucceededInv
      <4>4. QED
        BY <1>1, <3>3, <4>3 DEF TypeOK
    <3>4. QED
      BY <3>1, <3>2, <3>3, OnlyInsertStores
  <2>2. CASE WriteRun /\ r = Run /\ goal.status = "succeeded"
    BY <1>2, <2>2 DEF AllSucceeded
  <2>3. QED
    BY <1>4, <2>1, <2>2, OnlyFinishSucceeds
<1>5. ASSUME pc' = "write", goal'.status = "succeeded"
      PROVE  goal'.next = "next" /\ AllSucceeded(Run)'
  <2>1. CASE FinishRun /\ Selects("succeeded", "next") /\ AllSucceeded(Run)
    <3>1. pc # "write"
      BY <2>1 DEF FinishRun
    <3>2. goal'.next = "next"
      BY <1>1, <1>5, <2>1, <3>1, SelectedFor DEF Selects, RunStatus
    <3>3. rows' = rows /\ todo' = todo
      BY <2>1 DEF Selects
    <3>4. QED
      BY <2>1, <3>2, <3>3 DEF AllSucceeded, Run
  <2>2. CASE UNCHANGED <<rows, pc, todo, goal>>
    BY <1>1, <1>5, <2>2 DEF SucceededInv, AllSucceeded, Run
  <2>3. QED
    BY <1>5, <2>1, <2>2, OnlyFinishSelects
<1>6. QED
  BY <1>3, <1>4, <1>5 DEF SucceededIsComplete, SucceededInv

\* Initially no run has a row.
LEMMA InitIInv == Init => IInv
<1> SUFFICES ASSUME Init PROVE IInv
  OBVIOUS
<1> USE EngineAssumption DEF Init
<1>1. TypeOK
  BY DEF TypeOK, Queue!Init, Queue!Verdicts, NoCache, NodeRunStatus, RunStatus, EnginePc
<1>2. GoalInv /\ TodoInv /\ CacheInv /\ PassInv
  BY DEF GoalInv, TodoInv, CacheInv, PassInv, InPass, Place, NoCache
<1>3. NodesStayPending /\ DispatchedHasRow /\ SucceededIsComplete /\ SucceededInv
  BY DEF NodesStayPending, DispatchedHasRow, SucceededIsComplete, SucceededInv, Ahead, NoCache,
     Queue!Init
<1>4. QED
  BY <1>1, <1>2, <1>3 DEF IInv

LEMMA NextIInv == IInv /\ [Next]_vars => IInv'
BY TypeInvariance, ControlInvariance, PassInvariance, RowsInvariance, SucceededInvariance
DEF IInv

LEMMA SpecIInv == Spec => []IInv
BY InitIInv, NextIInv, PTL DEF Spec

-----------------------------------------------------------------------------
\* Every table and every local variable keeps its type; a work item exists only for
\* a node with a row; a run is SUCCEEDED only if all its rows are; and no row ever
\* leaves PENDING, whatever the workflow is and whoever writes beside it
\* (_progress_run, update_node_status, NODE_TRANSITIONS).
THEOREM RowsAreSound == Spec => []RowsSound
<1>1. IInv => RowsSound
  BY DEF IInv, RowsSound
<1>2. QED
  BY <1>1, SpecIInv, PTL

\* An item is submitted only for a node whose dependencies have all succeeded in the
\* table: what the loop remembers is never ahead of it (_deps_satisfied).
THEOREM DepsAreFollowed == Spec => DispatchFollowsDeps
<1>1. ASSUME IInv, [Next]_vars, NEW r \in Runs, NEW n \in Nodes, <<r, n>> \in known' \ known,
             NEW e \in dag.edges, e[2] = n
      PROVE  rows[r][e[1]] = "succeeded"
  <2>1. DispatchTask /\ <<r, n>> = Item
    BY <1>1, OnlyDispatchSubmits
  <2>2. n = Node /\ dag \in Dags /\ DepsSatisfied(Node)
    BY <1>1, <2>1, NodeInHand DEF DispatchTask, Item, Dispatchable
  <2>3. cache[e[1]] = "succeeded" /\ e[1] \in Nodes
    BY <1>1, <2>2, EngineAssumption DEF DepsSatisfied
  <2>4. QED
    BY <1>1, <2>3 DEF IInv, CacheInv
<1>2. IInv /\ [Next]_vars =>
        [\A r \in Runs, n \in Nodes :
          <<r, n>> \in known' \ known =>
              \A e \in dag.edges : e[2] = n => rows[r][e[1]] = "succeeded"]_vars
  BY <1>1
<1>3. QED
  BY <1>2, SpecIInv, PTL DEF Spec, DispatchFollowsDeps

\* With distinct idempotency keys the orchestrator never ends by its own exception:
\* only a crash brings it down (enqueue_work_item).
THEOREM NeverRefused == Spec => DispatchNeverRefused
<1>1. ASSUME IInv, [Next]_vars, KeysAreDistinct, pc # "down", pc' = "down"
      PROVE  crashes' = crashes + 1
  <2>1. TypeOK /\ GoalInv
    BY <1>1 DEF IInv
  <2>2. CASE TakeRun \/ UnblockNode \/ Load \/ BlockRun \/ FailRun \/ FinishRun
    <3>1. pc # "write"
      BY <2>2 DEF TakeRun, UnblockNode, Load, BlockRun, FailRun, FinishRun
    <3>2. ASSUME NEW to \in RunStatus, NEW next \in {"load", "next", "node"}, SelectRun(to, next)
          PROVE  pc' # "down"
      BY <2>1, <3>1, <3>2, SelectedFor
    <3>3. QED
      BY <1>1, <2>2, <3>2, SelectingSteps DEF Selects, RunStatus
  <2>3. CASE DispatchTask
    <3>1. Item \in Items \ known
      BY <1>1, <2>3, NodeInHand DEF DispatchTask, Existing
    <3>2. ~KeyTaken(Item)
      BY <1>1, <2>1, <3>1 DEF KeyTaken, KeysAreDistinct, TypeOK
    <3>3. QED
      BY <1>1, <2>3, <3>2 DEF DispatchTask
  <2>4. CASE Scan \/ NextRun \/ TryUnblock \/ PassNode \/ Restart
    BY <1>1, <2>4 DEF Scan, NextRun, TryUnblock, PassNode, Restart
  <2>5. CASE EvalNode \/ AskApproval \/ LinkApproval \/ MarkDispatched \/ CollectAcked
             \/ CollectFailed
    BY <1>1, <2>5 DEF EvalNode, AskApproval, LinkApproval, MarkDispatched, CollectAcked,
       CollectFailed
  <2>6. CASE InsertNode
    BY <1>1, <2>6, Inserted
  <2>7. CASE WriteRun
    BY <1>1, <2>1, <2>7 DEF WriteRun, GoalInv
  <2>8. CASE OtherStep \/ UNCHANGED vars
    BY <1>1, <2>8, OtherStepsKeep
  <2>9. CASE Crash
    BY <2>9 DEF Crash
  <2>10. QED
    BY <1>1, <2>2, <2>3, <2>4, <2>5, <2>6, <2>7, <2>8, <2>9 DEF Next, EngineStep, OtherStep
<1>2. IInv /\ [Next]_vars =>
        [KeysAreDistinct /\ pc # "down" /\ pc' = "down" => crashes' = crashes + 1]_vars
  BY <1>1
<1>3. QED
  BY <1>2, SpecIInv, PTL DEF Spec, DispatchNeverRefused

\* Both halves of what is promised of a dispatch.
THEOREM DispatchesAreSound == Spec => DispatchSound
BY DepsAreFollowed, NeverRefused DEF DispatchSound
=============================================================================
