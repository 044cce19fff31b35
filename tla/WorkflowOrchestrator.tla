------------------------ MODULE WorkflowOrchestrator ------------------------
(***************************************************************************)
(* core/workflow/orchestrator.py over core/instance: executions of a graph *)
(* of stages. complete_stage starts the stages after the one it completes, *)
(* and is suspended while an instance for one of them starts up; other     *)
(* calls run in between.                                                   *)
(***************************************************************************)
EXTENDS Integers, SequencesExt

-----------------------------------------------------------------------------
(* core/instance: instances of a profession, the resources they were given *)
(* and the tasks they have. The coroutines suspend in one place only, the  *)
(* start-up of a new instance; every other operation is one step.          *)
CONSTANTS
    Instances,     \* ids, in the order they are created
    Total,         \* _total_resources, one dimension of it
    Quota,         \* the ResourceQuota create_instance asks for
    Concurrent     \* its max_concurrent_tasks

VARIABLES
    instance,      \* [status, tasks, given] of every id; "none" before it is made
    index,         \* _profession_index of the one profession, oldest first
    healthy,       \* _registered of the HealthChecker
    available,     \* ResourceAllocator._available
    leaked         \* ghost: resources of starts that never came back

instanceVars == <<instance, index, healthy, available, leaked>>

Nothing == [status |-> "none", tasks |-> {}, given |-> 0]

InstancesInit ==
    /\ instance = [i \in Instances |-> Nothing]
    /\ index = <<>> /\ healthy = {}
    /\ available = Total /\ leaked = 0

Live == {i \in Instances : instance[i].status \notin {"none", "INITIALIZING", "gone"}}

IsAvailable(i) ==
    instance[i].status \in {"READY", "IDLE"} /\ Cardinality(instance[i].tasks) < Concurrent

(* get_available_instance: the oldest in the index that has room *)
Candidates == {k \in DOMAIN index : IsAvailable(index[k])}

Oldest == index[Min(Candidates)]

(* create_instance, first half: the resources, the ports and an instance   *)
(* nobody can find yet                                                     *)
BeginCreate(i) ==
    /\ instance[i].status = "none"
    /\ \A j \in Instances : j < i => instance[j].status # "none"
    /\ available >= Quota
    /\ available' = available - Quota
    /\ instance' = [instance EXCEPT ![i] = [status |-> "INITIALIZING", tasks |-> {},
                                            given |-> Quota]]
    /\ UNCHANGED <<index, healthy, leaked>>

(* second half, 0.1 s later; with a task at once when a stage asked for it *)
EndCreate(i, tasks) ==
    /\ instance[i].status = "INITIALIZING"
    /\ instance' = [instance EXCEPT ![i].status = IF tasks = {} THEN "READY" ELSE "BUSY",
                                    ![i].tasks = tasks]
    /\ index' = Append(index, i)
    /\ healthy' = healthy \cup {i}
    /\ UNCHANGED <<available, leaked>>

(* the caller is cancelled in the sleep: nothing gives the resources back *)
CancelCreate(i) ==
    /\ instance[i].status = "INITIALIZING"
    /\ instance' = [instance EXCEPT ![i] = [status |-> "gone", tasks |-> {}, given |-> 0]]
    /\ leaked' = leaked + instance[i].given
    /\ UNCHANGED <<index, healthy, available>>

(* Mutant: given back twice, by destroy and by the health check. *)
ReleaseTwice(i) == available' = available + 2 * instance[i].given

Release(i) == available' = available + instance[i].given

Destroy(i) ==
    /\ i \in Live
    /\ Release(i)
    /\ instance' = [instance EXCEPT ![i] = [status |-> "gone", tasks |-> {}, given |-> 0]]
    /\ healthy' = healthy \ {i}
    /\ index' = RemoveFirst(index, i)
    /\ UNCHANGED leaked

(* assign_task: one task makes the instance BUSY, and a BUSY instance is   *)
(* not available, whatever max_concurrent_tasks says                       *)
AssignTask(i, t) ==
    /\ instance' = IF i \in Live /\ IsAvailable(i)
                   THEN [instance EXCEPT ![i].tasks = @ \cup {t}, ![i].status = "BUSY"]
                   ELSE instance
    /\ UNCHANGED <<index, healthy, available, leaked>>

(* complete_task: an id the instance does not have is no error, and frees  *)
(* it for the next task all the same                                       *)
CompleteTask(i, t) ==
    /\ instance' = IF i \in Live
                   THEN [instance EXCEPT ![i].tasks = @ \ {t},
                           ![i].status = IF instance[i].tasks \ {t} = {} THEN "READY" ELSE "IDLE"]
                   ELSE instance
    /\ UNCHANGED <<index, healthy, available, leaked>>

SetStatus(i, status) ==
    /\ i \in Live
    /\ instance' = [instance EXCEPT ![i].status = status]
    /\ UNCHANGED <<index, healthy, available, leaked>>

(* Every unit of the resources is free, held by an instance that lives or  *)
(* is starting, or was lost with a start that was cancelled; and an        *)
(* instance is in the index and watched exactly as long as it lives.       *)
ResourcesAccounted ==
    /\ \A i \in Instances : instance[i].given \in {0, Quota}
    /\ available + leaked + Quota * Cardinality({i \in Instances : instance[i].given # 0}) = Total
    /\ ToSet(index) = Live /\ healthy = Live
    /\ Len(index) = Cardinality(Live)

-----------------------------------------------------------------------------
(* core/workflow *)
CONSTANTS
    Stages, Entry,
    NextStages,    \* stage -> sequence of stages
    Sources,       \* stage -> the source_stage of its inputs
    Callers,       \* concurrent complete_stage calls
    NoInstance,
    MaxStarts      \* bound of the model: executions of a stage

VARIABLES
    status,        \* of the one WorkflowExecution
    stage,         \* stage_executions: [status, at], at = instance_id
    current,       \* current_stages
    call,          \* per caller: [rest, starting]; rest = next stages to look at
    starts,        \* ghost: times each stage was started
    completed      \* ghost: stages ever completed with success

orchestratorVars == <<status, stage, current, call, starts, completed>>
vars == <<instanceVars, orchestratorVars>>

Idle == [rest |-> <<>>, starting |-> 0, on |-> FALSE]
Waiting == [status |-> "WAITING", at |-> NoInstance]
NotYet == [status |-> "none", at |-> NoInstance]

(* start_workflow and _schedule_stage: the entry stage waits in            *)
(* current_stages, and nothing here runs it                                *)
Init ==
    /\ InstancesInit
    /\ status = "RUNNING"
    /\ stage = [s \in Stages |-> IF s = Entry THEN Waiting ELSE NotYet]
    /\ current = {Entry}
    /\ call = [c \in Callers |-> Idle]
    /\ starts = [s \in Stages |-> 0] /\ completed = {}

(* complete_stage, up to the loop over the next stages. Any stage that has *)
(* an execution is completed, for the first time or again. The instance is *)
(* told the id of the stage, not the task id it was given.                 *)
CompleteStage(c, s, success) ==
    /\ ~ call[c].on /\ stage[s].status # "none"
    /\ stage' = [stage EXCEPT ![s].status = IF success THEN "COMPLETED" ELSE "FAILED"]
    /\ current' = current \ {s}
    /\ IF stage[s].at # NoInstance THEN CompleteTask(stage[s].at, s)
       ELSE UNCHANGED instanceVars
    /\ IF success
       THEN /\ call' = [call EXCEPT ![c] = [rest |-> NextStages[s], starting |-> 0, on |-> TRUE]]
            /\ completed' = completed \cup {s}
            /\ UNCHANGED status
       ELSE /\ status' = "FAILED"
            /\ UNCHANGED <<call, completed>>
    /\ UNCHANGED starts

(* Mutant: one finished source is enough. *)
AnyDependencyComplete(s) ==
    Sources[s] = {} \/ \E r \in Sources[s] : stage[r].status = "COMPLETED"

DependenciesComplete(s) == \A r \in Sources[s] : stage[r].status = "COMPLETED"

Task(s) == <<s, starts[s] + 1>>

(* _execute_stage for the next stage in turn: on an instance with room, on *)
(* a new one, or, when there are no resources for one, RuntimeError, which *)
(* ends the whole call. It never adds the stage to current_stages.         *)
NextStage(c) ==
    LET s == Head(call[c].rest) IN
    /\ call[c].on /\ call[c].rest # <<>> /\ call[c].starting = 0
    /\ \/ /\ ~ DependenciesComplete(s)
          /\ call' = [call EXCEPT ![c].rest = Tail(@)]
          /\ UNCHANGED <<instanceVars, stage, starts>>
       \/ /\ DependenciesComplete(s) /\ starts[s] < MaxStarts
          /\ starts' = [starts EXCEPT ![s] = @ + 1]
          /\ IF Candidates # {}
             THEN /\ AssignTask(Oldest, Task(s))
                  /\ stage' = [stage EXCEPT ![s] = [status |-> "RUNNING", at |-> Oldest]]
                  /\ call' = [call EXCEPT ![c].rest = Tail(@)]
             ELSE /\ stage' = [stage EXCEPT ![s].status = "RUNNING"]
                  /\ \/ \E i \in Instances : /\ BeginCreate(i)
                                             /\ call' = [call EXCEPT ![c].starting = i]
                     \/ /\ available < Quota
                        /\ call' = [call EXCEPT ![c] = Idle]
                        /\ UNCHANGED instanceVars
    /\ UNCHANGED <<status, current, completed>>

InstanceStarted(c) ==
    LET s == Head(call[c].rest)
        i == call[c].starting IN
    /\ i # 0
    /\ EndCreate(i, {<<s, starts[s]>>})
    /\ stage' = [stage EXCEPT ![s].at = i]
    /\ call' = [call EXCEPT ![c].rest = Tail(@), ![c].starting = 0]
    /\ UNCHANGED <<status, current, starts, completed>>

(* the caller is cancelled while it waits for the instance *)
CallCancelled(c) ==
    /\ call[c].starting # 0
    /\ CancelCreate(call[c].starting)
    /\ call' = [call EXCEPT ![c] = Idle]
    /\ UNCHANGED <<status, stage, current, starts, completed>>

(* the end of complete_stage: COMPLETED, whatever the status has become    *)
CallReturns(c) ==
    /\ call[c].on /\ call[c].rest = <<>>
    /\ status' = IF current = {} THEN "COMPLETED" ELSE status
    /\ call' = [call EXCEPT ![c] = Idle]
    /\ UNCHANGED <<instanceVars, stage, current, starts, completed>>

CancelExecution ==
    /\ status' = "CANCELLED"
    /\ UNCHANGED <<instanceVars, stage, current, call, starts, completed>>

DestroyInstance(i) == Destroy(i) /\ UNCHANGED orchestratorVars

UpdateStatus(i) == SetStatus(i, "ERROR") /\ UNCHANGED orchestratorVars

Next ==
    \/ \E c \in Callers :
          \/ \E s \in Stages, success \in BOOLEAN : CompleteStage(c, s, success)
          \/ NextStage(c) \/ InstanceStarted(c) \/ CallCancelled(c) \/ CallReturns(c)
    \/ CancelExecution
    \/ \E i \in Instances : DestroyInstance(i) \/ UpdateStatus(i)

TypeOK ==
    /\ status \in {"RUNNING", "COMPLETED", "FAILED", "CANCELLED"}
    /\ \A s \in Stages : stage[s].status \in {"none", "WAITING", "RUNNING", "COMPLETED", "FAILED"}
    /\ current \subseteq Stages /\ completed \subseteq Stages
    /\ available \in 0 .. Total

(* A stage starts only after every stage its inputs come from has been     *)
(* completed with success, whatever is completed, once or again, failed    *)
(* and cancelled while complete_stage waits for an instance.               *)
InputsReady == \A s \in Stages : starts[s] > 0 => Sources[s] \subseteq completed

(* An execution is COMPLETED only when none of its stages runs. The code   *)
(* does not keep this: only the entry stage is ever in current_stages.     *)
CompletedMeansDone ==
    status = "COMPLETED" => \A s \in Stages : stage[s].status # "RUNNING"
=============================================================================
