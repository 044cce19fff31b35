------------------------------- MODULE Recovery ------------------------------
(***************************************************************************)
(* core/stability above its checkpoints: execute_with_stability drives one *)
(* execution stage by stage through RecoveryManager's                      *)
(* execute_with_idempotency, and merges each output with                   *)
(* InformationPreserver. Other coroutines run operations under the same    *)
(* manager, clear its cache and report failures of the execution           *)
(* meanwhile.                                                              *)
(*                                                                         *)
(* External: the stage executor and the operations, which answer or raise. *)
(* Abstracted: an answer is the number of the run that gave it; a          *)
(* checkpoint is a context saved before (Stability says which). Of the     *)
(* context the merged outputs and the lineage are kept.                    *)
(***************************************************************************)
EXTENDS Naturals, FiniteSets, Functions

CONSTANTS
    Stages, First, Fields,
    Produces,            \* the fields the output of a stage produces
    Callers, Driver,     \* coroutines inside execute_with_idempotency
    None,
    MaxRetries,
    MaxRuns, MaxMerges, MaxClears, MaxFailures    \* bounds of the model

VARIABLES
    local,     \* execute_with_stability: its current_context, or None
    exec,      \* the ExecutionContext: [ctx, stage, status] or None
    transfer,  \* the driver in the save of transfer_to_stage: [ctx, next, lost] or None
    files,     \* the contexts handed to a save: their checkpoints may be there
    saved,     \* those whose save returned
    cache,     \* _idempotency_cache and _operation_results, always written together
    call,      \* per coroutine None or [op, attempt, asleep]
    answers,   \* history: per operation the answers given for it
    shared,    \* history: operations run by two calls at once, or cleared
    log,       \* _recovery_history: how many of each status
    aligned,   \* history: every output's updated_state named its next stage, and
               \*          restore_execution did not set another
    restored,  \* history: the context was replaced by a checkpoint
    runs, merges, clears

hist == <<answers, shared, aligned, restored>>
books == <<local, exec, transfer, files, saved>>
vars == <<books, cache, call, log, hist, runs, merges, clears>>

Everyone == Callers \cup {Driver}

(* an execution's stages are its operation ids *)
Ops == Stages

Fresh == [stage |-> First, status |-> "running",
          outputs |-> [s \in Stages |-> None], sources |-> [f \in Fields |-> None]]

Init ==
    /\ local = None /\ exec = None /\ transfer = None /\ files = {} /\ saved = {}
    /\ cache = [o \in Ops |-> None]
    /\ call = [c \in Everyone |-> None]
    /\ answers = [o \in Ops |-> {}] /\ shared = {}
    /\ log = [attempted |-> 0, success |-> 0, failed |-> 0]
    /\ aligned = TRUE /\ restored = FALSE
    /\ runs = 0 /\ merges = 0 /\ clears = 0

(* ------------------------- execute_with_idempotency -------------------- *)
Running(o) == {c \in Everyone : call[c] # None /\ call[c].op = o}

Answered(o, r) == answers' = [answers EXCEPT ![o] = @ \cup {r}]

(* the operation is not in the cache: its first attempt begins *)
Begin(c, o) ==
    /\ call' = [call EXCEPT ![c] = [op |-> o, attempt |-> 1, asleep |-> FALSE]]
    /\ shared' = IF Running(o) # {} THEN shared \cup {o} ELSE shared

(* Mutant: the answer is given and not kept. *)
Forgets(o, r) == cache

Keeps(o, r) == [cache EXCEPT ![o] = r]

(* the operation answered; r is this run of it *)
Succeeds(c) ==
    /\ call[c] # None /\ ~ call[c].asleep /\ runs < MaxRuns
    /\ runs' = runs + 1
    /\ cache' = Keeps(call[c].op, runs + 1)
    /\ Answered(call[c].op, runs + 1)
    /\ call' = [call EXCEPT ![c] = None]

(* it raised, and another attempt is left: the call sleeps *)
FailsOnce(c) ==
    /\ call[c] # None /\ ~ call[c].asleep /\ call[c].attempt < MaxRetries
    /\ call' = [call EXCEPT ![c].asleep = TRUE]
    /\ UNCHANGED <<books, cache, log, hist, runs, merges, clears>>

Retries(c) ==
    /\ call[c] # None /\ call[c].asleep
    /\ call' = [call EXCEPT ![c].asleep = FALSE, ![c].attempt = @ + 1]
    /\ UNCHANGED <<books, cache, log, hist, runs, merges, clears>>

(* it raised once too often *)
GivesUp(c) ==
    /\ call[c] # None /\ ~ call[c].asleep /\ call[c].attempt = MaxRetries
    /\ call' = [call EXCEPT ![c] = None]

(* Some other coroutine's call, from its beginning to its end *)
Ask(c, o) ==
    /\ call[c] = None
    /\ \/ cache[o] # None /\ Answered(o, cache[o]) /\ UNCHANGED <<call, shared>>
       \/ cache[o] = None /\ Begin(c, o) /\ UNCHANGED answers
    /\ UNCHANGED <<books, cache, log, aligned, restored, runs, merges, clears>>

AskSucceeds(c) ==
    /\ Succeeds(c)
    /\ UNCHANGED <<books, log, shared, aligned, restored, merges, clears>>

AskFails(c) ==
    /\ GivesUp(c)
    /\ UNCHANGED <<books, cache, log, hist, runs, merges, clears>>

(* clear_idempotency_cache for one operation *)
Clear(o) ==
    /\ clears < MaxClears /\ clears' = clears + 1
    /\ cache' = [cache EXCEPT ![o] = None] /\ shared' = shared \cup {o}
    /\ UNCHANGED <<books, call, log, answers, aligned, restored, runs, merges>>

(* ------------------------------ recovery ------------------------------- *)
(* _determine_strategy: what comes of a failure of each kind. A retry or a *)
(* transfer succeeds without a context; a backup raises, since             *)
(* get_checkpoint_history does not exist. The attempt and the outcome are  *)
(* both recorded.                                                          *)
Strategy(kind) ==
    CASE kind \in {"instance_crash", "unknown"} -> "checkpoint_restore"
      [] kind \in {"stage_execution_error", "timeout"} -> "idempotent_retry"
      [] kind \in {"data_corruption", "storage_error"} -> "backup_restore"
      [] kind = "network_error" -> "resume_transfer"

Recorded(outcome) == log' = [log EXCEPT !.attempted = @ + 1, ![outcome] = @ + 1]

(* _get_retry_count counts every record of the execution *)
RetryCount == log.attempted + log.success + log.failed

(* Recovered with the context of a checkpoint, without one, or not at all  *)
Goes(status) == UNCHANGED restored /\ exec' = [exec EXCEPT !.status = status]

Restored == /\ restored' = TRUE
            /\ \E ctx \in files : exec' = [exec EXCEPT !.ctx = ctx, !.status = "running"]

(* handle_failure of another coroutine: no await suspends it. A restore    *)
(* finds a checkpoint, none (a result without success), or half a file,    *)
(* which raises.                                                           *)
HandleFailure(kind) ==
    /\ exec # None /\ log.attempted < MaxFailures
    /\ CASE Strategy(kind) = "checkpoint_restore" ->
              \/ Recorded("success") /\ (Restored \/ Goes("failed"))
              \/ Recorded("failed") /\ Goes("recovering")
         [] Strategy(kind) = "backup_restore" -> Recorded("failed") /\ Goes("recovering")
         [] OTHER -> Recorded("success") /\ Goes("failed")
    /\ UNCHANGED <<local, transfer, files, saved, cache, call, answers, shared, aligned,
                   runs, merges, clears>>

(* restore_execution puts another ExecutionContext in the place of the     *)
(* service's: the transfer under way writes to the one it had              *)
RestoreExecution ==
    /\ exec # None
    /\ \E ctx \in files : exec' = [ctx |-> ctx, stage |-> ctx.stage, status |-> "running"]
    /\ transfer' = IF transfer = None THEN None ELSE [transfer EXCEPT !.lost = TRUE]
    /\ restored' = TRUE /\ aligned' = FALSE
    /\ UNCHANGED <<local, files, saved, cache, call, log, answers, shared, runs, merges, clears>>

(* ---------------------- execute_with_stability ------------------------- *)
StartExecution ==
    /\ local = None /\ exec = None
    /\ local' = Fresh /\ files' = {Fresh} /\ saved' = {Fresh}
    /\ exec' = [ctx |-> Fresh, stage |-> First, status |-> "running"]
    /\ UNCHANGED <<transfer, cache, call, log, hist, runs, merges, clears>>

(* What a stage answers: where the execution goes, which StageOutput has   *)
(* no field for and the executor's own class must have, and the state it   *)
(* leaves, if it says one                                                  *)
Updates == [stage : Stages, status : {"running", "completed"}]
Outputs == [next : Stages, updated : {None} \cup Updates]

(* InformationLineage after the output of a stage *)
Sources(ctx, stage) ==
    [f \in Fields |-> IF f \in Produces[stage] THEN stage ELSE ctx.sources[f]]

(* merge_stage_output: the output of the stage that was executed is filed  *)
(* under the id the service believes to be current                         *)
Merge(ctx, stage, executed, out) ==
    [stage |-> IF out.updated = None THEN ctx.stage ELSE out.updated.stage,
     status |-> IF out.updated = None THEN ctx.status ELSE out.updated.status,
     outputs |-> [ctx.outputs EXCEPT ![stage] = executed],
     sources |-> Sources(ctx, stage)]

Names(out) == out.updated # None /\ out.updated.stage = out.next

(* transfer_to_stage, up to its save: merged into the service's context    *)
BeginTransfer(executed, out) ==
    LET ctx == Merge(exec.ctx, exec.stage, executed, out) IN
    /\ merges < MaxMerges /\ merges' = merges + 1
    /\ transfer' = [ctx |-> ctx, next |-> out.next, lost |-> FALSE]
    /\ files' = files \cup {ctx}
    /\ aligned' = (aligned /\ Names(out))

(* and after it: what was merged is the service's context, and its stage   *)
(* the next                                                                *)
TransferReturns ==
    /\ transfer # None /\ transfer' = None
    /\ saved' = saved \cup {transfer.ctx} /\ local' = transfer.ctx
    /\ exec' = IF transfer.lost THEN exec
               ELSE [exec EXCEPT !.ctx = transfer.ctx, !.stage = transfer.next]
    /\ UNCHANGED <<files, cache, call, log, hist, runs, merges, clears>>

Looping == local # None /\ local.status # "completed" /\ call[Driver] = None /\ transfer = None

(* the stage of the driver's own context, answered from the cache or run *)
Replays ==
    /\ Looping /\ cache[local.stage] # None
    /\ Answered(local.stage, cache[local.stage])
    /\ UNCHANGED <<cache, call, runs>>

BeginStage ==
    /\ Looping /\ cache[local.stage] = None
    /\ Begin(Driver, local.stage)
    /\ UNCHANGED <<books, cache, log, answers, aligned, restored, runs, merges, clears>>

StageAnswers ==
    /\ Replays \/ Succeeds(Driver)
    /\ \E out \in Outputs : BeginTransfer(local.stage, out)
    /\ UNCHANGED <<local, exec, saved, log, shared, restored, clears>>

(* What ends the stage is reported as a failure of it. The retry succeeds  *)
(* without a context: the loop goes on with None, which raises, and the    *)
(* execution is completed as a failure.                                    *)
StageLost ==
    /\ Recorded("success")
    /\ exec' = [exec EXCEPT !.status = "failed"] /\ local' = None

(* An output without a next_stage, as StageOutput is, or one that cannot   *)
(* be merged or written as JSON: the answer stays in the cache.            *)
OutputUnfit ==
    /\ Replays \/ Succeeds(Driver)
    /\ StageLost
    /\ UNCHANGED <<transfer, files, saved, shared, aligned, restored, merges, clears>>

(* the file cannot be written *)
SaveFails ==
    /\ transfer # None /\ transfer' = None
    /\ StageLost
    /\ UNCHANGED <<files, saved, cache, call, hist, runs, merges, clears>>

StageFails ==
    /\ GivesUp(Driver)
    /\ StageLost
    /\ UNCHANGED <<transfer, files, saved, cache, hist, runs, merges, clears>>

(* complete_execution, after the loop; a save that raises makes it a       *)
(* failure                                                                 *)
Complete ==
    /\ local # None /\ local.status = "completed" /\ transfer = None
    /\ \E status \in {"completed", "failed"} : exec' = [exec EXCEPT !.status = status]
    /\ local' = None
    /\ UNCHANGED <<transfer, files, saved, cache, call, log, hist, runs, merges, clears>>

Next ==
    \/ \E c \in Callers : AskSucceeds(c) \/ AskFails(c) \/ \E o \in Ops : Ask(c, o)
    \/ \E c \in Everyone : FailsOnce(c) \/ Retries(c)
    \/ \E o \in Ops : Clear(o)
    \/ \E kind \in {"instance_crash", "timeout", "storage_error"} : HandleFailure(kind)
    \/ RestoreExecution
    \/ StartExecution \/ BeginStage \/ StageAnswers \/ TransferReturns
    \/ OutputUnfit \/ SaveFails \/ StageFails \/ Complete

Spec == Init /\ [][Next]_vars
-----------------------------------------------------------------------------
TypeOK ==
    /\ \A c \in Everyone : call[c] # None =>
          call[c].op \in Ops /\ call[c].attempt \in 1 .. MaxRetries
    /\ exec # None => exec.ctx \in files /\ exec.stage \in Stages
    /\ local # None => exec # None
    /\ RetryCount = 2 * log.attempted

(* An operation that no two calls ran at once and nobody cleared has one   *)
(* answer: whoever asks for it, and however often it failed before, gets   *)
(* the result of the same run (execute_with_idempotency).                  *)
OneAnswer ==
    \A o \in Ops \ shared : Cardinality(answers[o]) <= 1

(* While every output says in its updated_state where the execution goes   *)
(* on, and restore_execution did not move it elsewhere, an output is filed *)
(* under the stage that gave it, although the loop asks its own context    *)
(* for the stage and the merge asks the service (execute_with_stability,   *)
(* transfer_to_stage).                                                     *)
FiledWhereRun ==
    aligned => \A ctx \in files : \A s \in Stages : ctx.outputs[s] \in {None, s}

(* The lineage of a context names a source for every field of every output *)
(* in it, so its attenuation is 0, and only stages whose output is there   *)
(* and that produce the field (merge_stage_output,                         *)
(* _verify_lineage_complete, calculate_attenuation_rate).                  *)
LineageComplete(ctx) ==
    \A s \in Stages : ctx.outputs[s] # None =>
        \A f \in Produces[s] : ctx.sources[f] # None

LineageSound ==
    \A ctx \in files :
        /\ LineageComplete(ctx)
        /\ \A f \in Fields : ctx.sources[f] # None =>
              ctx.outputs[ctx.sources[f]] # None /\ f \in Produces[ctx.sources[f]]

(* The context of an execution that nobody restored holds an output of     *)
(* each stage that was filed in any checkpoint whose save returned,        *)
(* whatever failures are reported while a transfer is saved.               *)
NothingFiledLost ==
    exec # None /\ ~ restored =>
        \A ctx \in saved : \A s \in Stages :
            ctx.outputs[s] # None => exec.ctx.outputs[s] # None
=============================================================================
