------------------------------- MODULE Stability -----------------------------
(***************************************************************************)
(* core/stability: WorkflowStabilityService over CheckpointManager and     *)
(* RecoveryManager, for one execution. A checkpoint is written by the      *)
(* executor's threads while the calls of other coroutines go on: its file  *)
(* is absent first, then cut short, then whole, and the call learns of it  *)
(* later. The process may crash and be restarted over the same directory.  *)
(*                                                                         *)
(* Abstracted: the removals of one compaction are one step; of a context   *)
(* only the stages whose output it holds are kept, with those whose output *)
(* was read back from a file (reloaded).                                   *)
(***************************************************************************)
EXTENDS Naturals, Sequences, Functions, FiniteSets

CONSTANTS
    Stages, First,       \* stage ids and the first of them
    Rich,                \* the stages whose outputs have decisions or facts
    Updating,            \* those whose outputs have an updated_state
    Calls,               \* coroutines that may be inside the service at once
    None,
    MaxCheckpoints,      \* CheckpointManager's max_checkpoints
    MaxSaves, MaxTime, MaxCrashes    \* bounds of the model

VARIABLES
    exec,        \* _active_executions[id]: [ctx, stage, status] or None
    files,       \* the checkpoints directory: [id, at, ctx, whole]
    memory,      \* _checkpoints[id]: ids in the order their saves returned
    call,        \* per coroutine None or what it is waiting for
    overlapped,  \* history: a checkpoint was read back while a call was saving another
    saves, now, crashes

vars == <<exec, files, memory, call, overlapped, saves, now, crashes>>

Fresh == [done |-> {}, reloaded |-> {}, stage |-> First]

Init ==
    /\ exec = None /\ files = {} /\ memory = <<>>
    /\ call = [c \in Calls |-> None] /\ overlapped = FALSE
    /\ saves = 0 /\ now = 1 /\ crashes = 0

(* WorkflowContext.merge_stage_output: an output under the id of a stage   *)
(* replaces the earlier one; current_state only follows updated_state      *)
Merge(ctx, stage, target) ==
    [done |-> ctx.done \cup {stage},
     reloaded |-> ctx.reloaded \ {stage},
     stage |-> IF stage \in Updating THEN target ELSE ctx.stage]

(* AccumulatedKnowledge.from_dict: StageOutput( **v ) leaves its decisions *)
(* and facts dictionaries, on which to_dict() raises                       *)
FromDict(ctx) == [ctx EXCEPT !.reloaded = ctx.done]
Serialisable(ctx) == Rich \cap ctx.reloaded = {}

(* create_checkpoint up to its await: the file is left to a thread *)
BeginSave(c, op, ctx, target) ==
    /\ saves < MaxSaves /\ saves' = saves + 1
    /\ call' = [call EXCEPT ![c] = [op |-> op, id |-> saves + 1, at |-> now, ctx |-> ctx,
                                    target |-> target, current |-> TRUE]]

(* _write_file, in the executor: write_text opens the file ... *)
FileOpened(c) ==
    /\ call[c] # None /\ \A f \in files : f.id # call[c].id
    /\ files' = files \cup {[id |-> call[c].id, at |-> call[c].at, ctx |-> call[c].ctx,
                             whole |-> FALSE]}
    /\ UNCHANGED <<exec, memory, call, overlapped, saves, now, crashes>>

(* ... and has written it *)
FileWritten(c) ==
    /\ call[c] # None /\ \E f \in files : f.id = call[c].id /\ ~ f.whole
    /\ files' = {IF f.id = call[c].id THEN [f EXCEPT !.whole = TRUE] ELSE f : f \in files}
    /\ UNCHANGED <<exec, memory, call, overlapped, saves, now, crashes>>

(* Mutant: a compaction keeps the oldest entries. *)
OldestKept(ids) ==
    IF Len(ids) <= MaxCheckpoints THEN ids ELSE SubSeq(ids, 1, MaxCheckpoints \div 2)

(* _maybe_compact_checkpoints *)
Compacted(ids) ==
    IF Len(ids) <= MaxCheckpoints THEN ids
    ELSE SubSeq(ids, Len(ids) - MaxCheckpoints \div 2 + 1, Len(ids))

(* the save returned: the entry is appended, the list compacted, the call  *)
(* goes on. The checkpoint of the start goes like any other: its trigger   *)
(* is context.py's and is compared with checkpoint.py's.                   *)
SaveReturns(c) ==
    LET ids == Append(memory, call[c].id)
        gone == Range(ids) \ Range(Compacted(ids))
    IN /\ \E f \in files : f.id = call[c].id /\ f.whole
       /\ memory' = Compacted(ids)
       /\ files' = {f \in files : f.id \notin gone}
       /\ call' = [call EXCEPT ![c] = None]

(* ------------------------------ the service ---------------------------- *)
StartExecution(c) ==
    /\ call[c] = None /\ exec = None /\ files = {} /\ crashes = 0
    /\ \A d \in Calls : call[d] = None
    /\ BeginSave(c, "start", Fresh, First)
    /\ UNCHANGED <<exec, files, memory, overlapped, now, crashes>>

Started(c) ==
    /\ call[c] # None /\ call[c].op = "start"
    /\ SaveReturns(c)
    /\ exec' = [ctx |-> call[c].ctx, stage |-> First, status |-> "running"]
    /\ overlapped' = FALSE
    /\ UNCHANGED <<saves, now, crashes>>

(* transfer_to_stage up to its await: the context is the one of now *)
TransferToStage(c, target) ==
    /\ call[c] = None /\ exec # None
    /\ LET ctx == Merge(exec.ctx, exec.stage, target) IN
       /\ Serialisable(ctx)          \* else it raises, nothing changed
       /\ BeginSave(c, "transfer", ctx, target)
    /\ UNCHANGED <<exec, files, memory, overlapped, now, crashes>>

(* the record found before the await is written, even if it was replaced *)
Transferred(c) ==
    /\ call[c] # None /\ call[c].op = "transfer"
    /\ SaveReturns(c)
    /\ exec' = IF call[c].current THEN [exec EXCEPT !.ctx = call[c].ctx, !.stage = call[c].target]
               ELSE exec
    /\ overlapped' = (overlapped /\ ~ call[c].current)
    /\ UNCHANGED <<saves, now, crashes>>

(* complete_stage, create_periodic_checkpoint: the context they save is    *)
(* the one they found; the merged one of complete_stage is not used        *)
SaveOnly(c) ==
    /\ call[c] = None /\ exec # None /\ Serialisable(exec.ctx)
    /\ BeginSave(c, "save", exec.ctx, First)
    /\ UNCHANGED <<exec, files, memory, overlapped, now, crashes>>

CompleteStage(c) == SaveOnly(c)
CreatePeriodicCheckpoint(c) == SaveOnly(c)

Saved(c) ==
    /\ call[c] # None /\ call[c].op = "save"
    /\ SaveReturns(c)
    /\ UNCHANGED <<exec, overlapped, saves, now, crashes>>

(* the status is set first, also when the checkpoint cannot be made *)
CompleteExecution(c, status) ==
    /\ call[c] = None /\ exec # None
    /\ exec' = [exec EXCEPT !.status = status]
    /\ \/ /\ Serialisable(exec.ctx)
          /\ BeginSave(c, "save", exec.ctx, First)
       \/ ~ Serialisable(exec.ctx) /\ UNCHANGED <<call, saves>>
    /\ UNCHANGED <<files, memory, overlapped, now, crashes>>

(* get_latest_checkpoint: sorted by whole seconds, ties in directory order; *)
(* raises on a torn file, and may on one that a compaction removes         *)
Latest == {f \in files : \A g \in files : g.at <= f.at}
Readable == \A f \in files : f.whole
Saving == \E c \in Calls : call[c] # None

(* handle_failure, by _determine_strategy: a crash restores a checkpoint;  *)
(* a failed stage, a timeout or the network ("stage") succeed without a    *)
(* context, which the service takes for a failure; "storage" raises:       *)
(* get_checkpoint_history does not exist. The record keeps its stage. No   *)
(* await suspends it.                                                      *)
HandleFailure(kind) ==
    /\ exec # None
    /\ \/ /\ kind = "crash" /\ Readable
          /\ \E f \in Latest :
                exec' = [exec EXCEPT !.ctx = FromDict(f.ctx), !.status = "running"]
          /\ overlapped' = Saving
       \/ /\ (kind = "crash" /\ (~ Readable \/ Saving)) \/ kind = "storage"
          /\ exec' = [exec EXCEPT !.status = "recovering"]
          /\ UNCHANGED overlapped
       \/ /\ kind = "stage"
          /\ exec' = [exec EXCEPT !.status = "failed"]
          /\ UNCHANGED overlapped
    /\ UNCHANGED <<files, memory, call, saves, now, crashes>>

(* raises, and changes nothing, on a missing or a torn checkpoint *)
RestoreExecution ==
    /\ files # {} /\ Readable
    /\ \E f \in Latest :
          exec' = [ctx |-> FromDict(f.ctx), stage |-> f.ctx.stage, status |-> "running"]
    /\ call' = [c \in Calls |-> IF call[c] = None THEN None ELSE [call[c] EXCEPT !.current = FALSE]]
    /\ overlapped' = Saving
    /\ UNCHANGED <<files, memory, saves, now, crashes>>

(* the process dies; what was being written stays absent or torn *)
Crash ==
    /\ crashes < MaxCrashes /\ crashes' = crashes + 1
    /\ exec' = None /\ memory' = <<>> /\ call' = [c \in Calls |-> None]
    /\ overlapped' = FALSE
    /\ UNCHANGED <<files, saves, now>>

SecondPasses ==
    /\ now < MaxTime /\ now' = now + 1
    /\ UNCHANGED <<exec, files, memory, call, overlapped, saves, crashes>>

Next ==
    \/ \E c \in Calls :
          \/ FileOpened(c) \/ FileWritten(c)
          \/ StartExecution(c) \/ Started(c) \/ Transferred(c) \/ Saved(c)
          \/ \E t \in Stages : TransferToStage(c, t)
          \/ CompleteStage(c) \/ CreatePeriodicCheckpoint(c)
          \/ CompleteExecution(c, "completed")
    \/ \E k \in {"crash", "stage", "storage"} : HandleFailure(k)
    \/ RestoreExecution \/ Crash \/ SecondPasses

Spec == Init /\ [][Next]_vars

TypeOK ==
    /\ exec # None =>
          /\ exec.ctx.reloaded \subseteq exec.ctx.done
          /\ exec.stage \in Stages /\ exec.ctx.stage \in Stages
          /\ exec.status \in {"running", "recovering", "completed", "failed"}
    /\ Len(memory) <= MaxCheckpoints /\ IsInjective(memory)
    /\ \A f, g \in files : f.id = g.id => f = g

(* Whatever the active context holds can be read back from one whole file: *)
(* the checkpoint is made before the context is replaced, and compactions, *)
(* recoveries and slower calls leave one that covers it; unless it was     *)
(* read back itself while a call was saving another, whose compaction may  *)
(* remove the checkpoint it came from.                                     *)
ContextOnDisk ==
    exec # None /\ ~ overlapped => \E f \in files : f.whole /\ exec.ctx.done \subseteq f.ctx.done
=============================================================================
