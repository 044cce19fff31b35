---------------------------- MODULE LearningQueue ---------------------------
(***************************************************************************)
(* core/error_learning/learning_queue.py: tasks in a bounded priority      *)
(* queue, worker threads that run a handler on them, retries, and stop()   *)
(* with one sentinel per worker. _tasks is guarded by _lock; the queue has *)
(* its own lock and blocks when it is full.                                *)
(***************************************************************************)
EXTENDS Naturals, FiniteSets

CONSTANTS
    Tasks,        \* ids in the order of created_at, numbers
    Urgent,       \* the tasks with the better priority
    Workers,      \* slots for worker threads; start() uses NumWorkers free ones
    NumWorkers, MaxSize, MaxRetries,
    MaxStops,     \* bound of the model: calls of stop()
    Nobody        \* _lock is free

VARIABLES
    task,         \* _tasks: [status, retries], status "absent" when it is not there
    submitting,   \* where the submit() of each task stands
    queue,        \* ids in _pending_queue
    sentinels,    \* (99, 0, None) entries in it, after every task
    worker,       \* [at, id] of each worker thread
    running,
    stopping,     \* where stop() stands
    left,         \* sentinels it has still to put
    lock,         \* the worker that holds _lock across a blocking put
    calls,        \* ghost: handler calls of each task
    late,         \* ghost: tasks that were more than PENDING when submit() set QUEUED
    stops

vars == <<task, submitting, queue, sentinels, worker, running, stopping, left, lock,
          calls, late, stops>>

Absent == [status |-> "absent", retries |-> 0, ended |-> FALSE]
Off == [at |-> "off", id |-> 0]
Idle == [at |-> "get", id |-> 0]

Init ==
    /\ task = [t \in Tasks |-> Absent]
    /\ submitting = [t \in Tasks |-> "new"]
    /\ queue = {} /\ sentinels = 0
    /\ worker = [w \in Workers |-> Off]
    /\ running = FALSE /\ stopping = "no" /\ left = 0 /\ lock = Nobody
    /\ calls = [t \in Tasks |-> 0] /\ late = {} /\ stops = 0

Room == Cardinality(queue) + sentinels < MaxSize

(* submit: the task and its index entries under the lock ... *)
Submit(t) ==
    /\ submitting[t] = "new" /\ lock = Nobody
    /\ task' = [task EXCEPT ![t].status = "PENDING"]
    /\ submitting' = [submitting EXCEPT ![t] = "put"]
    /\ UNCHANGED <<queue, sentinels, worker, running, stopping, left, lock, calls, late, stops>>

(* ... then the put, which waits for room ... *)
Enqueue(t) ==
    /\ submitting[t] = "put" /\ Room
    /\ queue' = queue \cup {t}
    /\ submitting' = [submitting EXCEPT ![t] = "mark"]
    /\ UNCHANGED <<task, sentinels, worker, running, stopping, left, lock, calls, late, stops>>

(* ... then task.status = QUEUED with no lock, whatever the task became *)
MarkQueued(t) ==
    /\ submitting[t] = "mark"
    /\ submitting' = [submitting EXCEPT ![t] = "returned"]
    /\ late' = IF task[t].status = "PENDING" THEN late ELSE late \cup {t}
    /\ task' = IF task[t].status = "absent" THEN task
               ELSE [task EXCEPT ![t].status = "QUEUED"]
    /\ UNCHANGED <<queue, sentinels, worker, running, stopping, left, lock, calls, stops>>

First(t) ==
    \A u \in queue \ {t} :
        \/ t \in Urgent /\ u \notin Urgent
        \/ (t \in Urgent <=> u \in Urgent) /\ t < u

(* while self._running: the check after every turn of the loop *)
Loop == IF running THEN Idle ELSE Off

(* get(timeout=1): the best entry, or queue.Empty *)
Take(w) ==
    /\ worker[w].at = "get"
    /\ \/ \E t \in queue :
              /\ First(t)
              /\ queue' = queue \ {t}
              /\ worker' = [worker EXCEPT ![w] = [at |-> "taken", id |-> t]]
              /\ UNCHANGED sentinels
       \/ /\ queue = {} /\ sentinels > 0
          /\ sentinels' = sentinels - 1
          /\ worker' = [worker EXCEPT ![w] = Off]
          /\ UNCHANGED queue
       \/ /\ queue = {} /\ sentinels = 0 /\ ~ running
          /\ worker' = [worker EXCEPT ![w] = Off]
          /\ UNCHANGED <<queue, sentinels>>
    /\ UNCHANGED <<task, submitting, running, stopping, left, lock, calls, late, stops>>

(* _process_task: drop a task that is gone or cancelled, start any other *)
Begin(w) ==
    LET t == worker[w].id IN
    /\ worker[w].at = "taken" /\ lock = Nobody
    /\ IF task[t].status \in {"absent", "CANCELLED"}
       THEN /\ worker' = [worker EXCEPT ![w] = Loop]
            /\ UNCHANGED <<task, calls>>
       ELSE /\ worker' = [worker EXCEPT ![w].at = "handler"]
            /\ task' = [task EXCEPT ![t].status = "PROCESSING"]
            /\ calls' = [calls EXCEPT ![t] = @ + 1]
    /\ UNCHANGED <<submitting, queue, sentinels, running, stopping, left, lock, late, stops>>

Complete(w) ==
    LET t == worker[w].id IN
    /\ worker[w].at = "handler" /\ lock = Nobody
    /\ task' = [task EXCEPT ![t].status = "COMPLETED", ![t].ended = TRUE]
    /\ worker' = [worker EXCEPT ![w] = Loop]
    /\ UNCHANGED <<submitting, queue, sentinels, running, stopping, left, lock, calls, late, stops>>

(* Mutant: one attempt too many. *)
RetriesOneMore(r) == r <= MaxRetries

(* Whether a failed attempt is followed by another *)
Retries(r) == r < MaxRetries

(* The handler raised: back in the queue, or FAILED. The put is made while *)
(* the lock is held, and waits there when the queue is full.               *)
Raise(w) ==
    LET t == worker[w].id IN
    /\ worker[w].at = "handler" /\ lock = Nobody
    /\ IF Retries(task[t].retries + 1)
       THEN /\ task' = [task EXCEPT ![t].status = "QUEUED", ![t].retries = @ + 1]
            /\ lock' = w
            /\ worker' = [worker EXCEPT ![w].at = "retry"]
       ELSE /\ task' = [task EXCEPT ![t].status = "FAILED", ![t].retries = @ + 1,
                                   ![t].ended = TRUE]
            /\ worker' = [worker EXCEPT ![w] = Loop]
            /\ UNCHANGED lock
    /\ UNCHANGED <<submitting, queue, sentinels, running, stopping, left, calls, late, stops>>

(* Mutant: nothing goes back in the queue of a stopped service. *)
RequeueIfRunning(w) ==
    /\ worker[w].at = "retry" /\ Room
    /\ queue' = IF running THEN queue \cup {worker[w].id} ELSE queue
    /\ lock' = Nobody
    /\ worker' = [worker EXCEPT ![w] = Loop]
    /\ UNCHANGED <<task, submitting, sentinels, running, stopping, left, calls, late, stops>>

Requeue(w) ==
    /\ worker[w].at = "retry" /\ Room
    /\ queue' = queue \cup {worker[w].id}
    /\ lock' = Nobody
    /\ worker' = [worker EXCEPT ![w] = Loop]
    /\ UNCHANGED <<task, submitting, sentinels, running, stopping, left, calls, late, stops>>

Cancel(t) ==
    /\ lock = Nobody /\ task[t].status \in {"PENDING", "QUEUED"}
    /\ task' = [task EXCEPT ![t].status = "CANCELLED"]
    /\ UNCHANGED <<submitting, queue, sentinels, worker, running, stopping, left, lock,
                   calls, late, stops>>

(* cleanup_completed: only tasks with a completed_at, so never one that    *)
(* was cancelled before it ran; the age is left open.                      *)
Cleanup(t) ==
    /\ lock = Nobody /\ task[t].status \in {"COMPLETED", "FAILED", "CANCELLED"} /\ task[t].ended
    /\ task' = [task EXCEPT ![t] = Absent]
    /\ UNCHANGED <<submitting, queue, sentinels, worker, running, stopping, left, lock,
                   calls, late, stops>>

Start ==
    /\ ~ running /\ stopping = "no"
    /\ \E ws \in SUBSET {w \in Workers : worker[w].at = "off"} :
          /\ Cardinality(ws) = NumWorkers
          /\ worker' = [w \in Workers |-> IF w \in ws THEN Idle ELSE worker[w]]
    /\ running' = TRUE
    /\ UNCHANGED <<task, submitting, queue, sentinels, stopping, left, lock, calls, late, stops>>

(* stop: the flag, one blocking put per worker, then the joins, which may  *)
(* give up after 5 s each. One caller controls start and stop.             *)
Stop ==
    /\ stopping = "no" /\ stops < MaxStops
    /\ running' = FALSE /\ stopping' = "put" /\ left' = NumWorkers /\ stops' = stops + 1
    /\ UNCHANGED <<task, submitting, queue, sentinels, worker, lock, calls, late>>

PutSentinel ==
    /\ stopping = "put" /\ left > 0 /\ Room
    /\ sentinels' = sentinels + 1 /\ left' = left - 1
    /\ UNCHANGED <<task, submitting, queue, worker, running, stopping, lock, calls, late, stops>>

Join ==
    /\ stopping = "put" /\ left = 0
    /\ stopping' = "no"
    /\ UNCHANGED <<task, submitting, queue, sentinels, worker, running, left, lock, calls, late, stops>>

Step(w) == Take(w) \/ Begin(w) \/ Complete(w) \/ Raise(w) \/ Requeue(w)

Next ==
    \/ \E t \in Tasks : Submit(t) \/ Enqueue(t) \/ MarkQueued(t) \/ Cancel(t) \/ Cleanup(t)
    \/ \E w \in Workers : Step(w)
    \/ Start \/ Stop \/ PutSentinel \/ Join

TypeOK ==
    /\ task \in [Tasks -> [status : {"absent", "PENDING", "QUEUED", "PROCESSING", "COMPLETED",
                                    "FAILED", "CANCELLED"},
                           retries : 0 .. MaxRetries, ended : BOOLEAN]]
    /\ Cardinality(queue) + sentinels \in 0 .. MaxSize
    /\ lock \in Workers \cup {Nobody}

(* The handler sees a task max_retries times at most, whatever submit(),   *)
(* cancel_task, stop and restart do between the attempts.                  *)
AttemptsBounded == \A t \in Tasks : calls[t] <= MaxRetries

(* A QUEUED task is in the queue or with a worker, so some worker will see *)
(* it, across stop and start too. The only others are those whose submit() *)
(* wrote QUEUED over a later status.                                       *)
QueuedIsReachable ==
    \A t \in Tasks \ late :
        task[t].status = "QUEUED" =>
            \/ t \in queue
            \/ \E w \in Workers : worker[w] \in [at : {"taken", "retry"}, id : {t}]
=============================================================================
