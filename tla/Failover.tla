------------------------------ MODULE Failover ------------------------------
(***************************************************************************)
(* Failover between model instances (core/model_hub/failover): one circuit *)
(* breaker per instance, the health checker's periodic task, and callers   *)
(* inside execute_with_failover.  Everything runs on one event loop, so a  *)
(* step is the code between two awaits: the operation, the retry delay,    *)
(* the health check handler and the pause between two passes.  The         *)
(* breaker's lock makes the same steps atomic for threads.                 *)
(*                                                                         *)
(* Counters are compared with their threshold and nothing else, so they    *)
(* saturate there; the age of the last failure saturates at the breaker's  *)
(* timeout, which also stands for "no failure yet" (_should_attempt_reset  *)
(* answers True to both).                                                  *)
(***************************************************************************)
EXTENDS Integers, Sequences, SequencesExt

CONSTANTS
    Instances,          \* instance ids
    Callers,            \* coroutines that may be in execute_with_failover
    Initial,            \* ids registered at the start, in that order
    Fallback,           \* Fallback[i]: fallback_instances given for i
    FailureThreshold,   \* circuit_failure_threshold
    SuccessThreshold,   \* success_threshold of a breaker
    HalfOpenMax,        \* half_open_max_calls
    Timeout,            \* circuit_timeout, in ticks
    MaxRetry,           \* max_retry_attempts
    SickAfter,          \* the health checker's failure_threshold
    WellAfter,          \* the health checker's recovery_threshold
    Commands,           \* bound: the operator commands a run issues
    MaxAdmin            \* bound: how many of them

ASSUME FailoverAssumption ==
    /\ Initial \in Seq(Instances)
    /\ Fallback \in [Instances -> Seq(Instances)]
    /\ FailureThreshold \in Nat \ {0} /\ SuccessThreshold \in Nat \ {0}
    /\ HalfOpenMax \in Nat /\ Timeout \in Nat /\ MaxRetry \in Nat \ {0}
    /\ SickAfter \in Nat \ {0} /\ WellAfter \in Nat \ {0}
    /\ Commands \subseteq {"register", "unregister", "force", "checker"}
    /\ MaxAdmin \in Nat

VARIABLES
    registered,   \* keys of _instances, in insertion order
    breaker,      \* _circuit_breakers
    status,       \* _health_status
    call,         \* per caller: place in execute_with_failover
    checker,      \* place of _run_periodic_checks
    admin         \* operator steps so far

vars == <<registered, breaker, status, call, checker, admin>>

Registered == {registered[k] : k \in DOMAIN registered}
AtMost(n, max) == IF n < max THEN n ELSE max

(* History: the last n results of a log, newest last. *)
Remember(log, result, n) ==
    LET longer == Append(log, result)
    IN  IF Len(longer) > n THEN Tail(longer) ELSE longer
LastAre(log, n, result) ==
    Len(log) >= n /\ \A k \in Len(log) - n + 1..Len(log) : log[k] = result
(***************************************************************************)
(* The circuit breaker.  granted and log are history: how often            *)
(* can_execute said yes since the breaker went half open, and the latest   *)
(* results recorded with it.                                               *)
(***************************************************************************)
LogLength == IF FailureThreshold > SuccessThreshold
             THEN FailureThreshold ELSE SuccessThreshold

NewBreaker == [state |-> "closed", fails |-> 0, succs |-> 0, age |-> Timeout,
               probes |-> 0, granted |-> 0, log |-> <<>>]

Opened(b) == [b EXCEPT !.state = "open", !.granted = 0]
Closed(b) == [b EXCEPT !.state = "closed", !.fails = 0, !.succs = 0, !.granted = 0]
HalfOpened(b) == [b EXCEPT !.state = "half_open", !.probes = 0, !.granted = 1]

CanExecute(b) ==
    \/ b.state = "closed"
    \/ b.state = "open" /\ b.age = Timeout
    \/ b.state = "half_open" /\ b.probes < HalfOpenMax

\* Mutant: a call through a half-open breaker is not counted.
GrantedFreely(b) ==
    CASE b.state = "closed" -> b
      [] b.state = "open" -> HalfOpened(b)
      [] b.state = "half_open" -> [b EXCEPT !.granted = @ + 1]

(* What a can_execute that answers True leaves behind; a refusal leaves no *)
(* trace.  The call that half-opens the breaker takes no slot.             *)
Granted(b) ==
    CASE b.state = "closed" -> b
      [] b.state = "open" -> HalfOpened(b)
      [] b.state = "half_open" -> [b EXCEPT !.probes = @ + 1, !.granted = @ + 1]

\* Mutant: a success does not end the run of failures.
RecordSuccessOnly(b) ==
    LET c == [b EXCEPT !.succs = AtMost(@ + 1, SuccessThreshold),
                       !.log = Remember(@, TRUE, LogLength)]
    IN  IF c.state = "half_open" /\ c.succs >= SuccessThreshold
        THEN Closed(c) ELSE c

RecordSuccess(b) ==
    LET c == [b EXCEPT !.fails = 0,
                       !.succs = AtMost(@ + 1, SuccessThreshold),
                       !.log = Remember(@, TRUE, LogLength)]
    IN  IF c.state = "half_open" /\ c.succs >= SuccessThreshold
        THEN Closed(c) ELSE c

\* Mutant: the threshold has to be passed, not reached.
RecordFailureLater(b) ==
    LET c == [b EXCEPT !.succs = 0,
                       !.fails = AtMost(@ + 1, FailureThreshold),
                       !.age = 0,
                       !.log = Remember(@, FALSE, LogLength)]
    IN  IF \/ c.state = "closed" /\ b.fails >= FailureThreshold
           \/ c.state = "half_open"
        THEN Opened(c) ELSE c

RecordFailure(b) ==
    LET c == [b EXCEPT !.succs = 0,
                       !.fails = AtMost(@ + 1, FailureThreshold),
                       !.age = 0,
                       !.log = Remember(@, FALSE, LogLength)]
    IN  IF \/ c.state = "closed" /\ c.fails >= FailureThreshold
           \/ c.state = "half_open"
        THEN Opened(c) ELSE c

Older(b) == [b EXCEPT !.age = AtMost(@ + 1, Timeout)]
-----------------------------------------------------------------------------
(***************************************************************************)
(* Health.  log is history: the latest results of the checks that began    *)
(* under the present registration.                                         *)
(***************************************************************************)
HealthLog == IF SickAfter > WellAfter THEN SickAfter ELSE WellAfter

NewStatus == [healthy |-> TRUE, fails |-> 0, succs |-> 0, log |-> <<>>]

UpdateStatus(s, success) ==
    LET fails == IF success THEN 0 ELSE AtMost(s.fails + 1, SickAfter)
        succs == IF success THEN AtMost(s.succs + 1, WellAfter) ELSE 0
    IN  [healthy |-> IF s.healthy THEN fails < SickAfter ELSE succs >= WellAfter,
         fails |-> fails, succs |-> succs,
         log |-> Remember(s.log, success, HealthLog)]

(***************************************************************************)
(* is_available, asked of the breakers bs.  An instance that is not        *)
(* registered has neither status nor breaker and is available, as a new    *)
(* one is.  Being asked takes a slot of a half-open breaker.               *)
(***************************************************************************)
Available(bs, i) == status[i].healthy /\ CanExecute(bs[i])
Asked(bs, i) == IF Available(bs, i) THEN [bs EXCEPT ![i] = Granted(@)] ELSE bs

(* get_fallback: the first available instance, asking in the configured     *)
(* order and then in the order of registration; 0 or 1 ids.                 *)
GetFallback(i) ==
    LET configured == IF i \in Registered THEN Fallback[i] ELSE <<>>
        candidates == configured \o SelectSeq(registered, LAMBDA j : j # i)
        available == SelectSeq(candidates, LAMBDA j : Available(breaker, j))
    IN  IF available = <<>> THEN <<>> ELSE <<Head(available)>>
-----------------------------------------------------------------------------
Idle == [pc |-> "idle", todo |-> <<>>, at |-> <<>>, retry |-> 0]
Rest(s, k) == SubSeq(s, k + 1, Len(s))

(* The loop over instances_to_try: unavailable ones are skipped, and the    *)
(* operation starts for the first that is available.  With none left the    *)
(* call raises.                                                             *)
TryNext(c, bs, todo) ==
    LET k == SelectInSeq(todo, LAMBDA i : Available(bs, i))
    IN  IF k = 0
        THEN breaker' = bs /\ call' = [call EXCEPT ![c] = Idle]
        ELSE /\ breaker' = Asked(bs, todo[k])
             /\ call' = [call EXCEPT ![c] =
                    [pc |-> "op", todo |-> Rest(todo, k), at |-> <<todo[k]>>,
                     retry |-> 0]]

(* execute_with_failover(i) up to its first await.  The fallback is looked  *)
(* for first, whether or not it will be needed.                             *)
StartCall(c, i) ==
    /\ call[c].pc = "idle"
    /\ LET fallback == GetFallback(i)
           asked == IF fallback = <<>> THEN breaker ELSE Asked(breaker, Head(fallback))
       IN  TryNext(c, asked, <<i>> \o fallback)
    /\ UNCHANGED <<registered, status, checker, admin>>

(* The breakers once i's has become b by a result, if it still has one. *)
Recorded(i, b) ==
    IF i \in Registered THEN [breaker EXCEPT ![i] = b] ELSE breaker

OpSucceeds(c) ==
    /\ call[c].pc = "op"
    /\ LET i == Head(call[c].at)
       IN  breaker' = Recorded(i, RecordSuccess(breaker[i]))
    /\ call' = [call EXCEPT ![c] = Idle]
    /\ UNCHANGED <<registered, status, checker, admin>>

(* A failure is recorded and retried after a delay; after the last retry    *)
(* the next instance has its turn.                                          *)
OpFails(c) ==
    LET i == Head(call[c].at)
        failed == Recorded(i, RecordFailure(breaker[i]))
    IN  /\ call[c].pc = "op"
        /\ IF call[c].retry < MaxRetry - 1
           THEN /\ breaker' = failed
                /\ call' = [call EXCEPT ![c].pc = "delay"]
           ELSE TryNext(c, failed, call[c].todo)
        /\ UNCHANGED <<registered, status, checker, admin>>

\* Mutant: retries are not counted.
DelayOverAgain(c) ==
    /\ call[c].pc = "delay"
    /\ call' = [call EXCEPT ![c].pc = "op"]
    /\ UNCHANGED <<registered, breaker, status, checker, admin>>

(* The breaker is not asked again before a retry. *)
DelayOver(c) ==
    /\ call[c].pc = "delay"
    /\ call' = [call EXCEPT ![c].pc = "op", ![c].retry = @ + 1]
    /\ UNCHANGED <<registered, breaker, status, checker, admin>>

(* The caller's task is cancelled: CancelledError is no Exception, so       *)
(* nothing is recorded.                                                     *)
Cancelled(c) ==
    /\ call[c].pc \in {"op", "delay"}
    /\ call' = [call EXCEPT ![c] = Idle]
    /\ UNCHANGED <<registered, breaker, status, checker, admin>>

(* get_available_instances and get_stats ask every instance. *)
AskAll ==
    /\ breaker' = [i \in Instances |->
            IF i \in Registered THEN Asked(breaker, i)[i] ELSE breaker[i]]
    /\ UNCHANGED <<registered, status, call, checker, admin>>

Tick ==
    /\ \E i \in Instances : breaker[i].age < Timeout
    /\ breaker' = [i \in Instances |-> Older(breaker[i])]
    /\ UNCHANGED <<registered, status, call, checker, admin>>
-----------------------------------------------------------------------------
Off == [pc |-> "off", todo |-> <<>>, at |-> <<>>, current |-> FALSE]
Waiting == [Off EXCEPT !.pc = "waiting"]

(* check_all over the ids it copied: one without a handler any more gets a *)
(* failed result and no status; the first other has its handler called.    *)
CheckNext(todo) ==
    LET k == SelectInSeq(todo, LAMBDA i : i \in Registered)
    IN  checker' = IF k = 0 THEN Waiting
                   ELSE [pc |-> "checking", todo |-> Rest(todo, k),
                         at |-> <<todo[k]>>, current |-> TRUE]

BeginPass ==
    /\ checker.pc = "waiting"
    /\ registered # <<>>
    /\ CheckNext(registered)
    /\ UNCHANGED <<registered, breaker, status, call, admin>>

\* Mutant: the status is looked up by its id when the check ends.
StatusById(success) ==
    LET i == Head(checker.at)
        updated == UpdateStatus(status[i], success)
    IN  IF i \notin Registered THEN status
        ELSE [status EXCEPT ![i] = [updated EXCEPT !.log =
                IF checker.current THEN @ ELSE status[i].log]]

(* The status object the check works on: the one it took when it began,    *)
(* which is no longer in the table once the id was unregistered.           *)
StatusAfter(success) ==
    IF checker.current
    THEN [status EXCEPT ![Head(checker.at)] = UpdateStatus(@, success)]
    ELSE status

CheckEnds(success) ==
    /\ checker.pc = "checking"
    /\ status' = StatusAfter(success)
    /\ CheckNext(checker.todo)
    /\ UNCHANGED <<registered, breaker, call, admin>>

\* Mutant: a handler is waited for without a timeout.
CheckWaits == FALSE

(* asyncio.wait_for stops waiting for a handler that does not answer. *)
CheckTimesOut == CheckEnds(FALSE)
-----------------------------------------------------------------------------
OperatorStep(command) ==
    command \in Commands /\ admin < MaxAdmin /\ admin' = admin + 1

(* A known id keeps its status and its place and gets a new breaker. *)
RegisterInstance(i) ==
    /\ OperatorStep("register")
    /\ registered' = IF i \in Registered THEN registered ELSE Append(registered, i)
    /\ breaker' = [breaker EXCEPT ![i] = NewBreaker]
    /\ UNCHANGED <<status, call, checker>>

UnregisterInstance(i) ==
    /\ OperatorStep("unregister")
    /\ i \in Registered
    /\ registered' = SelectSeq(registered, LAMBDA j : j # i)
    /\ breaker' = [breaker EXCEPT ![i] = NewBreaker]
    /\ status' = [status EXCEPT ![i] = NewStatus]
    /\ checker' = [checker EXCEPT !.current = @ /\ checker.at # <<i>>]
    /\ UNCHANGED call

(* force_open, force_close and reset of a breaker.  No timestamp of a      *)
(* failure goes with a forced opening.                                     *)
Forced(i, b) ==
    /\ OperatorStep("force")
    /\ i \in Registered
    /\ breaker' = [breaker EXCEPT ![i] = b]
    /\ UNCHANGED <<registered, status, call, checker>>

ForceOpen(i) == Forced(i, Opened(breaker[i]))
ForceClose(i) == Forced(i, Closed(breaker[i]))
Reset(i) == Forced(i, NewBreaker)

StartChecker ==
    /\ OperatorStep("checker")
    /\ checker.pc = "off"
    /\ checker' = Waiting
    /\ UNCHANGED <<registered, breaker, status, call>>

(* The task is cancelled wherever it is; a check under way is dropped. *)
StopChecker ==
    /\ OperatorStep("checker")
    /\ checker.pc # "off"
    /\ checker' = Off
    /\ UNCHANGED <<registered, breaker, status, call>>
-----------------------------------------------------------------------------
Init ==
    /\ registered = Initial
    /\ breaker = [i \in Instances |-> NewBreaker]
    /\ status = [i \in Instances |-> NewStatus]
    /\ call = [c \in Callers |-> Idle]
    /\ checker = Off
    /\ admin = 0

Operator ==
    \/ \E i \in Instances : RegisterInstance(i) \/ UnregisterInstance(i)
    \/ \E i \in Instances : ForceOpen(i) \/ ForceClose(i) \/ Reset(i)
    \/ StartChecker \/ StopChecker

Calls(c) ==
    \/ \E i \in Instances : StartCall(c, i)
    \/ OpSucceeds(c) \/ OpFails(c) \/ DelayOver(c) \/ Cancelled(c)

Checks == BeginPass \/ \E success \in BOOLEAN : CheckEnds(success)

Next == (\E c \in Callers : Calls(c)) \/ Checks \/ AskAll \/ Tick \/ Operator

Spec == Init /\ [][Next]_vars

(***************************************************************************)
(* The event loop runs every ready coroutine; an operation ends, one way   *)
(* or the other; a handler need not, and wait_for ends the wait.           *)
(***************************************************************************)
LoopFairness ==
    /\ \A c \in Callers :
        WF_vars(OpSucceeds(c) \/ OpFails(c)) /\ WF_vars(DelayOver(c))
    /\ WF_vars(BeginPass) /\ WF_vars(CheckTimesOut) /\ WF_vars(Tick)

FairSpec == Spec /\ LoopFairness

-----------------------------------------------------------------------------
(* Counters stay within their thresholds, a closed breaker below the one    *)
(* that opens it and a healthy instance below the one that makes it sick    *)
(* (CircuitBreaker, HealthStatus, the locals of execute_with_failover).     *)
BreakerType ==
    [state : {"closed", "open", "half_open"}, fails : 0..FailureThreshold,
     succs : 0..SuccessThreshold, age : 0..Timeout, probes : 0..HalfOpenMax,
     granted : Nat, log : Seq(BOOLEAN)]

StatusType ==
    [healthy : BOOLEAN, fails : 0..SickAfter, succs : 0..WellAfter,
     log : Seq(BOOLEAN)]

CallType ==
    [pc : {"idle", "op", "delay"}, todo : Seq(Instances), at : Seq(Instances),
     retry : 0..MaxRetry - 1]

CheckerType ==
    [pc : {"off", "waiting", "checking"}, todo : Seq(Instances),
     at : Seq(Instances), current : BOOLEAN]

TypeOK ==
    /\ registered \in Seq(Instances)
    /\ breaker \in [Instances -> BreakerType]
    /\ status \in [Instances -> StatusType]
    /\ call \in [Callers -> CallType]
    /\ checker \in CheckerType
    /\ admin \in 0..MaxAdmin
    /\ \A i \in Instances :
        /\ breaker[i].state = "closed" => breaker[i].fails < FailureThreshold
        /\ status[i].healthy => status[i].fails < SickAfter

(* A half-open breaker lets at most half_open_max_calls calls through after *)
(* the one that half-opened it, however many callers ask at once.           *)
ProbesBounded ==
    \A i \in Instances : breaker[i].granted <= HalfOpenMax + 1

(* A breaker moves only as the results recorded with it say, whichever      *)
(* callers recorded them and in whatever order: it opens on a run of        *)
(* failures, half-opens once the timeout has passed since the latest of     *)
(* them, opens again on one more, and closes on a run of successes; only an *)
(* operator moves it otherwise (can_execute, record_success and _failure).  *)
BreakerMoves(b, c) ==
    CASE b.state = "closed" ->
            c.state = "open" /\ LastAre(c.log, FailureThreshold, FALSE)
      [] b.state = "open" ->
            c.state = "half_open" /\ b.age = Timeout
      [] b.state = "half_open" ->
            \/ c.state = "open" /\ LastAre(c.log, 1, FALSE)
            \/ c.state = "closed" /\ LastAre(c.log, SuccessThreshold, TRUE)

BreakerFollowsResults ==
    [][admin' = admin => \A i \in Instances :
        \/ breaker'[i].state = breaker[i].state
        \/ BreakerMoves(breaker[i], breaker'[i])]_vars

(* The health of an instance changes only after a run of checks that all    *)
(* began under its present registration: the late answer of a check of an   *)
(* earlier registration does not count (check, _update_status).             *)
HealthFollowsChecks ==
    [][admin' = admin => \A i \in Instances :
        \/ status'[i].healthy = status[i].healthy
        \/ ~status'[i].healthy /\ LastAre(status'[i].log, SickAfter, FALSE)
        \/ status'[i].healthy /\ LastAre(status'[i].log, WellAfter, TRUE)]_vars

(* execute_with_failover ends: retries and fallbacks are finite, whatever   *)
(* the other callers, the checks and the operator do meanwhile.             *)
CallsEnd == \A c \in Callers : call[c].pc # "idle" ~> call[c].pc = "idle"

(* While the checker runs, every registered instance is checked again and   *)
(* again, even if handlers hang and instances come and go in mid-pass       *)
(* (_run_periodic_checks, check_all).                                       *)
ChecksGoOn ==
    \A i \in Instances :
        i \in Registered /\ checker.pc # "off" ~>
            i \notin Registered \/ checker.pc = "off" \/ checker.at = <<i>>

=============================================================================
