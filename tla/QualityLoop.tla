------------------------------ MODULE QualityLoop ---------------------------
(***************************************************************************)
(* core/quality_feedback: FeedbackLoop (feedback_loop.py), OfflineBenchmark *)
(* (offline_benchmark.py) and QualityEvaluator (evaluator.py), each with   *)
(* its own lock and used by several threads. Feedback, Benchmark and       *)
(* Evaluation are the next-state relations of their own variables.         *)
(*                                                                         *)
(* Abstracted: comments, ratings and texts; a test case either passes or   *)
(* fails with its executor or evaluator; component names have no ":".      *)
(***************************************************************************)
EXTENDS Integers, FiniteSets, FiniteSetsExt, SequencesExt

CONSTANTS
    Threads, Components, Operations, Handled, None,
    Ratings,              \* that users give
    Limit, Days,          \* of get_entries_by_component and aggregate
    Recent,               \* runs a regression report looks at
    Metrics, Levels,      \* metric names; values and thresholds
    Lower,                \* the metrics of which less is better: latency..., error_rate
    MaxEntries, MaxTime, MaxCases, MaxRuns, MaxEvaluations    \* bounds of the model

VARIABLES
    entries,      \* n-th feedback: [component, operation, type, at, action]
    index,        \* "component:operation" -> numbers of entries
    submitting,   \* per thread: the entry whose handler is to run
    cases,        \* number of cases of the suite
    runs,         \* finished runs: [baseline, started, component, total, passed, expected]
    running,      \* per thread None or the run under way
    thresholds, evaluations,
    evaluating,   \* per thread None or the evaluation under way; history: since
    now

feedbackVars == <<entries, index, submitting>>
benchmarkVars == <<cases, runs, running>>
evaluationVars == <<thresholds, evaluations, evaluating>>
vars == <<feedbackVars, benchmarkVars, evaluationVars, now>>

Init ==
    /\ entries = <<>> /\ index = [k \in Components \X Operations |-> <<>>]
    /\ submitting = [t \in Threads |-> None]
    /\ cases = 0 /\ runs = <<>> /\ running = [t \in Threads |-> None]
    /\ thresholds = [m \in Metrics |-> 0]
    /\ evaluations = <<>> /\ evaluating = [t \in Threads |-> None]
    /\ now = 0

Tick == now < MaxTime /\ now' = now + 1

(* ------------------------------- feedback ------------------------------ *)
Submit(t, c, o, type) ==
    LET n == Len(entries) + 1
    IN  /\ submitting[t] = None /\ n <= MaxEntries
        /\ entries' = Append(entries, [component |-> c, operation |-> o, type |-> type,
                                       at |-> now, action |-> None])
        /\ index' = [index EXCEPT ![<<c, o>>] = Append(@, n)]
        /\ submitting' = [submitting EXCEPT ![t] = n]
        /\ UNCHANGED now

TypeOf(rating) ==
    IF rating >= 4 THEN "positive" ELSE IF rating >= 3 THEN "neutral" ELSE "negative"
SubmitUserFeedback(t, c, o) == \E rating \in Ratings : Submit(t, c, o, TypeOf(rating))
SubmitCorrection(t, c, o) == Submit(t, c, o, "correction")

(* _process_feedback, without the lock: a component may have a handler,    *)
(* and the handler may raise                                               *)
ProcessFeedback(t) ==
    /\ submitting[t] # None
    /\ LET n == submitting[t]
       IN entries' \in {entries} \cup
             (IF entries[n].component \in Handled THEN {[entries EXCEPT ![n].action = "handler"]} ELSE {})
    /\ submitting' = [submitting EXCEPT ![t] = None]
    /\ UNCHANGED <<index, now>>

MarkProcessed(n) ==
    /\ entries' = [entries EXCEPT ![n].action = "marked"]
    /\ UNCHANGED <<index, submitting, now>>

(* newest first, and then the first Limit of them; entries of one instant  *)
(* keep the order of the index                                             *)
OfComponent(c) ==
    LET ids == UNION {ToSet(index[<<c, o>>]) : o \in Operations}
    IN SetToSortSeq(ids, LAMBDA x, y : entries[x].at > entries[y].at
                                         \/ (entries[x].at = entries[y].at /\ x < y))
Newest(seq) == SubSeq(seq, 1, IF Len(seq) < Limit THEN Len(seq) ELSE Limit)

(* Mutant: the limit keeps the oldest. *)
Oldest(seq) == SubSeq(seq, IF Len(seq) < Limit THEN 1 ELSE Len(seq) - Limit + 1, Len(seq))

Aggregate(c) == {n \in ToSet(Newest(OfComponent(c))) : entries[n].at >= now - Days}

Feedback ==
    /\ \/ \E t \in Threads :
             \/ \E c \in Components, o \in Operations :
                   SubmitUserFeedback(t, c, o) \/ SubmitCorrection(t, c, o)
             \/ ProcessFeedback(t)
       \/ \E n \in DOMAIN entries : MarkProcessed(n)
       \/ Tick /\ UNCHANGED feedbackVars
    /\ UNCHANGED <<benchmarkVars, evaluationVars>>

(* ------------------------------ benchmarks ----------------------------- *)
AddTestCase ==
    /\ cases < MaxCases /\ cases' = cases + 1
    /\ UNCHANGED <<runs, running, now>>

StartRun(t, c) ==
    /\ running[t] = None
    /\ Len(runs) + Cardinality({u \in Threads : running[u] # None}) < MaxRuns
    /\ running' = [running EXCEPT ![t] = [component |-> c, started |-> now, at |-> 0,
                                          total |-> 0, passed |-> 0, failed |-> 0,
                                          expected |-> cases]]
    /\ UNCHANGED <<cases, runs, now>>

(* add_result *)
WithResult(run, passed) ==
    [run EXCEPT !.passed = IF passed THEN @ + 1 ELSE @,
                !.failed = IF passed THEN @ ELSE @ + 1,
                !.total = @ + 1]

(* Mutant: a case that raised leaves no result. *)
RunCaseOrSkip(t, passed) ==
    /\ running[t] # None /\ running[t].at < cases
    /\ running' = [running EXCEPT ![t] =
           IF passed THEN WithResult([@ EXCEPT !.at = @ + 1], TRUE) ELSE [@ EXCEPT !.at = @ + 1]]
    /\ UNCHANGED <<cases, runs, now>>

(* the loop goes over the suite as it is now; an executor or evaluator     *)
(* that raises has failed its case                                         *)
RunCase(t, passed) ==
    /\ running[t] # None /\ running[t].at < cases
    /\ running' = [running EXCEPT ![t] = WithResult([@ EXCEPT !.at = @ + 1], passed)]
    /\ UNCHANGED <<cases, runs, now>>

FinishRun(t) ==
    /\ running[t] # None /\ running[t].at >= cases
    /\ runs' = Append(runs, running[t])
    /\ running' = [running EXCEPT ![t] = None]
    /\ UNCHANGED <<cases, now>>

(* pass_rate of a run without cases is 0 *)
Worse(r, b) ==
    IF r.total = 0 THEN b.passed > 0 ELSE r.passed * b.total < b.passed * r.total

(* get_regression_report: the newest runs, the baseline's place among them *)
RegressionReport(b) ==
    LET mine == {r \in DOMAIN runs : runs[r].component = runs[b].component}
        newest == SetToSortSeq(mine, LAMBDA x, y : runs[x].started > runs[y].started
                                                     \/ (runs[x].started = runs[y].started /\ x < y))
        recent == ToSet(SubSeq(newest, 1, IF Len(newest) < Recent THEN Len(newest) ELSE Recent))
    IN {r \in recent \ {b} : Worse(runs[r], runs[b])}

Benchmark ==
    /\ \/ AddTestCase
       \/ \E t \in Threads :
             \/ \E c \in Components : StartRun(t, c)
             \/ \E passed \in BOOLEAN : RunCase(t, passed)
             \/ FinishRun(t)
       \/ Tick /\ UNCHANGED benchmarkVars
    /\ UNCHANGED <<feedbackVars, evaluationVars>>

(* ------------------------------ evaluations ---------------------------- *)
(* history: an evaluation under way remembers the thresholds there were    *)
SetThreshold(m, v) ==
    /\ thresholds' = [thresholds EXCEPT ![m] = v]
    /\ evaluating' = [t \in Threads |-> IF evaluating[t] = None THEN None
                                        ELSE [evaluating[t] EXCEPT !.since[m] = @ \cup {v}]]
    /\ UNCHANGED <<evaluations, now>>

StartEvaluation(t, names) ==
    /\ evaluating[t] = None
    /\ Len(evaluations) + Cardinality({u \in Threads : evaluating[u] # None}) < MaxEvaluations
    /\ evaluating' = [evaluating EXCEPT ![t] = [todo |-> names, metrics |-> {},
                                             since |-> [m \in Metrics |-> {thresholds[m]}]]]
    /\ UNCHANGED <<thresholds, evaluations, now>>

(* the verdict evaluate reaches and hands to EvaluationMetric *)
Meant(m, value, raised) ==
    ~ raised /\ IF m \in Lower THEN value <= thresholds[m] ELSE value >= thresholds[m]

(* EvaluationMetric.__post_init__ has the last word on passed, for every   *)
(* metric, whatever was handed to it: value >= threshold                   *)
Metric(m, value, raised) ==
    [name |-> m, value |-> value, threshold |-> thresholds[m], raised |-> raised,
     meant |-> Meant(m, value, raised), passed |-> value >= thresholds[m]]

(* Mutant: the error of an evaluator does not count against the metric. *)
MetricForgiving(m, value, raised) ==
    [name |-> m, value |-> value, threshold |-> thresholds[m], raised |-> raised,
     meant |-> Meant(m, value, raised), passed |-> raised \/ value >= thresholds[m]]

EvaluateMetric(t, m, value, raised) ==
    /\ evaluating[t] # None /\ m \in evaluating[t].todo
    /\ raised => value = 0
    /\ evaluating' = [evaluating EXCEPT ![t].todo = @ \ {m},
                                        ![t].metrics = @ \cup {Metric(m, value, raised)}]
    /\ UNCHANGED <<thresholds, evaluations, now>>

(* calculate_overall_score returns before it looks, without metrics *)
OverallScore(metrics) ==
    [sum |-> MapThenSumSet(LAMBDA m : m.value, metrics), weight |-> Cardinality(metrics)]
Passed(metrics) == \A m \in metrics : m.passed

FinishEvaluation(t) ==
    /\ evaluating[t] # None /\ evaluating[t].todo = {}
    /\ evaluations' = Append(evaluations,
           [metrics |-> evaluating[t].metrics, since |-> evaluating[t].since,
            score |-> OverallScore(evaluating[t].metrics),
            passed |-> Passed(evaluating[t].metrics)])
    /\ evaluating' = [evaluating EXCEPT ![t] = None]
    /\ UNCHANGED <<thresholds, now>>

Evaluation ==
    /\ \/ \E m \in Metrics, v \in Levels : SetThreshold(m, v)
       \/ \E t \in Threads :
             \/ \E names \in SUBSET Metrics : StartEvaluation(t, names)
             \/ \E m \in Metrics, v \in Levels, r \in BOOLEAN : EvaluateMetric(t, m, v, r)
             \/ FinishEvaluation(t)
    /\ UNCHANGED <<feedbackVars, benchmarkVars>>

Next == Feedback \/ Benchmark \/ Evaluation

TypeOK ==
    /\ \A n \in DOMAIN entries :
          /\ entries[n].type \in {"positive", "neutral", "negative", "correction"}
          /\ entries[n].at \in 0 .. now /\ entries[n].action \in {None, "handler", "marked"}
    /\ \A k \in DOMAIN index : ToSet(index[k]) \subseteq DOMAIN entries
    /\ \A t \in Threads : /\ submitting[t] \in DOMAIN entries \cup {None}
                          /\ running[t] # None => running[t].at <= cases
                          /\ evaluating[t] # None => evaluating[t].todo \subseteq Metrics
    /\ thresholds \in [Metrics -> Levels]
-----------------------------------------------------------------------------
(* An aggregation of a component counts every feedback of its period as    *)
(* long as they are no more than Limit, and the newest Limit of them else, *)
(* whatever threads submit; each entry is in the index once (submit,       *)
(* get_entries_by_component, aggregate).                                   *)
AggregatesNewest ==
    \A c \in Components :
       LET due == {n \in DOMAIN entries : entries[n].component = c /\ entries[n].at >= now - Days}
       IN /\ Cardinality(Aggregate(c)) = (IF Cardinality(due) < Limit THEN Cardinality(due) ELSE Limit)
          /\ \A n \in due \ Aggregate(c), m \in Aggregate(c) : entries[n].at <= entries[m].at

(* A finished benchmark has one result for every case, those added to the  *)
(* suite while it ran included, and its totals add up, so that a run in    *)
(* which nothing failed is never reported as a regression (run_benchmark,  *)
(* add_result, get_regression_report).                                     *)
RunsAddUp ==
    /\ \A r \in DOMAIN runs :
          /\ runs[r].total = runs[r].at /\ runs[r].total >= runs[r].expected
          /\ runs[r].passed + runs[r].failed = runs[r].total
    /\ \A b \in DOMAIN runs : \A r \in RegressionReport(b) :
          runs[r].total = 0 \/ runs[r].failed > 0

(* An evaluation passes if every value reached a threshold that was in     *)
(* force while it ran, and fails if one stayed below such a threshold;     *)
(* this is what happens for latencies, error rates and evaluators that     *)
(* raised (value 0) too, and not what evaluate works out for them. So an   *)
(* evaluation passes that it meant to fail only if one of these is among   *)
(* its metrics, the raised one with a threshold of 0 or less, and fails    *)
(* against what it meant only over a metric of which less is better        *)
(* (evaluate, EvaluationMetric.__post_init__, set_threshold).              *)
EvaluationsSound ==
    \A e \in DOMAIN evaluations :
        LET ev == evaluations[e]
            meant == \A m \in ev.metrics : m.meant
        IN  /\ ev.passed => \A m \in ev.metrics : \E v \in ev.since[m.name] : m.value >= v
            /\ ~ ev.passed => \E m \in ev.metrics : \E v \in ev.since[m.name] : m.value < v
            /\ ev.passed /\ ~ meant => \E m \in ev.metrics :
                  m.name \in Lower \/ (m.raised /\ \E v \in ev.since[m.name] : v <= 0)
            /\ ~ ev.passed /\ meant => \E m \in ev.metrics : m.name \in Lower
=============================================================================
