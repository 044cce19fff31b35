--------------------------- MODULE EntropyRecords ---------------------------
(***************************************************************************)
(* core/governance: the books the control center keeps, and what is        *)
(* measured from the samples of entropy. They share no state.              *)
(***************************************************************************)
EXTENDS Integers, FiniteSetsExt, SequencesExt

-----------------------------------------------------------------------------
(* entropy_control.py: EntropyControlCenter keeps tasks with their         *)
(* reports, deliverables and ADRs, outputs indexed by topic, the inbox and *)
(* rework events, and derives from them its metrics, the violations of a   *)
(* task and the actions of a sweep. One caller at a time. Abstracted: days *)
(* are ticks; retrieval times, reports and texts are left out; DONE stands *)
(* for DONE and ARCHIVED, DOING for the other statuses.                    *)
CONSTANTS
    Tasks, Outputs, Topics, Items, Adrs, None,
    InboxTtl, ReworkWindow,
    MaxDays, MaxEdits       \* bounds of the model

VARIABLES
    tasks,      \* per task None or [status, path, deliverable, adrs]
    outputs,    \* per output None or [topic, truth, indexed]
    index,      \* topic -> the outputs registered under it
    inbox,      \* per item None or when it was created
    reworks,    \* times of rework events
    edits, day

Edited == edits < MaxEdits /\ edits' = edits + 1

BooksInit ==
    /\ tasks = [t \in Tasks |-> None] /\ outputs = [o \in Outputs |-> None]
    /\ index = [p \in Topics |-> {}] /\ inbox = [i \in Items |-> None]
    /\ reworks = {} /\ edits = 0 /\ day = 0

RegisterTask(t, path) ==
    /\ Edited /\ tasks[t] = None
    /\ tasks' = [tasks EXCEPT ![t] =
           [status |-> "draft", path |-> path, deliverable |-> FALSE, adrs |-> {}]]
    /\ UNCHANGED <<outputs, index, inbox, reworks, day>>

UpdateStatus(t, status) ==
    /\ Edited /\ tasks[t] # None
    /\ tasks' = [tasks EXCEPT ![t].status = status]
    /\ UNCHANGED <<outputs, index, inbox, reworks, day>>

(* a deliverable without a path leaves the task's *)
AttachDeliverable(t, path) ==
    /\ Edited /\ tasks[t] # None
    /\ tasks' = [tasks EXCEPT ![t].deliverable = TRUE, ![t].path = IF path THEN TRUE ELSE @]
    /\ UNCHANGED <<outputs, index, inbox, reworks, day>>

AddAdr(t, a) ==
    /\ Edited /\ tasks[t] # None
    /\ tasks' = [tasks EXCEPT ![t].adrs = @ \cup {a}]
    /\ UNCHANGED <<outputs, index, inbox, reworks, day>>

Indexed(o, topic) == [index EXCEPT ![topic] = @ \cup {o}]

(* Mutant: only the first output of a topic gets into its entry. *)
IndexedFirst(o, topic) == [index EXCEPT ![topic] = IF @ = {} THEN {o} ELSE @]

(* a record registered again replaces the old one, whose topic keeps it *)
RegisterOutput(o, topic) ==
    /\ Edited
    /\ outputs' = [outputs EXCEPT ![o] = [topic |-> topic, truth |-> TRUE, indexed |-> FALSE]]
    /\ index' = Indexed(o, topic)
    /\ UNCHANGED <<tasks, inbox, reworks, day>>

MarkOutputIndexed(o, value) ==
    /\ Edited /\ outputs[o] # None
    /\ outputs' = [outputs EXCEPT ![o].indexed = value]
    /\ UNCHANGED <<tasks, index, inbox, reworks, day>>

(* by any id, of an output or not *)
SupersedeOutput(o) ==
    /\ Edited /\ outputs[o] # None
    /\ outputs' = [outputs EXCEPT ![o].truth = FALSE]
    /\ UNCHANGED <<tasks, index, inbox, reworks, day>>

RegisterInboxItem(i) ==
    /\ Edited
    /\ inbox' = [inbox EXCEPT ![i] = day]
    /\ UNCHANGED <<tasks, outputs, index, reworks, day>>

ResolveInboxItem(i) ==
    /\ Edited
    /\ inbox' = [inbox EXCEPT ![i] = None]
    /\ UNCHANGED <<tasks, outputs, index, reworks, day>>

RecordRework ==
    /\ Edited
    /\ reworks' = reworks \cup {day}
    /\ UNCHANGED <<tasks, outputs, index, inbox, day>>

DayPasses ==
    /\ day < MaxDays /\ day' = day + 1
    /\ UNCHANGED <<tasks, outputs, index, inbox, reworks, edits>>

BooksNext ==
    \/ \E t \in Tasks :
          \/ \E path \in BOOLEAN : RegisterTask(t, path) \/ AttachDeliverable(t, path)
          \/ \E status \in {"doing", "done"} : UpdateStatus(t, status)
          \/ \E a \in Adrs : AddAdr(t, a)
    \/ \E o \in Outputs :
          \/ \E topic \in Topics : RegisterOutput(o, topic)
          \/ \E value \in BOOLEAN : MarkOutputIndexed(o, value)
          \/ SupersedeOutput(o)
    \/ \E i \in Items : RegisterInboxItem(i) \/ ResolveInboxItem(i)
    \/ RecordRework \/ DayPasses

(* compute_metrics *)
Metrics ==
    [stale      |-> Cardinality({i \in Items : inbox[i] # None /\ inbox[i] < day - InboxTtl}),
     unindexed  |-> Cardinality({o \in Outputs : outputs[o] # None /\ ~ outputs[o].indexed}),
     duplicates |-> Cardinality({p \in Topics :
                        Cardinality({o \in index[p] : outputs[o].truth}) > 1}),
     reworks    |-> Cardinality({w \in reworks : w >= day - ReworkWindow})]

(* validate_task *)
Violations(t) ==
    IF tasks[t].status # "done" THEN {}
    ELSE {v \in {"deliverable", "adr", "path"} :
             CASE v = "deliverable" -> ~ tasks[t].deliverable
               [] v = "adr" -> tasks[t].adrs = {}
               [] v = "path" -> ~ tasks[t].path}

(* plan_entropy_sweep *)
Plan ==
    (IF Metrics.stale > 0 THEN {"clear"} ELSE {})
    \cup (IF Metrics.unindexed > 0 THEN {"index"} ELSE {})
    \cup (IF Metrics.duplicates > 0 THEN {"merge"} ELSE {})
    \cup (IF Metrics.reworks > 0 THEN {"review"} ELSE {})
    \cup {t \in Tasks : tasks[t] # None /\ Violations(t) # {}}
-----------------------------------------------------------------------------
BooksTypeOK ==
    /\ \A t \in Tasks : tasks[t] # None =>
          tasks[t].status \in {"draft", "doing", "done"} /\ tasks[t].adrs \subseteq Adrs
    /\ \A p \in Topics : index[p] \subseteq {o \in Outputs : outputs[o] # None}

(* Whatever was registered again, moved to another topic or superseded, a  *)
(* sweep misses no duplicate: two outputs that both claim to be the truth  *)
(* of one topic make it plan their merge (_topic_index, compute_metrics,   *)
(* plan_entropy_sweep).                                                    *)
SweepMissesNothing ==
    (\E o, q \in Outputs :
        /\ o # q /\ outputs[o] # None /\ outputs[q] # None
        /\ outputs[o].topic = outputs[q].topic /\ outputs[o].truth /\ outputs[q].truth)
    => "merge" \in Plan

-----------------------------------------------------------------------------
(* entropy_v2: what is computed from the samples: entropy, totals and      *)
(* health (calculator.py), trends and their cache (monitor.py) and the     *)
(* attribution to sources (attribution.py), by threads that take the       *)
(* calculator's lock for each reading of the samples and no lock from one  *)
(* reading to the next. Abstracted: an hour is a tick, values are in       *)
(* tenths, and a half life is one tick. A sample of a level no metric has  *)
(* is not counted.                                                         *)
CONSTANTS
    Sources,
    Categories, CategoryOf,   \* source -> the category of its samples
    Weight,                   \* category -> threshold weight, in tenths
    Values, Threads,
    Window, Ttl,              \* trend_window_hours, _trend_cache_ttl
    Windows,                  \* the window_hours asked for; 0 is less than a tick
    MinTrend, MinCommon,      \* samples for a trend, for a correlation
    MaxSamples, Limit,        \* and the limit of get_samples
    MaxTime, MaxRecords, MaxCalls      \* bounds of the model

VARIABLES
    samples,     \* _samples: [n, at, source, value], the n-th recorded
    trends,      \* key -> None or the cached analysis, with its window and data
    call,        \* per thread
    profiles,    \* _source_profiles: source -> None or a profile
    attributing, \* the reader of the attributor's lock
    raised,      \* an analysis met a source without profile
    hypotheses,
    report,      \* the last one saved
    recorded, calls, now

Idle == [at |-> "idle"]

(* _trend_cache: by category and source; the window is no part of the key *)
Keys == [c : Categories, source : Sources \cup {None}]

MeasureInit ==
    /\ samples = <<>> /\ trends = [k \in Keys |-> None]
    /\ call = [t \in Threads |-> Idle]
    /\ profiles = [s \in Sources |-> None] /\ attributing = None /\ raised = FALSE
    /\ hypotheses = {} /\ report = None
    /\ recorded = 0 /\ calls = 0 /\ now = 0

Since(time) == SelectSeq(samples, LAMBDA x : x.at >= time)
Of(c, seq) == SelectSeq(seq, LAMBDA x : CategoryOf[x.source] = c)
By(s, seq) == SelectSeq(seq, LAMBDA x : x.source = s)
LastOf(seq, n) == SubSeq(seq, IF Len(seq) > n THEN Len(seq) - n + 1 ELSE 1, Len(seq))
Pruned(seq) == LastOf(seq, MaxSamples)
SumOf(field, seq) == FoldLeft(LAMBDA acc, x : acc + x[field], 0, seq)

RecordSample(s, v) ==
    /\ recorded < MaxRecords /\ recorded' = recorded + 1
    /\ samples' = Pruned(Append(samples, [n |-> recorded', at |-> now, source |-> s, value |-> v]))
    /\ UNCHANGED <<trends, call, profiles, attributing, raised, hypotheses, report, calls, now>>

Tick ==
    /\ now < MaxTime /\ now' = now + 1
    /\ UNCHANGED <<samples, trends, call, profiles, attributing, raised, hypotheses, report,
                   recorded, calls>>

(* ------------------------------ calculator ----------------------------- *)
(* exponential_decay, as a multiple of what is left at MaxTime *)
Decay(age) == 2 ^ (MaxTime - age)

(* weighted_entropy of a category: [sum, weight] *)
Entropy(c) ==
    LET seq == Of(c, samples)
        w(x) == Decay(now - x.at)
    IN [sum |-> FoldLeft(LAMBDA acc, x : acc + x.value * w(x), 0, seq),
        weight |-> FoldLeft(LAMBDA acc, x : acc + w(x), 0, seq)]

Value(e) == IF e.weight = 0 THEN 0 ELSE e.sum \div e.weight

(* a category without samples counts as 0, with its full weight *)
TotalEntropy ==
    LET weight == FoldFunction(+, 0, Weight)
        sum == FoldFunction(+, 0, [c \in Categories |-> Value(Entropy(c)) * Weight[c]])
    IN IF weight = 0 THEN 0 ELSE sum \div weight

HealthScore == IF TotalEntropy > 10 THEN 0 ELSE 10 - TotalEntropy

(* -------------------------------- trends ------------------------------- *)
(* analyze_trend reads the clock, then looks at the cache, then reads the  *)
(* samples, then stores what it computed under the time it read first; a   *)
(* caller (detect_rapid_changes) gives a source and a window, or neither   *)
AskTrend(t, key, window) ==
    /\ calls < MaxCalls /\ calls' = calls + 1
    /\ call[t] = Idle
    /\ call' = [call EXCEPT ![t] = [at |-> "lookup", key |-> key, window |-> window, now |-> now]]
    /\ UNCHANGED <<samples, trends, profiles, attributing, raised, hypotheses, report, recorded, now>>

LookupTrend(t) ==
    /\ call[t].at = "lookup"
    /\ LET hit == trends[call[t].key]
           fresh == hit # None /\ call[t].now - hit.at < Ttl
       IN call' = [call EXCEPT ![t] = IF fresh THEN Idle ELSE [@ EXCEPT !.at = "compute"]]
    /\ UNCHANGED <<samples, trends, profiles, attributing, raised, hypotheses, report, recorded,
                   calls, now>>

(* least squares over time and value: tenths an hour, as num / den *)
Slope(seq) ==
    LET n == Len(seq)
        T == SumOf("at", seq)
        V == SumOf("value", seq)
        TT == FoldLeft(LAMBDA acc, x : acc + x.at * x.at, 0, seq)
        TV == FoldLeft(LAMBDA acc, x : acc + x.at * x.value, 0, seq)
        den == n * TT - T * T
    IN [num |-> IF den = 0 THEN 0 ELSE n * TV - T * V, den |-> IF den = 0 THEN 1 ELSE den]

Direction(slope) ==
    IF 10 * slope.num > slope.den THEN "increasing"
    ELSE IF 10 * slope.num < 0 - slope.den THEN "decreasing" ELSE "stable"

(* what get_samples has for a key *)
Fits(x, key) == CategoryOf[x.source] = key.c /\ key.source \in {x.source, None}
Matching(key, seq) == SelectSeq(seq, LAMBDA x : Fits(x, key))

ComputeTrend(t) ==
    LET data == LastOf(Matching(call[t].key, Since(call[t].now - call[t].window)), Limit)
    IN  /\ call[t].at = "compute"
        /\ call' = [call EXCEPT ![t] = IF Len(data) < MinTrend THEN Idle
                                       ELSE [@ EXCEPT !.at = "store"] @@ [data |-> data]]
        /\ UNCHANGED <<samples, trends, profiles, attributing, raised, hypotheses, report, recorded,
                       calls, now>>

(* Mutant: the analysis is stamped when it is stored. *)
StampLate(t) == now

Stamp(t) == call[t].now

StoreTrend(t) ==
    /\ call[t].at = "store"
    /\ trends' = [trends EXCEPT ![call[t].key] =
           [at |-> Stamp(t), window |-> call[t].window, data |-> call[t].data,
            direction |-> Direction(Slope(call[t].data))]]
    /\ call' = [call EXCEPT ![t] = Idle]
    /\ UNCHANGED <<samples, profiles, attributing, raised, hypotheses, report, recorded, calls, now>>

(* ----------------------------- attribution ----------------------------- *)
(* a profile of what the last Window had; it is never removed, nor are the *)
(* sources that correlated once                                            *)
UpdateProfiles(t) ==
    LET seen == Since(now - Window)
        Profile(s) ==
            LET mine == By(s, seen)
                times == {mine[i].at : i \in DOMAIN mine}
                old == profiles[s]
            IN [count |-> Len(mine), total |-> SumOf("value", mine),
                rising |-> Slope(mine), last |-> Max(times),
                first |-> IF old = None THEN Min(times) ELSE Min(times \cup {old.first}),
                with |-> IF old = None THEN {} ELSE old.with]
    IN  /\ calls < MaxCalls /\ calls' = calls + 1
        /\ call[t] = Idle /\ attributing = None
        /\ attributing' = t
        /\ profiles' = [s \in Sources |-> IF By(s, seen) = <<>> THEN profiles[s] ELSE Profile(s)]
        /\ call' = [call EXCEPT ![t] = [at |-> "correlate"]]
        /\ UNCHANGED <<samples, trends, raised, hypotheses, report, recorded, now>>

(* by_source: the last value of each time; the correlation of two series   *)
(* is at least 0.7 either way                                              *)
Series(s, seen) ==
    LET mine == By(s, seen)
    IN [time \in {mine[i].at : i \in DOMAIN mine} |->
           mine[Max({i \in DOMAIN mine : mine[i].at = time})].value]

Correlated(f, g) ==
    LET common == DOMAIN f \cap DOMAIN g
        n == Cardinality(common)
        S(h) == FoldFunctionOnSet(+, 0, h, common)
        product(h, k) == [x \in common |-> h[x] * k[x]]
        co(h, k) == n * S(product(h, k)) - S(h) * S(k)
    IN /\ n >= MinCommon
       /\ co(f, f) # 0 /\ co(g, g) # 0
       /\ 100 * co(f, g) * co(f, g) >= 49 * co(f, f) * co(g, g)

(* both sources note each other *)
Noted(s, pairs) == {x \in Sources : {s, x} \in pairs}

(* Mutant: the first of the two alone notes the other. *)
NotedOnce(s, pairs) == {x \in Sources : {s, x} \in pairs /\ s = CHOOSE y \in {s, x} : TRUE}

(* a second reading: a source that is new since the first has no profile,  *)
(* and the KeyError ends the analysis                                      *)
Correlate(t) ==
    LET seen == Since(now - Window)
        present == {s \in Sources : By(s, seen) # <<>>}
        pairs == {{s, x} : s \in present, x \in present}
        good == {p \in pairs : Cardinality(p) = 2
                                 /\ \A s, x \in p : s # x => Correlated(Series(s, seen), Series(x, seen))}
        known == {p \in good : \A s \in p : profiles[s] # None}
    IN  /\ call[t].at = "correlate"
        /\ raised' = (raised \/ good # known)
        /\ \E done \in (IF good = known THEN {good} ELSE SUBSET known) :
              profiles' = [s \in Sources |-> IF profiles[s] = None THEN None
                                             ELSE [profiles[s] EXCEPT !.with = @ \cup Noted(s, done)]]
        /\ call' = [call EXCEPT ![t] = Idle] /\ attributing' = None
        /\ UNCHANGED <<samples, trends, hypotheses, report, recorded, calls, now>>

(* generate_hypotheses: of sources whose mean is high and that rise, stay  *)
(* very high or correlate with more than two others                        *)
GenerateHypotheses ==
    /\ attributing = None
    /\ hypotheses' = {s \in Sources :
           /\ profiles[s] # None
           /\ profiles[s].total >= 3 * profiles[s].count
           /\ \/ 2 * profiles[s].rising.num > profiles[s].rising.den
              \/ profiles[s].total > 8 * profiles[s].count
              \/ Cardinality(profiles[s].with) > 2}
    /\ calls < MaxCalls /\ calls' = calls + 1
    /\ UNCHANGED <<samples, trends, call, profiles, attributing, raised, report, recorded, now>>

(* get_report saves what it computed *)
SaveReport ==
    /\ calls < MaxCalls /\ calls' = calls + 1
    /\ report' = [total |-> TotalEntropy, health |-> HealthScore]
    /\ UNCHANGED <<samples, trends, call, profiles, attributing, raised, hypotheses, recorded, now>>

(* the monitor's readers and the attributor's share nothing but the samples *)
Collected == Tick \/ \E s \in Sources, v \in Values : RecordSample(s, v)

TrendNext ==
    \/ Collected
    \/ \E t \in Threads :
          \/ \E key \in Keys, window \in Windows : AskTrend(t, key, window)
          \/ LookupTrend(t) \/ ComputeTrend(t) \/ StoreTrend(t)

AttributionNext ==
    \/ Collected
    \/ \E t \in Threads : UpdateProfiles(t) \/ Correlate(t)
    \/ GenerateHypotheses \/ SaveReport

-----------------------------------------------------------------------------
MeasureTypeOK ==
    /\ Len(samples) <= MaxSamples
    /\ \A t \in Threads : call[t].at \in {"idle", "lookup", "compute", "store", "correlate"}
    /\ attributing = None \/ call[attributing].at = "correlate"
    /\ report # None => report.total \in 0..Max(Values) /\ report.health \in 0..10

(* However the analyses of several threads cross, a cached trend was       *)
(* computed from samples of its category and source only, within the       *)
(* window of the caller that computed it, which is no part of the key; of  *)
(* those recorded before the time it is stamped with and not pruned it     *)
(* misses none but older ones when it has as many as get_samples gives.    *)
(* And a steady rise or fall is called by its name (analyze_trend).        *)
TrendsHonest ==
    \A key \in Keys : trends[key] # None =>
       LET tr == trends[key]
           g == tr.data
           Steady(sign) == \A i \in 1 .. Len(g) - 1 :
                 g[i + 1].at > g[i].at
                   /\ sign * (g[i + 1].value - g[i].value) > 0
       IN /\ \A j \in DOMAIN g : Fits(g[j], key) /\ g[j].at >= tr.at - tr.window
          /\ \A i \in DOMAIN samples :
                samples[i].at < tr.at /\ samples[i].at >= tr.at - tr.window /\ Fits(samples[i], key)
                => \/ \E j \in DOMAIN g : g[j] = samples[i]
                   \/ Len(g) = Limit /\ \A j \in DOMAIN g : g[j].n > samples[i].n
          /\ Len(g) > 1 /\ Steady(1) => tr.direction = "increasing"
          /\ Len(g) > 1 /\ Steady(0 - 1) => tr.direction = "decreasing"

(* Until an analysis has failed between its two readings of the samples,   *)
(* correlation is mutual and only among sources with a profile             *)
(* (_update_source_profiles, _compute_correlations).                       *)
CorrelationMutual ==
    ~ raised => \A s, x \in Sources :
       profiles[s] # None /\ x \in profiles[s].with => profiles[x] # None /\ s \in profiles[x].with
=============================================================================
