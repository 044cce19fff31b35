----------------------------- MODULE ErrorRecords ---------------------------
(***************************************************************************)
(* core/error_learning's records: ErrorPatternRegistry (error_registry.py) *)
(* and AntiPatternDetector (anti_pattern.py), which go over the patterns   *)
(* of a dict without its lock, and FailureAnalyzer (failure_analyzer.py),  *)
(* whose readers take no lock at all. Match is the next-state relation of  *)
(* a registry or a detector (kind says which), Analyze the analyzer's.     *)
(*                                                                         *)
(* Abstracted: a message is what it matches; component names are model     *)
(* values; a list of the index is the set of its numbers, which rise;      *)
(* listeners, which are called inside try.                                 *)
(***************************************************************************)
EXTENDS Integers, FiniteSets, Sequences

CONSTANTS
    Threads, Messages, Components, None,
    Common,            \* what each of the first patterns matches, in order
    Registrable,       \* what a registered pattern may match
    Retention,         \* retention_hours
    Window,            \* hours of a report
    MaxPatterns, MaxScans, MaxTime, MaxEvents, MaxReads   \* bounds of the model

VARIABLES
    kind,          \* "errors" or "smells": whose patterns these are
    patterns,      \* _patterns: [matches, count, first, last, components]
    scan,          \* per thread: None or the record_error() or detect() under way
    records,       \* _instances or _detections: [pattern, known, message, component, at, closed]
    broken,        \* scans that ended with a RuntimeError
    log,           \* every failure recorded: [component, at]
    events,        \* _events: the numbers still there
    index,         \* _component_index: component -> the numbers of its list, {} for no entry
    cleaning,      \* None or the cleanup_old_events() under way
    reader,        \* per thread: None or the get_events_by_component() under way
    answers, report, now

patternVars == <<kind, patterns, scan, records, broken>>
failureVars == <<log, events, index, cleaning, reader, answers, report>>
vars == <<patternVars, failureVars, now>>

NewPattern(m) == [matches |-> m, count |-> 0, first |-> None, last |-> None, components |-> {}]

(* _initialize_common_patterns of the registry ... *)
CommonErrors == [i \in DOMAIN Common |-> NewPattern(Common[i])]

(* ... and of the detector, whose patterns have symptoms and remediations  *)
(* but no detection rule, so they match nothing                            *)
CommonSmells == [i \in DOMAIN Common |-> NewPattern({})]

CommonPatterns(k) == IF k = "errors" THEN CommonErrors ELSE CommonSmells

Init ==
    /\ kind \in {"errors", "smells"}
    /\ patterns = CommonPatterns(kind)
    /\ scan = [t \in Threads |-> None] /\ records = <<>> /\ broken = 0
    /\ log = <<>> /\ events = {} /\ index = [c \in Components |-> {}]
    /\ cleaning = None /\ reader = [t \in Threads |-> None] /\ answers = {} /\ report = None
    /\ now = 0

Tick == now < MaxTime /\ now' = now + 1

(* ------------------------------- patterns ------------------------------ *)
RegisterPattern(m) ==
    /\ Len(patterns) < MaxPatterns
    /\ patterns' = Append(patterns, NewPattern(m))
    /\ UNCHANGED <<kind, scan, records, broken, now>>

Scans == Len(records) + broken + Cardinality({t \in Threads : scan[t] # None})

StartScan(t, m, c) ==
    /\ scan[t] = None /\ Scans < MaxScans
    /\ scan' = [scan EXCEPT ![t] = [message |-> m, component |-> c, at |-> 0,
                                    known |-> Len(patterns), found |-> FALSE]]
    /\ UNCHANGED <<kind, patterns, records, broken, now>>

(* Mutant: the registry goes on, and the last pattern that matches counts. *)
FindsLast(s) ==
    LET hits == {i \in s.at + 1 .. Len(patterns) : s.message \in patterns[i].matches}
    IN IF hits = {} THEN 0 ELSE CHOOSE i \in hits : \A j \in hits : i >= j

(* the next pattern that matches, or 0 *)
Finds(s) ==
    LET hits == {i \in s.at + 1 .. Len(patterns) : s.message \in patterns[i].matches}
    IN IF hits = {} THEN 0 ELSE CHOOSE i \in hits : \A j \in hits : i <= j

(* the dict must not have grown when the loop takes its next item          *)
Look(t) ==
    /\ scan[t] # None /\ ~scan[t].found
    /\ IF Len(patterns) # scan[t].known
       THEN broken' = broken + 1 /\ scan' = [scan EXCEPT ![t] = None]
       ELSE /\ UNCHANGED broken
            /\ LET at == Finds(scan[t])
               IN scan' = [scan EXCEPT ![t] = IF at = 0 /\ kind = "smells" THEN None
                                              ELSE [@ EXCEPT !.at = at, !.found = TRUE]]
    /\ UNCHANGED <<kind, patterns, records, now>>

Counted(p, c) ==
    [p EXCEPT !.count = @ + 1, !.last = now, !.first = IF @ = None THEN now ELSE @,
              !.components = @ \cup {c}]

(* record_error's end, or one turn of detect's loop, which then goes on;   *)
(* an error that nothing matches has the pattern "unknown", here 0         *)
Record(t) ==
    /\ scan[t] # None /\ scan[t].found
    /\ LET s == scan[t]
       IN /\ records' = Append(records, [pattern |-> s.at, known |-> s.known, message |-> s.message,
                                         component |-> s.component, closed |-> FALSE])
          /\ patterns' = IF s.at = 0 THEN patterns ELSE [patterns EXCEPT ![s.at] = Counted(@, s.component)]
          /\ scan' = [scan EXCEPT ![t] = IF kind = "errors" THEN None ELSE [@ EXCEPT !.found = FALSE]]
    /\ UNCHANGED <<kind, broken, now>>

(* resolve_instance, acknowledge_detection, resolve_detection *)
Close(r) ==
    /\ records' = [records EXCEPT ![r].closed = TRUE]
    /\ UNCHANGED <<kind, patterns, scan, broken, now>>

Match ==
    /\ \/ \E m \in Registrable : RegisterPattern(m)
       \/ \E t \in Threads :
             \/ \E m \in Messages, c \in Components : StartScan(t, m, c)
             \/ Look(t) \/ Record(t)
       \/ \E r \in DOMAIN records : Close(r)
       \/ Tick /\ UNCHANGED patternVars
    /\ UNCHANGED failureVars

(* ------------------------------- failures ------------------------------ *)
(* the list object of the index is the one this reader goes over *)
Holds(t, c) == reader[t] # None /\ reader[t].component = c /\ reader[t].shared

(* record: under the lock, which a cleanup holds until it ends *)
RecordFailure(c) ==
    /\ cleaning = None /\ Len(log) < MaxEvents
    /\ LET n == Len(log) + 1
       IN /\ log' = Append(log, [component |-> c, at |-> now])
          /\ events' = events \cup {n}
          /\ index' = [index EXCEPT ![c] = @ \cup {n}]
          /\ reader' = [t \in Threads |-> IF Holds(t, c) THEN [reader[t] EXCEPT !.list = @ \cup {n}]
                                         ELSE reader[t]]
    /\ UNCHANGED <<cleaning, answers, report, now>>

(* Mutant: an event of the very cutoff is old as well. *)
OldOrAtCutoff(n, cutoff) == log[n].at <= cutoff

Old(n, cutoff) == log[n].at < cutoff

(* cleanup_old_events: the cutoff, then under the lock one old event after *)
(* the other, then the list of each component; a reader may come between   *)
StartCleanup ==
    /\ cleaning = None
    /\ cleaning' = [cutoff |-> now - Retention, left |-> {c \in Components : index[c] # {}},
                    dropping |-> TRUE]
    /\ UNCHANGED <<log, events, index, reader, answers, report, now>>

DropOld ==
    /\ cleaning # None /\ cleaning.dropping
    /\ LET old == {n \in events : Old(n, cleaning.cutoff)}
       IN \/ /\ \E n \in old : (\A m \in old : n <= m) /\ events' = events \ {n}
             /\ UNCHANGED cleaning
          \/ /\ old = {}
             /\ cleaning' = [cleaning EXCEPT !.dropping = FALSE]
             /\ UNCHANGED events
    /\ UNCHANGED <<log, index, reader, answers, report, now>>

Rebuild(c) ==
    /\ cleaning # None /\ ~cleaning.dropping /\ c \in cleaning.left
    /\ index' = [index EXCEPT ![c] = @ \cap events]
    /\ reader' = [t \in Threads |-> IF Holds(t, c) THEN [reader[t] EXCEPT !.shared = FALSE]
                                   ELSE reader[t]]
    /\ cleaning' = [cleaning EXCEPT !.left = @ \ {c}]
    /\ UNCHANGED <<log, events, answers, report, now>>

EndCleanup ==
    /\ cleaning # None /\ ~cleaning.dropping /\ cleaning.left = {}
    /\ cleaning' = None
    /\ UNCHANGED <<log, events, index, reader, answers, report, now>>

(* get_events_by_component holds on to the list it found, which may be     *)
(* replaced, and for each number asks whether the event is there before it *)
(* takes it                                                                *)
StartRead(t, c) ==
    /\ reader[t] = None
    /\ Cardinality(answers) + Cardinality({u \in Threads : reader[u] # None}) < MaxReads
    /\ reader' = [reader EXCEPT ![t] = [component |-> c, list |-> index[c], shared |-> index[c] # {},
                                        after |-> 0, got |-> {}, sees |-> 0, since |-> Len(log)]]
    /\ UNCHANGED <<log, events, index, cleaning, answers, report, now>>

Ahead(r) == {n \in r.list : n > r.after}

Ask(t) ==
    /\ reader[t] # None /\ reader[t].sees = 0
    /\ \E n \in Ahead(reader[t]) :
          /\ \A m \in Ahead(reader[t]) : n <= m
          /\ reader' = [reader EXCEPT ![t].after = n, ![t].sees = IF n \in events THEN n ELSE 0]
    /\ UNCHANGED <<log, events, index, cleaning, answers, report, now>>

Answer(t, raised) ==
    /\ answers' = answers \cup {[component |-> reader[t].component, got |-> reader[t].got,
                                 since |-> reader[t].since,
                                 ended |-> now, raised |-> raised]}
    /\ reader' = [reader EXCEPT ![t] = None]

Take(t) ==
    /\ reader[t] # None /\ reader[t].sees # 0
    /\ IF reader[t].sees \in events
       THEN /\ reader' = [reader EXCEPT ![t].got = @ \cup {reader[t].sees}, ![t].sees = 0]
            /\ UNCHANGED answers
       ELSE Answer(t, TRUE)      \* KeyError
    /\ UNCHANGED <<log, events, index, cleaning, report, now>>

EndRead(t) ==
    /\ reader[t] # None /\ reader[t].sees = 0 /\ Ahead(reader[t]) = {}
    /\ Answer(t, FALSE)
    /\ UNCHANGED <<log, events, index, cleaning, report, now>>

(* get_recent_events: one copy of the dict's values *)
Recent(hours) == {n \in events : log[n].at >= now - hours}

(* analyze *)
Report(hours) ==
    /\ report' = [total |-> Cardinality(Recent(hours)), at |-> now, since |-> Len(log),
                  by |-> [c \in Components |-> Cardinality({n \in Recent(hours) : log[n].component = c})]]
    /\ UNCHANGED <<log, events, index, cleaning, reader, answers, now>>

Analyze ==
    /\ \/ \E c \in Components : RecordFailure(c) \/ Rebuild(c)
       \/ StartCleanup \/ DropOld \/ EndCleanup \/ Report(Window)
       \/ \E t \in Threads : \/ \E c \in Components : StartRead(t, c)
                             \/ Ask(t) \/ Take(t) \/ EndRead(t)
       \/ Tick /\ UNCHANGED failureVars
    /\ UNCHANGED patternVars

Next == Match \/ Analyze

TypeOK ==
    /\ \A t \in Threads : scan[t] # None => scan[t].known <= Len(patterns)
    /\ events \subseteq DOMAIN log
    /\ \A c \in Components : index[c] \subseteq DOMAIN log
    /\ \A t \in Threads : reader[t] # None => reader[t].got \subseteq DOMAIN log
-----------------------------------------------------------------------------
(* A recorded error has the first pattern, of those there when its scan    *)
(* began, that matches it, whatever is registered meanwhile; and a         *)
(* pattern's count and components are those of its records, those of a     *)
(* detect() included that then ended with an error (record_error, detect). *)
CountsMatchRecords ==
    /\ \A r \in DOMAIN records :
          LET x == records[r]
              hits == {i \in 1 .. x.known : x.message \in patterns[i].matches}
          IN IF x.pattern = 0 THEN hits = {}
             ELSE x.pattern \in hits /\ (kind = "errors" => \A i \in hits : x.pattern <= i)
    /\ \A p \in DOMAIN patterns :
          LET mine == {r \in DOMAIN records : records[r].pattern = p}
          IN /\ patterns[p].count = Cardinality(mine)
             /\ patterns[p].components = {records[r].component : r \in mine}
             /\ mine # {} => patterns[p].first <= patterns[p].last

(* A reader sees every failure of its component that was recorded before   *)
(* it began and is still within the retention when it ends, and no other   *)
(* component's; it fails only where a failure got too old; and a report    *)
(* over no more than the retention misses none, though cleanups run all    *)
(* the time (get_events_by_component, cleanup_old_events, analyze).        *)
FailuresFound ==
    /\ \A a \in answers :
          LET mine == {n \in 1 .. a.since : log[n].component = a.component}
          IN /\ \A n \in a.got : log[n].component = a.component
             /\ ~a.raised => {n \in mine : log[n].at >= a.ended - Retention} \subseteq a.got
             /\ a.raised => \E n \in DOMAIN log : log[n].component = a.component
                                                   /\ log[n].at < a.ended - Retention
    /\ report # None =>
          report.total = Cardinality({n \in 1 .. report.since : log[n].at >= report.at - Window})
=============================================================================
