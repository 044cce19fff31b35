-------------------------------- MODULE Feed --------------------------------
(***************************************************************************)
(* What the web console shows: the pages of StateDB.list_runs and          *)
(* list_schedules, the versions of a workflow, the event stream of         *)
(* services/bff_service.py that tells a browser which of its views to load *)
(* again, and what core/console/predictive.py makes of a metric's history. *)
(* The console's guard is Console's.                                       *)
(*                                                                         *)
(* External: the browser, which loads a view again when it is told to and  *)
(* connects again when the stream broke. Abstracted: ids are numbers in    *)
(* the order of their strings; of a row only what an ORDER BY, a WHERE or  *)
(* a comparison of the stream looks at.                                    *)
(*                                                                         *)
(* The histories of two metrics share nothing but the list of anomalies,   *)
(* so there is one metric. Its values are natural numbers and every test   *)
(* on means and deviations is done without division, so that nothing is    *)
(* rounded but the smoothed value and the percentages. Abstracted:         *)
(* identifiers, times, confidence intervals and texts.                     *)
(***************************************************************************)
EXTENDS Integers, Sequences, FiniteSets, SequencesExt, FiniteSetsExt

CONSTANTS
    Rows,            \* ids of runs or schedules
    Workflows,       \* the workflow_ids they may have
    Limit,           \* of a page
    Versions, Dags,  \* of one workflow
    Actors,          \* whose heartbeats, approvals and items the stream shows
    Longest,         \* seconds from one iteration to the next: 2, or up to so many if it is slow
    MaxTime, MaxWrites, MaxEvents, LastEvent,   \* bounds of the model
    Values,            \* what may be measured
    Spike, High,       \* deviations, in tenths, for an anomaly (30) and for a severe one (40)
    Window,            \* points of a trend: 10 in the code
    Most, Kept,        \* a history of more than Most (1000) is cut to its last Kept (500)
    Recent,            \* anomalies that recommendations look at: 10
    Averaged,          \* points of the moving average: 10
    Scenarios,         \* [traffic: tenths, latency, errors: change of the error rate or None]
    MaxPoints, MaxAnswers,      \* bounds of the model
    None

VARIABLES
    table,     \* runs by id: [workflow, started] or None
    reader,    \* None or [workflow, cursor, seen, began, http, over, refused]
    published, \* workflows: per version None or [dag, created]
    uploaded,  \* history: per version the last DAG posted
    got,       \* the last answer about the workflow: [asked, version, dag]
    approvals, \* per actor None or [created, status]
    items,     \* per actor None or [created, updated]
    heard,     \* agent_heartbeats.last_seen
    last,      \* the stream's last_runs_ts, last_approval_id and last_queue_ts
    due,       \* when its next iteration begins
    slow,      \* history: slow iterations since all views were refreshed
    dirty,     \* history: per view when the first change it does not show was made
    broken,    \* history: an iteration was cut short since all views were refreshed
    now, events,
    metrics,     \* _metrics_history of the metric
    anomalies,   \* _anomalies: [type, severe, at]
    answers,     \* predictions and scenarios answered: [kind, of, value, points]
    recorded     \* history: every point there was

pageVars == <<table, reader>>
versionVars == <<published, uploaded, got>>
streamVars == <<approvals, items, heard, last, due, slow, dirty, broken>>

Views == {"runs", "approvals", "queue", "agents"}
Unseen == [runs |-> 0, approval |-> None, queue |-> 0]

Init ==
    /\ table = [i \in Rows |-> None] /\ reader = None
    /\ published = [v \in Versions |-> None] /\ uploaded = [v \in Versions |-> None]
    /\ got = None
    /\ approvals = [a \in Actors |-> None] /\ items = [a \in Actors |-> None]
    /\ heard = [a \in Actors |-> 0]
    /\ last = Unseen /\ due = 1 /\ slow = 0
    /\ dirty = [v \in Views |-> None] /\ broken = FALSE
    /\ now = 1 /\ events = 0

Write == events < MaxWrites /\ events' = events + 1
Event == events < MaxEvents /\ now <= LastEvent /\ events' = events + 1

MetricInit == metrics = << >> /\ anomalies = << >> /\ answers = << >> /\ recorded = << >>

(* -------------------------------- pages -------------------------------- *)
(* upsert_run, create_schedule: rows come at any place in the order of ids *)
UpsertRun(i, w) ==
    table' = [table EXCEPT ![i] = [workflow |-> w, started |-> now]]

(* WHERE workflow_id = ? AND id > ? ORDER BY id ASC LIMIT ? *)
Matching(w, cursor) ==
    {i \in Rows : table[i] # None /\ (w # None => table[i].workflow = w) /\ i > cursor}

Least(S, n) == {i \in S : Cardinality({j \in S : j < i}) < n}

Page(w, cursor) == Least(Matching(w, cursor), Limit)

(* Mutant: a page that is not full to the brim has no successor even when  *)
(* it is the limit that cut it.                                            *)
NextUnlessFull(page, cursor) ==
    IF Cardinality(page) > Limit THEN Max(page) ELSE None

(* next_cursor of a full page; "" ends the reading *)
NextCursor(page, cursor) ==
    IF Cardinality(page) = Limit THEN Max(page) ELSE None

(* A reader asks for page after page, of one workflow or all: a caller of  *)
(* the database, or a client over HTTP                                     *)
Open(w, http) ==
    /\ reader # None => reader.over
    /\ reader' = [workflow |-> w, cursor |-> 0, seen |-> <<>>,
                  began |-> Matching(w, 0), http |-> http, over |-> FALSE, refused |-> FALSE]
    /\ UNCHANGED <<table, versionVars, streamVars, now, events>>

(* _runs_get, _schedules_get, _approvals_get and _workflows_get look for    *)
(* their path while the query is still part of it: what needs a query, a    *)
(* filter or a page after the first, is not found                          *)
NotFound == reader.http /\ (reader.workflow # None \/ reader.cursor # 0)

AskInVain ==
    /\ reader # None /\ ~ reader.over /\ NotFound
    /\ reader' = [reader EXCEPT !.over = TRUE, !.refused = TRUE]
    /\ UNCHANGED <<table, versionVars, streamVars, now, events>>

ReadPage ==
    /\ reader # None /\ ~ reader.over /\ ~ NotFound
    /\ LET page == Page(reader.workflow, reader.cursor)
           next == NextCursor(page, reader.cursor)
       IN  reader' = [reader EXCEPT !.seen = @ \o SetToSortSeq(page, LAMBDA i, j : i < j),
                                    !.cursor = IF next = None THEN @ ELSE next,
                                    !.over = next = None]
    /\ UNCHANGED <<table, versionVars, streamVars, now, events>>

InsertRow(i, w) ==
    /\ Write /\ table[i] = None /\ UpsertRun(i, w)
    /\ UNCHANGED <<reader, versionVars, streamVars, now>>

Pages ==
    \/ \E w \in Workflows \cup {None}, http \in BOOLEAN : Open(w, http)
    \/ AskInVain \/ ReadPage
    \/ \E i \in Rows, w \in Workflows : InsertRow(i, w)

(* ------------------------------- versions ------------------------------ *)
(* upsert_workflow: an upload of a version that is there keeps created_at  *)
Upserted(v, dag) ==
    [dag |-> dag, created |-> IF published[v] = None THEN now ELSE published[v].created]

Upload(v, dag) ==
    /\ Write
    /\ published' = [published EXCEPT ![v] = Upserted(v, dag)]
    /\ uploaded' = [uploaded EXCEPT ![v] = dag]
    /\ UNCHANGED <<got, pageVars, streamVars, now>>

(* get_latest_workflow: of the versions created in the newest second any   *)
Latest ==
    {v \in Versions : published[v] # None /\ \A u \in Versions :
        published[u] # None => published[u].created <= published[v].created}

Answer(asked, v) == [asked |-> asked, version |-> v, dag |-> published[v].dag]

Nothing(asked) == [asked |-> asked, version |-> None, dag |-> None]

LatestAnswers(asked) ==
    IF Latest = {} THEN {Nothing(asked)} ELSE {Answer(asked, v) : v \in Latest}

(* Mutant: the path's last part is the id, and a version that is not there *)
(* is answered with the latest.                                            *)
ServedByPart(asked) ==
    IF asked # None /\ published[asked] # None THEN {Answer(asked, asked)}
    ELSE LatestAnswers(asked)

(* _workflows_get: the id is cut from the path before the query is split   *)
(* off, so a request with ?version= names a workflow that nobody has       *)
Served(asked) == IF asked # None THEN {Nothing(asked)} ELSE LatestAnswers(asked)

GetWorkflow(asked) ==
    /\ got' \in Served(asked)
    /\ UNCHANGED <<published, uploaded, pageVars, streamVars, now, events>>

Wait ==
    /\ now < LastEvent /\ now' = now + 1
    /\ UNCHANGED <<pageVars, versionVars, streamVars, events>>

Publishing ==
    \/ \E v \in Versions, dag \in Dags : Upload(v, dag)
    \/ \E v \in Versions \cup {None} : GetWorkflow(v)
    \/ Wait

(* -------------------------------- stream ------------------------------- *)
Touch(view) == dirty' = [dirty EXCEPT ![view] = IF @ = None THEN now ELSE @]

StartRun(i, w) ==
    /\ Event /\ UpsertRun(i, w) /\ Touch("runs")
    /\ UNCHANGED <<reader, versionVars, approvals, items, heard, last, due, slow, broken, now>>

CreateApproval(a) ==
    /\ Event /\ approvals[a] = None
    /\ approvals' = [approvals EXCEPT ![a] = [created |-> now, status |-> "pending"]]
    /\ Touch("approvals")
    /\ UNCHANGED <<pageVars, versionVars, items, heard, last, due, slow, broken, now>>

(* decide_approval: WHERE status = pending *)
DecideApproval(a) ==
    /\ Event /\ approvals[a] # None /\ approvals[a].status = "pending"
    /\ approvals' = [approvals EXCEPT ![a].status = "approved"]
    /\ Touch("approvals")
    /\ UNCHANGED <<pageVars, versionVars, items, heard, last, due, slow, broken, now>>

(* enqueue_work_item, and whatever sets the row's updated_at later *)
WriteItem(a) ==
    /\ Event
    /\ items' = [items EXCEPT ![a] =
          [created |-> IF @ = None THEN now ELSE @.created, updated |-> now]]
    /\ Touch("queue")
    /\ UNCHANGED <<pageVars, versionVars, approvals, heard, last, due, slow, broken, now>>

(* write_agent_heartbeat *)
Heartbeat(a) ==
    /\ Event
    /\ heard' = [heard EXCEPT ![a] = now] /\ Touch("agents")
    /\ UNCHANGED <<pageVars, versionVars, approvals, items, last, due, slow, broken, now>>

(* ORDER BY created_at DESC LIMIT 1: any of those of the newest second, or *)
(* None of no rows                                                         *)
Newest(created) ==
    {a \in DOMAIN created : \A b \in DOMAIN created : created[b] <= created[a]}
    \cup (IF DOMAIN created = {} THEN {None} ELSE {})

NewestPending ==
    Newest([a \in {a \in Actors : approvals[a] # None /\ approvals[a].status = "pending"}
              |-> approvals[a].created])

NewestItem == Newest([a \in {a \in Actors : items[a] # None} |-> items[a].created])

(* list_runs(limit=1): the run with the least id, not the latest *)
FirstRun == Page(None, 0) \cap Least(Matching(None, 0), 1)

(* the views an iteration signals, given the newest approval and item, and *)
(* what the stream remembers after it                                      *)
Signals(approval, item) ==
    (IF approval # last.approval THEN {"approvals"} ELSE {})
    \cup {"runs" : i \in {i \in FirstRun : table[i].started > last.runs}}
    \cup {"queue" : a \in {a \in {item} \ {None} : items[a].updated > last.queue}}

Remembered(approval, item, told) ==
    [approval |-> approval,
     runs |-> IF "runs" \in told THEN table[CHOOSE i \in FirstRun : TRUE].started ELSE last.runs,
     queue |-> IF "queue" \in told THEN items[item].updated ELSE last.queue]

(* Mutant: only what changed is signalled. *)
NeverForced == FALSE

(* every fifth second all views are told to refresh *)
Forced == now % 5 = 0

Show(told) == dirty' = [v \in Views |-> IF v \in told THEN None ELSE dirty[v]]

(* time.sleep(2), and what the iteration itself took *)
Sleep(refreshed) ==
    /\ due' \in now + 2 .. now + Longest
    /\ slow' = (IF refreshed THEN 0 ELSE slow) + (IF due' > now + 2 /\ slow < 2 THEN 1 ELSE 0)

Iterate ==
    /\ now = due
    /\ \E approval \in NewestPending, item \in NewestItem :
          LET told == Signals(approval, item) IN
          /\ last' = Remembered(approval, item, told)
          /\ Show(IF Forced THEN Views ELSE told)
    /\ broken' = (broken /\ ~ Forced)
    /\ Sleep(Forced)
    /\ UNCHANGED <<pageVars, versionVars, approvals, items, heard, now, events>>

(* A query raises: what comes after it in the iteration is left out. *)
IterateFails ==
    /\ now = due /\ Event
    /\ \/ UNCHANGED <<last, dirty>>
       \/ \E approval \in NewestPending :
             /\ last' = [last EXCEPT !.approval = approval]
             /\ Show(IF approval # last.approval THEN {"approvals"} ELSE {})
    /\ broken' = TRUE
    /\ Sleep(FALSE)
    /\ UNCHANGED <<pageVars, versionVars, approvals, items, heard, now>>

(* The client lost the stream and opens another: a new handler, which      *)
(* remembers nothing, iterates at once.                                    *)
Reconnect ==
    /\ Event
    /\ last' = Unseen /\ due' = now /\ slow' = 0
    /\ broken' = TRUE
    /\ UNCHANGED <<pageVars, versionVars, approvals, items, heard, dirty, now>>

(* the clock waits for an iteration that is due *)
Second ==
    /\ now < due /\ now < MaxTime /\ now' = now + 1
    /\ UNCHANGED <<pageVars, versionVars, streamVars, events>>

Streaming ==
    \/ \E i \in Rows : StartRun(i, CHOOSE w \in Workflows : TRUE)
    \/ \E a \in Actors : CreateApproval(a) \/ DecideApproval(a) \/ WriteItem(a) \/ Heartbeat(a)
    \/ Iterate \/ IterateFails \/ Reconnect \/ Second
(* -------------------------------- metrics ------------------------------ *)
Total(s) == FoldSeq(LAMBDA v, sum : v + sum, 0, s)
Squares(s) == FoldSeq(LAMBDA v, sum : v * v + sum, 0, s)
LastN(s, n) == SubSeq(s, IF Len(s) > n THEN Len(s) - n + 1 ELSE 1, Len(s))

(* ------------------------------ AnomalyDetector ------------------------ *)
(* how far v is from the mean and how far the values are, both squared and *)
(* times Len(s) ^ 3 less Len(s) ^ 2                                        *)
Distance(s, v) == (Len(s) * v - Total(s)) * (Len(s) * v - Total(s)) * (Len(s) - 1)
Spread(s) == Len(s) * (Len(s) * Squares(s) - Total(s) * Total(s))

(* more standard deviations from the mean than so many tenths; nothing is, *)
(* if the values do not deviate                                            *)
Beyond(s, v, tenths) ==
    Spread(s) > 0 /\ 100 * Distance(s, v) > tenths * tenths * Spread(s)

Dropped(s, v) == 2 * Len(s) * v < Total(s)

(* the mean of the last window against that of the one before; no change   *)
(* is counted from a mean of zero                                          *)
Turned(s) ==
    /\ Len(s) >= 2 * Window
    /\ LET recent == Total(LastN(s, Window))
           older == Total(LastN(s, 2 * Window)) - recent
       IN  older # 0 /\ 10 * (IF recent > older THEN recent - older ELSE older - recent) > 3 * older

Detect(s, v) ==
    CASE Len(s) < 3 -> None
      [] Len(s) >= 3 /\ Beyond(s, v, Spike) ->
            [type |-> IF Len(s) * v > Total(s) THEN "spike" ELSE "drop", severe |-> Beyond(s, v, High)]
      [] Len(s) >= 3 /\ ~ Beyond(s, v, Spike) /\ Dropped(s, v) -> [type |-> "drop", severe |-> FALSE]
      [] Len(s) >= 3 /\ ~ Beyond(s, v, Spike) /\ ~ Dropped(s, v) ->
            IF Turned(s) THEN [type |-> "trend", severe |-> FALSE] ELSE None

(* ----------------------------- record_metric --------------------------- *)
(* Mutant: only one window of the history is kept. *)
TrimmedToWindow(s) == IF Len(s) > Most THEN LastN(s, Window) ELSE s

Trimmed(s) == IF Len(s) > Most THEN LastN(s, Kept) ELSE s

(* Mutant: the point is already in the history it is compared with. *)
NoticedLate(s, v) == Detect(Append(s, v), v)

(* a point is compared with those before it *)
Noticed(s, v) == Detect(s, v)

RecordMetric(v) ==
    /\ Len(recorded) < MaxPoints
    /\ LET found == Noticed(metrics, v)
       IN  anomalies' = IF found = None THEN anomalies
                        ELSE Append(anomalies, [type |-> found.type, severe |-> found.severe,
                                                at |-> Len(recorded) + 1])
    /\ metrics' = Trimmed(Append(metrics, v))
    /\ recorded' = Append(recorded, v)
    /\ UNCHANGED answers

(* -------------------------------- predict ------------------------------ *)
Smoothed(s) == FoldLeft(LAMBDA smoothed, v : (3 * v + 7 * smoothed) \div 10, s[1], Tail(s))
MovingAverage(s) == LET points == LastN(s, Averaged) IN Total(points) \div Len(points)

(* with the model the console was built with *)
Predict ==
    /\ metrics # << >> /\ Len(answers) < MaxAnswers
    /\ \E model \in {Smoothed(metrics), MovingAverage(metrics)} :
          answers' = Append(answers, [kind |-> "prediction", of |-> None, points |-> Len(recorded),
                                      value |-> model])
    /\ UNCHANGED <<metrics, anomalies, recorded>>

(* --------------------------- simulate_scenario ------------------------- *)
(* Mutant: the increase is counted from the first point on. *)
GrowthFromOne(x, i, n) == 10 * n + x.traffic * i

(* of the point i of n, times 10 * n *)
Growth(x, i, n) == 10 * n + x.traffic * (i - 1)

(* a point, times 10 * n; a change of the error rate takes every value for *)
(* a rate and cuts it to one                                               *)
Simulated(x, s, i) ==
    LET unit == 10 * Len(s)
        grown == s[i] * Growth(x, i, Len(s)) + x.latency * unit
    IN  IF x.errors = None THEN grown
        ELSE Min({unit, Max({0, grown + (x.errors * unit) \div 10})})

(* in percent of the mean, rounded down *)
Change(x, s) ==
    LET base == 10 * Len(s) * Total(s)
        simulated == FoldSet(LAMBDA i, sum : Simulated(x, s, i) + sum, 0, DOMAIN s)
    IN  IF base = 0 THEN 0 ELSE (100 * (simulated - base)) \div base

SimulateScenario(x) ==
    /\ metrics # << >> /\ Len(answers) < MaxAnswers
    /\ answers' = Append(answers, [kind |-> "scenario", of |-> x, points |-> Len(recorded),
                                   value |-> Change(x, metrics)])
    /\ UNCHANGED <<metrics, anomalies, recorded>>

(* -------------------------- get_recommendations ------------------------ *)
(* the priority of an anomaly's advice; the rule for a drop asks for the   *)
(* throughput, and anomalies are always of the latency                     *)
Recommend(x) ==
    CASE x.type = "spike" /\ x.severe -> 1
      [] x.type = "trend" -> 3
      [] OTHER -> None

Recommendations == {Recommend(LastN(anomalies, Recent)[i]) :
                        i \in DOMAIN LastN(anomalies, Recent)} \ {None}

Measuring ==
    \/ \E v \in Values : RecordMetric(v)
    \/ Predict
    \/ \E x \in Scenarios : SimulateScenario(x)
-----------------------------------------------------------------------------
TypeOK ==
    /\ \A i \in Rows : table[i] # None => table[i].started <= now
    /\ reader # None => ToSet(reader.seen) \subseteq Rows
    /\ \A v \in Views : dirty[v] # None => dirty[v] <= now
    /\ due <= now + Longest /\ slow \in 0 .. 2

(* Reading page after page by id shows every row that was there when the   *)
(* reading began, in order and once, whatever rows are inserted between    *)
(* two pages (list_runs, list_schedules). A client over HTTP is either     *)
(* refused or was shown them all on the first page.                        *)
PagesComplete ==
    reader # None =>
        /\ \A k \in 1 .. Len(reader.seen) - 1 : reader.seen[k] < reader.seen[k + 1]
        /\ reader.over /\ ~ reader.refused => reader.began \subseteq ToSet(reader.seen)
        /\ \A i \in ToSet(reader.seen) :
              reader.workflow # None => table[i].workflow = reader.workflow

(* A request that names a version is answered with nothing, or with that   *)
(* version, never with another, and what is kept for a version is the DAG  *)
(* last uploaded for it, which leaves its place among the versions         *)
(* (_workflows_get, upsert_workflow, get_latest_workflow).                 *)
VersionHonest ==
    /\ got # None /\ got.version # None /\ got.asked # None => got.asked = got.version
    /\ \A v \in Versions : published[v] # None => published[v].dag = uploaded[v]

(* How late a view may show a change: the stream compares only the first   *)
(* run, the newest approval and the newest item, by the second, and the    *)
(* rest waits for an iteration that begins in a multiple of five. As long  *)
(* as no iteration was cut short, a change is shown within 10 seconds if   *)
(* none took longer than its pause of 2, and within 16 + Longest if one    *)
(* did; after two it may never be (_events_stream, whose comments promise  *)
(* every five seconds).                                                    *)
RefreshedInTime ==
    ~ broken => \A v \in Views : dirty[v] # None =>
        /\ slow = 0 => now - dirty[v] <= 10
        /\ slow = 1 => now - dirty[v] <= 16 + Longest

HistoryTypeOK ==
    /\ metrics = LastN(recorded, Len(metrics)) /\ Len(metrics) <= Most
    /\ \A i \in DOMAIN anomalies : anomalies[i].at \in DOMAIN recorded
    /\ Len(answers) <= MaxAnswers

Reported == {anomalies[i].at : i \in DOMAIN anomalies}

(* A value that departs from a history of n equal ones cannot be measured  *)
(* against them, for they do not deviate; but if it comes a second time it *)
(* is n / sqrt(n + 1) deviations from the mean, and is reported if that is *)
(* enough as a spike, with the most urgent advice if it is severe          *)
(* (AnomalyDetector.detect, record_metric, get_recommendations).           *)
JumpNoticed ==
    Len(recorded) \in 5 .. Most + 1 =>
        LET n == Len(recorded) - 2
            new == recorded[n + 1]
        IN  (/\ \A i \in 1 .. n : recorded[i] = recorded[1]
             /\ new > recorded[1] /\ recorded[n + 2] = new
             /\ 100 * n * n > Spike * Spike * (n + 1))
            => LET severe == 100 * n * n > High * High * (n + 1)
               IN  /\ [type |-> "spike", severe |-> severe, at |-> n + 2] \in ToSet(anomalies)
                   /\ severe => 1 \in Recommendations

(* A trend over the last two windows is reported with the next point at    *)
(* the latest, however often the history was cut                           *)
(* (record_metric, AnomalyDetector.detect).                                *)
TrendsSurviveTrims ==
    Len(recorded) > 3 /\ Turned(Front(recorded)) => Len(recorded) \in Reported

(* What is predicted lies between the least and the greatest value, and a  *)
(* scenario that only adds load never improves the metric, nor worsens it  *)
(* by the whole of the load it adds last (predict, simulate).              *)
AnswersSound ==
    \A i \in DOMAIN answers :
        LET seen == SubSeq(recorded, 1, answers[i].points)
            x == answers[i].of
        IN  /\ answers[i].kind = "prediction" =>
                    answers[i].value \in Min(ToSet(seen)) .. Max(ToSet(seen))
            /\ answers[i].kind = "scenario" /\ x.errors = None /\ Total(LastN(seen, Kept)) > 0 =>
                    /\ answers[i].value >= 0
                    /\ x.latency = 0 => answers[i].value < 10 * x.traffic
=============================================================================
