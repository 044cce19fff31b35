----------------------------- MODULE AuditSystem ----------------------------
(***************************************************************************)
(* core/audit: code artifacts are audited by an instance that took no part *)
(* in writing them. The methods are coroutines that never suspend, so each *)
(* is one step; a caller runs execute_audit on a submitted task when it    *)
(* wants, and again when it retries. Of the artifacts only the number of   *)
(* lines of each kind the audit looks for is kept.                         *)
(***************************************************************************)
EXTENDS Naturals

CONSTANTS
    Instances,    \* ids of audit instances, and of the executors
    Audits,
    Codes,        \* what is audited: [secrets, long, todos], numbers of lines
    DimensionSets, \* what it is audited for
    Required,      \* required_score in hundredths: 80
    MaxRegistered, \* bound of the model: calls of register_audit_instance
    Nobody

VARIABLES
    available, busy,   \* AuditInstancePool("audit")
    audit,             \* _pending_audits and _reports: 
                       \* [status, auditor, executors, code, dimensions, action, advice]
    queued,            \* tasks in _audit_queue; nothing takes them out
    registered,
    loose              \* ghost: auditors freed or registered while an audit had them

vars == <<available, busy, audit, queued, registered, loose>>

Dimensions == {"code_quality", "security", "performance", "maintainability", "compliance"}
New == [status |-> "new", auditor |-> Nobody, executors |-> {}, code |-> Nobody,
        dimensions |-> {}, action |-> "none", advice |-> {}]

Init ==
    /\ available = {} /\ busy = {}
    /\ audit = [a \in Audits |-> New]
    /\ queued = 0 /\ registered = 0 /\ loose = {}

(* an instance that is busy becomes available as well *)
RegisterInstance(i) ==
    /\ registered < MaxRegistered
    /\ registered' = registered + 1
    /\ available' = available \cup {i}
    /\ loose' = IF i \in busy THEN loose \cup {i} ELSE loose
    /\ UNCHANGED <<busy, audit, queued>>

(* Mutant: only the instance that asks for the audit is excluded. *)
ExcludesExecutorOnly(executor, taskExecutors) == {executor}

ExcludedAuditors(executor, taskExecutors) == {executor} \cup taskExecutors

(* Mutant: get_available_instances is read, the instance is not taken. *)
PeekAt(i) == UNCHANGED <<available, busy>>

Acquire(i) ==
    /\ available' = available \ {i}
    /\ busy' = busy \cup {i}

(* submit_for_audit and _select_auditor; without a candidate it raises *)
Submit(a, executor, taskExecutors, code, dimensions) ==
    /\ audit[a].status = "new"
    /\ \E i \in available \ ExcludedAuditors(executor, taskExecutors) :
          /\ Acquire(i)
          /\ audit' = [audit EXCEPT ![a] =
                          [status |-> "pending", auditor |-> i, action |-> "none", advice |-> {},
                           executors |-> {executor} \cup taskExecutors,
                           code |-> code, dimensions |-> dimensions]]
    /\ queued' = queued + 1
    /\ UNCHANGED <<registered, loose>>

Release(i) ==
    IF i \in busy
    THEN /\ busy' = busy \ {i}
         /\ available' = available \cup {i}
    ELSE UNCHANGED <<available, busy>>

(* ------------------------------- the audit ----------------------------- *)
(* _analyze_file: a secret is of high severity, a long line of low and a   *)
(* TODO only of interest; nothing is ever critical                         *)
Issues(code, dimension) ==
    CASE dimension = "security" -> code.secrets
      [] dimension = "code_quality" -> code.long
      [] dimension = "maintainability" -> code.todos
      [] OTHER -> 0

Penalty == [d \in Dimensions |-> CASE d = "security" -> 20 [] d = "code_quality" -> 5 [] OTHER -> 0]

(* out of 100 *)
DimensionScore(code, d) ==
    IF Penalty[d] * Issues(code, d) > 100 THEN 0 ELSE 100 - Penalty[d] * Issues(code, d)

Weights == [d \in Dimensions |-> CASE d = "security" -> 25 [] d = "performance" -> 15 [] OTHER -> 20]

HighIssues(code, dimensions) == IF "security" \in dimensions THEN Issues(code, "security") ELSE 0

(* a sum over the dimensions that were asked for *)
Total(value, dimensions) ==
    LET of(d) == IF d \in dimensions THEN value[d] ELSE 0 IN
    of("code_quality") + of("security") + of("performance") + of("maintainability")
        + of("compliance")

Scored(code) == [d \in Dimensions |-> DimensionScore(code, d) * Weights[d]]

(* The overall score is out of 100 and required_score out of 1, so only an *)
(* audit falls short whose dimensions all come to nothing.                 *)
Enough(code, dimensions) ==
    100 * Total(Scored(code), dimensions) >= Required * Total(Weights, dimensions)

(* Mutant: only critical issues keep an audit from passing. *)
PassedUnlessCritical(code, dimensions) == Enough(code, dimensions)

Passed(code, dimensions) == Enough(code, dimensions) /\ HighIssues(code, dimensions) = 0

Recommendations(code, dimensions) ==
    {d \in dimensions : DimensionScore(code, d) < 80}
        \cup (IF HighIssues(code, dimensions) > 0 THEN {"secrets"} ELSE {})

(* process_feedback *)
FeedbackAction(code, dimensions) ==
    IF Passed(code, dimensions) THEN "proceed"
    ELSE IF HighIssues(code, dimensions) > 0 THEN "fix_required" ELSE "warn_and_proceed"

(* execute_audit: the report replaces an earlier one, the auditor is freed *)
Execute(a) ==
    /\ audit[a].status # "new"
    /\ audit' = [audit EXCEPT ![a].status = "reported",
                              ![a].action = FeedbackAction(audit[a].code, audit[a].dimensions),
                              ![a].advice = Recommendations(audit[a].code, audit[a].dimensions)]
    /\ Release(audit[a].auditor)
    /\ loose' = IF audit[a].status = "reported" /\ audit[a].auditor \in busy
                THEN loose \cup {audit[a].auditor} ELSE loose
    /\ UNCHANGED <<queued, registered>>

Next ==
    \/ \E i \in Instances : RegisterInstance(i)
    \/ \E a \in Audits, e \in Instances, es \in SUBSET Instances, code \in Codes,
          dimensions \in DimensionSets : Submit(a, e, es, code, dimensions)
    \/ \E a \in Audits : Execute(a)

TypeOK ==
    /\ available \subseteq Instances /\ busy \subseteq Instances /\ loose \subseteq Instances
    /\ audit \in [Audits -> [status : {"new", "pending", "reported"},
                             auditor : Instances \cup {Nobody}, executors : SUBSET Instances,
                             code : Codes \cup {Nobody}, dimensions : {{}} \cup DimensionSets,
                             advice : SUBSET (Dimensions \cup {"secrets"}),
                             action : {"none", "proceed", "fix_required", "warn_and_proceed"}]]

(* Nobody audits a task it worked on, and an auditor has one unreported    *)
(* audit at a time: two only if it was registered again or freed by the    *)
(* second execution of an older audit while it had one.                    *)
AuditorsIndependent ==
    \A a \in Audits :
        LET it == audit[a] IN
        it.status = "pending" =>
            /\ it.auditor \notin it.executors
            /\ it.auditor \in busy \cup loose
            /\ \A b \in Audits \ {a} :
                  audit[b].status = "pending" /\ audit[b].auditor = it.auditor
                      => it.auditor \in loose

(* Code in which a secret was found does not proceed; and to audit worse   *)
(* code, or for more dimensions, loses no advice and no demand for a fix   *)
(* (execute_audit, process_feedback).                                      *)
Worse(c, d) == c.secrets >= d.secrets /\ c.long >= d.long /\ c.todos >= d.todos
VerdictsConsistent ==
    \A a, b \in Audits :
        LET x == audit[a]
            y == audit[b]
        IN  x.status = "reported" =>
                /\ x.action = "proceed" => HighIssues(x.code, x.dimensions) = 0
                /\ y.status = "reported" /\ Worse(y.code, x.code) /\ x.dimensions \subseteq y.dimensions =>
                      /\ x.advice \subseteq y.advice
                      /\ x.action = "fix_required" => y.action = "fix_required"
                      /\ x.dimensions = y.dimensions /\ y.action = "proceed" => x.action = "proceed"
=============================================================================
