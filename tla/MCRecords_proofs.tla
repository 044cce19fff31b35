-------------------------- MODULE MCRecords_proofs ---------------------------
(***************************************************************************)
(* Six parts of MCRecords, for any values of their constants: the          *)
(* canaries keep CanariesSound, the learning queue keeps LearningSound,    *)
(* the audits keep AuditorsIndependent, the event log keeps NothingSkipped,*)
(* the stability service keeps ContextOnDisk, and the long running         *)
(* sessions keep SessionsSound. The stores are in MCStored_proofs.         *)
(***************************************************************************)
EXTENDS MCRecords, FiniteSetTheorems, SequenceTheorems, WellFoundedInduction, TLAPS

Flag == BOOLEAN

-----------------------------------------------------------------------------
(* The canaries *)

Release == [status : {"new", "PENDING", "RUNNING"} \cup Canaries!Ended,
            pct : 0 .. FullShare, sample : {"few", "good", "bad"}, due : Flag]

ReleaseTypes ==
    /\ canary \in [Releases -> Release]
    /\ active \in [Strategies -> Releases \cup {none}]
    /\ picked \in Releases \cup {none}

CanaryInv ==
    part = "canaries" =>
        ReleaseTypes /\ Canaries!TrafficOnlyToRunning /\ Canaries!PromotedAtFull

-----------------------------------------------------------------------------
(* The learning queue *)

Lesson == [status : {"absent", "PENDING", "QUEUED", "PROCESSING", "COMPLETED", "FAILED",
                     "CANCELLED"},
           retries : 0 .. MaxAttempts, ended : Flag]

Learner == [at : {"off", "get", "taken", "handler", "retry"}, id : Lessons \cup {0}]

LearningTypes ==
    /\ task \in [Lessons -> Lesson]
    /\ submitting \in [Lessons -> {"new", "put", "mark", "returned"}]
    /\ queue \subseteq Lessons /\ IsFiniteSet(queue)
    /\ sentinels \in Nat /\ Cardinality(queue) + sentinels <= QueueSize
    /\ worker \in [Learners -> Learner]
    /\ \A w \in Learners :
          worker[w].at \in {"taken", "handler", "retry"} => worker[w].id \in Lessons
    /\ lock \in Learners \cup {none}
    /\ attempts \in [Lessons -> Nat]

Holds(w, t, at) == worker[w].at = at /\ worker[w].id = t

(* in the queue, or with a worker that will look at it again *)
Waits(t) == t \in queue \/ \E w \in Learners : Holds(w, t, "taken") \/ Holds(w, t, "retry")
Handles(t) == \E w \in Learners : Holds(w, t, "handler")

Has(w, t) == Holds(w, t, "taken") \/ Holds(w, t, "handler") \/ Holds(w, t, "retry")

(* One copy of a task is about, none before it is put.                     *)
OneCopy(t) ==
    /\ submitting[t] \in {"new", "put"} => ~ Waits(t) /\ ~ Handles(t)
    /\ \A w \in Learners :
          Has(w, t) => t \notin queue /\ \A v \in Learners : Has(v, t) => v = w

(* The retries count the calls that raised, while a copy is about; a task  *)
(* that was cleaned up, whose count begins again, has none.                *)
Counted(t) ==
    /\ attempts[t] <= MaxAttempts
    /\ submitting[t] \in {"new", "put"} =>
          attempts[t] = 0 /\ task[t].retries = 0 /\ ~ task[t].ended
    /\ Waits(t) => /\ attempts[t] = task[t].retries
                   /\ task[t].retries < MaxAttempts /\ ~ task[t].ended
    /\ Handles(t) => /\ attempts[t] = task[t].retries + 1
                     /\ task[t].retries < MaxAttempts /\ ~ task[t].ended

(* Until its submit() has returned, a task that nobody began is waiting.   *)
Reachable(t) ==
    /\ t \notin late /\ task[t].status = "QUEUED" => Waits(t)
    /\ submitting[t] = "mark" /\ task[t].status = "PENDING" => Waits(t)

LessonInv(t) == OneCopy(t) /\ Counted(t) /\ Reachable(t)

LearningInv == part = "learning" => LearningTypes /\ \A t \in Lessons : LessonInv(t)

-----------------------------------------------------------------------------
(* The audits *)

(* An auditor that is free and busy at once is loose, the auditor of an    *)
(* audit that is pending is busy until it is loose, and two such audits    *)
(* have one auditor only when it is loose; a report says what its code     *)
(* asked for.                                                              *)
Disjoint == available \cap busy \subseteq loose

Review == [status : {"new", "pending", "reported"},
           auditor : Auditors \cup {none}, executors : SUBSET Auditors,
           code : Sources \cup {none}, dimensions : {{}} \cup DimensionSets,
           advice : SUBSET (Audits!Dimensions \cup {"secrets"}),
           action : {"none", "proceed", "fix_required", "warn_and_proceed"}]

Judged(r) ==
    /\ audit[r].status # "new" =>
          audit[r].code \in Sources /\ audit[r].dimensions \in DimensionSets
    /\ audit[r].status = "reported" =>
          /\ audit[r].action = Audits!FeedbackAction(audit[r].code, audit[r].dimensions)
          /\ audit[r].advice = Audits!Recommendations(audit[r].code, audit[r].dimensions)

AuditsInv ==
    part = "audits" =>
        /\ Audits!TypeOK /\ Disjoint /\ Audits!AuditorsIndependent
        /\ \A r \in Reviews : Judged(r)

-----------------------------------------------------------------------------
(* The event log *)

Line == [topic : Subjects \cup {Foreign}, id : Nat, form : {"whole", "bare", "torn", "junk"}]

Replay == [at : {"scan"}, sub : Readers, topic : Subjects, next : 0 .. MaxLines, delivered : Nat]

LogTypes ==
    /\ lines \in Seq(Line) /\ Len(lines) <= MaxLines
    /\ IsFiniteSet(acked)
    /\ offset \in [Readers -> [Subjects -> 0 .. MaxLines]]
    /\ replay \in [Replays -> {Events!Idle} \cup Replay]
    /\ DOMAIN seen = Readers
    /\ shifted \in BOOLEAN

(* The reader was called with every record of the topic up to index n, and *)
(* there are that many records.                                            *)
Covered(s, t, n) ==
    /\ n <= Cardinality(Events!Records)
    /\ \A k \in Events!Records :
          Events!Index(k) <= n /\ lines[k].topic = t => lines[k].id \in seen[s]

AllCovered ==
    ~ shifted =>
        /\ \A s \in Readers, t \in Subjects : Covered(s, t, offset[s][t])
        /\ \A r \in Replays :
              replay[r].at = "scan" => Covered(replay[r].sub, replay[r].topic, replay[r].next)

EventsInv == part = "events" => LogTypes /\ AllCovered

-----------------------------------------------------------------------------
(* The stability service *)

Context == {x \in [done : SUBSET Phases, reloaded : SUBSET Phases, stage : Phases] :
                x.reloaded \subseteq x.done}
Execution == [ctx : Context, stage : Phases,
              status : {"running", "recovering", "completed", "failed"}]
Checkpoint == [id : Nat, at : Nat, ctx : Context, whole : Flag]
Saving == [op : {"start", "transfer", "save"}, id : Nat, at : Nat, ctx : Context,
           target : Phases, current : Flag]

(* Whoever waits for a save has a file of its own, if there is one yet,    *)
(* that is in nobody's list.                                               *)
Pending(c) ==
    call[c] # none =>
        /\ call[c].id <= saves
        /\ \A f \in saved : f.id = call[c].id => f.ctx = call[c].ctx
        /\ \A i \in DOMAIN memory : memory[i] # call[c].id
        /\ \A d \in Callers : d # c /\ call[d] # none => call[d].id # call[c].id

OneEach(ids) == \A i, j \in DOMAIN ids : ids[i] = ids[j] => i = j

Shelf ==
    /\ saves \in Nat /\ first \in Nat
    /\ saved \subseteq Checkpoint
    /\ \A f \in saved : f.id <= saves
    /\ \A f, g \in saved : f.id = g.id => f = g
    /\ memory \in Seq(Nat) /\ Len(memory) <= CheckpointsKept /\ OneEach(memory)
    /\ \A i \in DOMAIN memory : memory[i] <= saves
    /\ call \in [Callers -> Saving \cup {none}]
    /\ \A c \in Callers : Pending(c)

(* The calls whose checkpoint will not cover the active context ...        *)
Behind == {c \in Callers : call[c] # none /\ ~ (exec.ctx.done \subseteq call[c].ctx.done)}

Half == CheckpointsKept \div 2

(* ... are too few to push the one that does out of the list.              *)
Safe(f) ==
    \/ Behind = {}
    \/ \E i \in DOMAIN memory :
           memory[i] = f.id /\ Len(memory) - i + Cardinality(Behind) < Half

OnDisk ==
    exec # none /\ ~ overlapped =>
        \E f \in saved : f.whole = TRUE /\ exec.ctx.done \subseteq f.ctx.done /\ Safe(f)

(* A transfer that waits has an execution to write to.                     *)
Moving == \A c \in Callers : call[c] # none /\ call[c].op = "transfer" => exec \in Execution

Service == exec \in Execution \cup {none} /\ Shelf /\ Moving /\ OnDisk

StabilityInv == part \in {"alone", "shared"} => Service

-----------------------------------------------------------------------------
(* The long running sessions *)

FeatureList == [Planned -> Said]
Doing == [feature : Planned, step : {"test", "commit", "record"}]
Beginning == [feature : {none}, step : {"listed", "logged", "committed"}]
Written == [line : Nat, what : Said \cup {"note"}, feature : Planned \cup {none}]

LinesOf(p) == {p[i].line : i \in DOMAIN p}

(* The newest line about f says that it passed.                            *)
LastSays(p, f) ==
    \E i \in DOMAIN p : /\ p[i].feature = f /\ p[i].what = "passed"
                        /\ \A j \in i + 1 .. Len(p) : p[j].feature # f

ListTypes ==
    /\ list \in FeatureList \cup {none} /\ head \in FeatureList \cup {none}
    /\ current \in Planned \cup {none} /\ work \in Doing \cup Beginning \cup {none}
    /\ session # none \/ work # none => list # none
    /\ IsFiniteSet(checkpoints) /\ Cardinality(checkpoints) <= MaxCheckpointed

(* What the manager knows from after the file was written anew is in it.   *)
BookTypes ==
    /\ progress \in Seq(Written)
    /\ kept # none => kept \in Seq(Written) /\ LinesOf(kept) \subseteq 1 .. numbered
    /\ numbered \in 0 .. MaxNumbered /\ tracked \subseteq 1 .. numbered
    /\ cut \in 0 .. numbered
    /\ LinesOf(progress) \subseteq 1 .. numbered
    /\ \A l \in tracked : l > cut => l \in LinesOf(progress)

(* Until a death nothing but the work under way is in progress, also in    *)
(* the last commit, which a rollback brings back, and nothing has begun    *)
(* while a project is initialised; and until a reset, too, what passed has *)
(* its line, but for the work under way.                                   *)
WorkedOn(f) == work # none /\ work.feature = f

NothingLeft ==
    deaths = 0 =>
        /\ list # none => \A f \in Planned :
               list[f] = "in_progress" => WorkedOn(f) /\ work.step = "test"
        /\ head # none => \A f \in Planned : head[f] # "in_progress"
        /\ work # none /\ work.feature = none => \A f \in Planned : list[f] = "pending"

OneStory ==
    deaths = 0 /\ ~ resets /\ list # none => \A f \in Planned :
        list[f] = "passed" /\ ~ WorkedOn(f) => LastSays(progress, f)

SessionsInv ==
    part \in {"long", "again"} => deaths \in Nat /\ ListTypes /\ BookTypes /\ NothingLeft /\ OneStory

-----------------------------------------------------------------------------
LEMMA Flags == TRUE \in Flag /\ FALSE \in Flag
    BY DEF Flag

LEMMA CanaryInit == Init => CanaryInv
<1> SUFFICES ASSUME Init
             PROVE  ReleaseTypes /\ Canaries!TrafficOnlyToRunning /\ Canaries!PromotedAtFull
    BY DEF CanaryInv
<1>1. Canaries!New \in Release
  <2>1. 0 \in 0 .. FullShare
      BY RecordsAssumption
  <2> QED
      BY <2>1, Flags, Zenon DEF Canaries!New, Release
<1> QED
    BY <1>1, RecordsAssumption
       DEF Init, Canaries!Init, Canaries!New, ReleaseTypes, Canaries!TrafficOnlyToRunning,
           Canaries!PromotedAtFull

(* What a check, or an abort, does: the canary ends and its strategy's     *)
(* place is empty ...                                                      *)
LEMMA CanaryEnds ==
    ASSUME ReleaseTypes, Canaries!TrafficOnlyToRunning, Canaries!PromotedAtFull,
           NEW r \in Releases, NEW status \in Canaries!Ended,
           status = "SUCCEEDED" => canary[r].pct = FullShare,
           Canaries!End(r, status), picked' \in Releases \cup {none}
    PROVE  ReleaseTypes' /\ Canaries!TrafficOnlyToRunning' /\ Canaries!PromotedAtFull'
<1>1. /\ canary' = [canary EXCEPT ![r].status = status]
      /\ active' = [active EXCEPT ![ReleaseOf[r]] = none]
      /\ ReleaseOf[r] \in Strategies
    BY RecordsAssumption DEF Canaries!End
<1>2. ReleaseTypes'
    BY <1>1 DEF ReleaseTypes, Release
<1>3. /\ canary'[r].status = status /\ canary'[r].pct = canary[r].pct
      /\ \A q \in Releases \ {r} : canary'[q] = canary[q]
    BY <1>1 DEF ReleaseTypes, Release
<1>4. Canaries!TrafficOnlyToRunning'
    BY <1>1, <1>2, <1>3 DEF ReleaseTypes, Canaries!TrafficOnlyToRunning
<1>5. Canaries!PromotedAtFull'
    BY <1>1, <1>3 DEF Canaries!PromotedAtFull
<1> QED
    BY <1>2, <1>4, <1>5

LEMMA CanaryChecked ==
    ASSUME ReleaseTypes, Canaries!TrafficOnlyToRunning, Canaries!PromotedAtFull,
           NEW r \in Releases, Canaries!CheckCanary(r), picked' \in Releases \cup {none}
    PROVE  ReleaseTypes' /\ Canaries!TrafficOnlyToRunning' /\ Canaries!PromotedAtFull'
<1>1. CASE Canaries!Decision(r) = "rollback"
  <2>1. Canaries!End(r, "ROLLED_BACK")
      BY <1>1 DEF Canaries!CheckCanary
  <2> QED
      BY <2>1, CanaryEnds DEF Canaries!Ended
<1>2. CASE Canaries!Decision(r) = "promote"
  <2>1. Canaries!End(r, "SUCCEEDED")
      BY <1>2 DEF Canaries!CheckCanary
  <2>2. canary[r].pct >= FullShare
      BY <1>2 DEF Canaries!Decision
  <2>3. canary[r].pct = FullShare
    <3>1. canary[r].pct \in 0 .. FullShare
        BY DEF ReleaseTypes, Release
    <3> QED
        BY <2>2, <3>1, RecordsAssumption
  <2> QED
      BY <2>1, <2>3, CanaryEnds DEF Canaries!Ended
<1>3. CASE Canaries!Decision(r) = "increment"
  <2> DEFINE larger == Canaries!Least(canary[r].pct + ShareStep, FullShare)
  <2>1. /\ canary' = [canary EXCEPT ![r].pct = larger, ![r].due = FALSE]
        /\ active' = active
      BY <1>3 DEF Canaries!CheckCanary
  <2>2. canary[r].status = "RUNNING"
      BY <1>3 DEF Canaries!Decision, Canaries!CanIncrement
  <2>3. larger \in 0 .. FullShare
      BY RecordsAssumption DEF ReleaseTypes, Release, Canaries!Least
  <2> HIDE DEF larger
  <2>4. ReleaseTypes'
      BY <2>1, <2>3, Flags DEF ReleaseTypes, Release
  <2>5. /\ canary'[r].status = canary[r].status
        /\ \A q \in Releases \ {r} : canary'[q] = canary[q]
      BY <2>1 DEF ReleaseTypes, Release
  <2> QED
      BY <2>1, <2>2, <2>4, <2>5
         DEF ReleaseTypes, Canaries!TrafficOnlyToRunning, Canaries!PromotedAtFull
<1>4. CASE Canaries!Decision(r) = "nothing"
  <2>1. UNCHANGED <<canary, active>>
      BY <1>4 DEF Canaries!CheckCanary
  <2> QED
      BY <2>1 DEF ReleaseTypes, Canaries!TrafficOnlyToRunning, Canaries!PromotedAtFull
<1>5. Canaries!Decision(r) \in {"rollback", "promote", "increment", "nothing"}
    BY DEF Canaries!Decision
<1> QED
    BY <1>1, <1>2, <1>3, <1>4, <1>5

LEMMA CanaryNext ==
    ASSUME ReleaseTypes, Canaries!TrafficOnlyToRunning, Canaries!PromotedAtFull, Canaries!Next
    PROVE  ReleaseTypes' /\ Canaries!TrafficOnlyToRunning' /\ Canaries!PromotedAtFull'
<1> USE RecordsAssumption, Flags
<1>1. ASSUME NEW r \in Releases, Canaries!Create(r)
      PROVE  ReleaseTypes' /\ Canaries!TrafficOnlyToRunning' /\ Canaries!PromotedAtFull'
  <2>1. ReleaseTypes'
      BY <1>1 DEF Canaries!Create, ReleaseTypes, Release
  <2>2. /\ canary'[r].status = "PENDING" /\ canary[r].status = "new"
        /\ \A q \in Releases \ {r} : canary'[q] = canary[q]
      BY <1>1 DEF Canaries!Create, ReleaseTypes, Release
  <2> QED
      BY <1>1, <2>1, <2>2
         DEF Canaries!Create, ReleaseTypes, Canaries!TrafficOnlyToRunning, Canaries!PromotedAtFull
<1>2. ASSUME NEW r \in Releases, Canaries!Start(r)
      PROVE  ReleaseTypes' /\ Canaries!TrafficOnlyToRunning' /\ Canaries!PromotedAtFull'
  <2>1. ReleaseTypes'
    <3>1. FirstShare \in 0 .. FullShare /\ ReleaseOf[r] \in Strategies
        OBVIOUS
    <3> DEFINE ran == [canary EXCEPT ![r].status = "RUNNING"]
               shared == [ran EXCEPT ![r].pct = FirstShare]
    <3>2. canary' \in [Releases -> Release]
      <4>1. ran \in [Releases -> Release]
          BY DEF ReleaseTypes, Release
      <4>2. canary' = [shared EXCEPT ![r].due = FALSE]
          BY <1>2 DEF Canaries!Start
      <4> HIDE DEF ran
      <4>3. shared \in [Releases -> Release]
          BY <3>1, <4>1 DEF Release
      <4> HIDE DEF shared
      <4> QED
          BY <4>2, <4>3 DEF Release
    <3> QED
        BY <1>2, <3>1, <3>2 DEF Canaries!Start, ReleaseTypes
  <2>2. /\ canary'[r].status = "RUNNING" /\ canary[r].status = "PENDING"
        /\ \A q \in Releases \ {r} : canary'[q] = canary[q]
      BY <1>2 DEF Canaries!Start, ReleaseTypes, Release
  <2> QED
      BY <1>2, <2>1, <2>2
         DEF Canaries!Start, ReleaseTypes, Canaries!TrafficOnlyToRunning, Canaries!PromotedAtFull
<1>3. ASSUME NEW r \in Releases, Canaries!IntervalPasses(r)
      PROVE  ReleaseTypes' /\ Canaries!TrafficOnlyToRunning' /\ Canaries!PromotedAtFull'
  <2>1. ReleaseTypes'
      BY <1>3 DEF Canaries!IntervalPasses, ReleaseTypes, Release
  <2>2. \A q \in Releases : canary'[q].status = canary[q].status /\ canary'[q].pct = canary[q].pct
      BY <1>3 DEF Canaries!IntervalPasses, ReleaseTypes, Release
  <2> QED
      BY <1>3, <2>1, <2>2
         DEF Canaries!IntervalPasses, ReleaseTypes, Canaries!TrafficOnlyToRunning,
             Canaries!PromotedAtFull
<1>4. ASSUME NEW s \in Strategies, Canaries!RecordMetrics(s)
      PROVE  ReleaseTypes' /\ Canaries!TrafficOnlyToRunning' /\ Canaries!PromotedAtFull'
  <2>1. PICK m \in {"good", "bad"} : canary' = [canary EXCEPT ![active[s]].sample = m]
      BY <1>4 DEF Canaries!RecordMetrics
  <2>2. active[s] \in Releases /\ UNCHANGED <<active, picked>>
      BY <1>4 DEF Canaries!RecordMetrics, ReleaseTypes
  <2>3. ReleaseTypes'
      BY <2>1, <2>2 DEF ReleaseTypes, Release
  <2>4. \A q \in Releases : canary'[q].status = canary[q].status /\ canary'[q].pct = canary[q].pct
      BY <2>1, <2>2 DEF ReleaseTypes, Release
  <2> QED
      BY <2>2, <2>3, <2>4
         DEF ReleaseTypes, Canaries!TrafficOnlyToRunning, Canaries!PromotedAtFull
<1>5. ASSUME NEW r \in Releases, Canaries!Check(r)
      PROVE  ReleaseTypes' /\ Canaries!TrafficOnlyToRunning' /\ Canaries!PromotedAtFull'
  <2>1. Canaries!CheckCanary(r) /\ picked' \in Releases \cup {none}
      BY <1>5 DEF Canaries!Check, ReleaseTypes
  <2> QED
      BY <2>1, CanaryChecked
<1>6. ASSUME NEW r \in Releases, Canaries!Abort(r)
      PROVE  ReleaseTypes' /\ Canaries!TrafficOnlyToRunning' /\ Canaries!PromotedAtFull'
  <2>1. Canaries!End(r, "ABORTED") /\ picked' \in Releases \cup {none}
      BY <1>6 DEF Canaries!Abort, ReleaseTypes
  <2> QED
      BY <2>1, CanaryEnds DEF Canaries!Ended
<1>7. ASSUME NEW s \in Strategies, Canaries!MonitorPick(s)
      PROVE  ReleaseTypes' /\ Canaries!TrafficOnlyToRunning' /\ Canaries!PromotedAtFull'
    BY <1>7 DEF Canaries!MonitorPick, ReleaseTypes, Canaries!TrafficOnlyToRunning,
                Canaries!PromotedAtFull
<1>8. ASSUME Canaries!MonitorCheck
      PROVE  ReleaseTypes' /\ Canaries!TrafficOnlyToRunning' /\ Canaries!PromotedAtFull'
  <2>1. /\ picked \in Releases /\ Canaries!CheckCanary(picked)
        /\ picked' \in Releases \cup {none}
      BY <1>8 DEF Canaries!MonitorCheck, ReleaseTypes
  <2> QED
      BY <2>1, CanaryChecked
<1> QED
    BY <1>1, <1>2, <1>3, <1>4, <1>5, <1>6, <1>7, <1>8 DEF Canaries!Next

LEMMA CanaryInvariance == CanaryInv /\ [Next]_vars => CanaryInv'
<1> SUFFICES ASSUME CanaryInv, [Next]_vars, part' = "canaries"
             PROVE  ReleaseTypes' /\ Canaries!TrafficOnlyToRunning' /\ Canaries!PromotedAtFull'
    BY DEF CanaryInv
<1>1. CASE Next
  <2>1. part = "canaries"
      BY <1>1 DEF Next
  <2>2. ReleaseTypes /\ Canaries!TrafficOnlyToRunning /\ Canaries!PromotedAtFull
      BY <2>1 DEF CanaryInv
  <2>3. Canaries!Next
      BY <1>1, <2>1 DEF Next, Work, Judge, Explain, Resume, Keep
  <2> QED
      BY <2>2, <2>3, CanaryNext
<1>2. CASE UNCHANGED vars
  <2>1. part = "canaries" /\ UNCHANGED <<canary, active, picked>>
      BY <1>2 DEF vars, workVars, canaryVars
  <2> QED
      BY <2>1 DEF CanaryInv, ReleaseTypes, Canaries!TrafficOnlyToRunning, Canaries!PromotedAtFull
<1> QED
    BY <1>1, <1>2

(* No request is routed to a canary that has ended, and none is SUCCEEDED  *)
(* with less than the full share, however checks, aborts and the monitor   *)
(* take turns.                                                             *)
THEOREM CanariesKeepTheirPlace == Spec => []CanariesSound
<1>1. CanaryInv => CanariesSound
  <2>1. ReleaseTypes => Canaries!TypeOK
      BY DEF ReleaseTypes, Release, Flag, Canaries!TypeOK
  <2> QED
      BY <2>1 DEF CanaryInv, CanariesSound
<1> QED
    BY <1>1, CanaryInit, CanaryInvariance, PTL DEF Spec

-----------------------------------------------------------------------------
(* The cardinality an instance of a module counts with.                    *)
LEMMA QueueCardinality == \A S : Learning!Cardinality(S) = Cardinality(S)
    BY DEF Learning!Cardinality, Cardinality

LEMMA LearningInit == Init => LearningInv
<1> SUFFICES ASSUME Init PROVE LearningTypes /\ \A t \in Lessons : LessonInv(t)
    BY DEF LearningInv
<1>1. Learning!Absent \in Lesson
  <2>1. 0 \in 0 .. MaxAttempts
      BY RecordsAssumption
  <2> QED
      BY <2>1, Flags, Zenon DEF Learning!Absent, Lesson
<1>2. Learning!Off \in Learner
    BY DEF Learning!Off, Learner
<1>3. IsFiniteSet({}) /\ Cardinality({}) = 0
    BY FS_EmptySet
<1>4. LearningTypes
    BY <1>1, <1>2, <1>3, RecordsAssumption DEF Init, Learning!Init, LearningTypes, Learning!Off
<1>5. ASSUME NEW t \in Lessons PROVE LessonInv(t)
  <2>1. ~ Waits(t) /\ ~ Handles(t) /\ \A w \in Learners : ~ Has(w, t)
      BY DEF Init, Learning!Init, Learning!Off, Waits, Handles, Has, Holds
  <2>2. /\ submitting[t] = "new" /\ attempts[t] = 0
        /\ task[t].status = "absent" /\ task[t].retries = 0 /\ ~ task[t].ended
      BY DEF Init, Learning!Init, Learning!Absent
  <2> QED
      BY <2>1, <2>2, RecordsAssumption DEF LessonInv, OneCopy, Counted, Reachable
<1> QED
    BY <1>4, <1>5

(* A step with one task leaves the others as they were.                    *)
HasNoOther(w, t) == worker[w].at \in {"off", "get"} \/ worker[w].id = t

LEMMA OtherLessons ==
    ASSUME NEW t \in Lessons, \A u \in Lessons : LessonInv(u), LessonInv(t)',
           \A u \in Lessons \ {t} :
              /\ task'[u] = task[u] /\ submitting'[u] = submitting[u]
              /\ attempts'[u] = attempts[u]
              /\ u \in queue' <=> u \in queue
              /\ u \in late => u \in late',
           \A w \in Learners :
              worker'[w] = worker[w] \/ (HasNoOther(w, t) /\ HasNoOther(w, t)')
    PROVE  \A u \in Lessons : LessonInv(u)'
<1> SUFFICES ASSUME NEW u \in Lessons \ {t} PROVE LessonInv(u)'
    OBVIOUS
<1>1. \A w \in Learners :
         /\ Holds(w, u, "taken")' <=> Holds(w, u, "taken")
         /\ Holds(w, u, "handler")' <=> Holds(w, u, "handler")
         /\ Holds(w, u, "retry")' <=> Holds(w, u, "retry")
    BY DEF Holds, HasNoOther
<1>2. /\ Waits(u)' <=> Waits(u)
      /\ Handles(u)' <=> Handles(u)
      /\ \A w \in Learners : Has(w, u)' <=> Has(w, u)
    BY <1>1 DEF Waits, Handles, Has
<1>3. /\ task'[u] = task[u] /\ submitting'[u] = submitting[u] /\ attempts'[u] = attempts[u]
      /\ u \in queue' <=> u \in queue
      /\ u \in late => u \in late'
      /\ LessonInv(u)
    OBVIOUS
<1>4. OneCopy(u)'
    BY <1>2, <1>3 DEF LessonInv, OneCopy
<1>5. Counted(u)'
    BY <1>2, <1>3 DEF LessonInv, Counted
<1>6. Reachable(u)'
    BY <1>2, <1>3 DEF LessonInv, Reachable
<1> QED
    BY <1>4, <1>5, <1>6 DEF LessonInv

(* Whether a task waits or is handled depends on the queue and the workers *)
LEMMA SamePlace ==
    ASSUME NEW t \in Lessons, UNCHANGED worker, t \in queue' <=> t \in queue
    PROVE  /\ Waits(t)' <=> Waits(t)
           /\ Handles(t)' <=> Handles(t)
           /\ \A w \in Learners : Has(w, t)' <=> Has(w, t)
    BY DEF Waits, Handles, Has, Holds

(* submit(), cancel_task and cleanup_completed                             *)
LEMMA CallersStep ==
    ASSUME LearningTypes, \A u \in Lessons : LessonInv(u), NEW t \in Lessons,
           \/ Learning!Submit(t) \/ Learning!Enqueue(t) \/ Learning!MarkQueued(t)
           \/ Learning!Cancel(t) \/ Learning!Cleanup(t)
    PROVE  LearningTypes' /\ \A u \in Lessons : LessonInv(u)'
<1>1. LessonInv(t) /\ UNCHANGED <<worker, attempts, lock>>
    BY DEF Learning!Submit, Learning!Enqueue, Learning!MarkQueued, Learning!Cancel,
           Learning!Cleanup
<1>2. CASE Learning!Submit(t)
  <2>1. /\ task' = [task EXCEPT ![t].status = "PENDING"]
        /\ submitting' = [submitting EXCEPT ![t] = "put"] /\ submitting[t] = "new"
        /\ UNCHANGED <<queue, sentinels, late>>
      BY <1>2 DEF Learning!Submit
  <2>2. task' \in [Lessons -> Lesson]
      BY <2>1 DEF LearningTypes, Lesson
  <2>3. LearningTypes'
      BY <1>1, <2>1, <2>2 DEF LearningTypes
  <2>4. /\ task'[t].status = "PENDING" /\ task'[t].retries = task[t].retries
        /\ task'[t].ended = task[t].ended /\ submitting'[t] = "put"
        /\ \A u \in Lessons \ {t} : task'[u] = task[u] /\ submitting'[u] = submitting[u]
      BY <2>1 DEF LearningTypes, Lesson
  <2>5. LessonInv(t)'
      BY <1>1, <2>1, <2>4, SamePlace DEF LessonInv, OneCopy, Counted, Reachable
  <2> QED
      BY <1>1, <2>1, <2>3, <2>4, <2>5, OtherLessons
<1>3. CASE Learning!Enqueue(t)
  <2>1. /\ queue' = queue \cup {t} /\ submitting[t] = "put"
        /\ Cardinality(queue) + sentinels < QueueSize
        /\ submitting' = [submitting EXCEPT ![t] = "mark"]
        /\ UNCHANGED <<task, sentinels, late>>
      BY <1>3, QueueCardinality DEF Learning!Enqueue, Learning!Room
  <2>2. ~ Waits(t) /\ ~ Handles(t)
      BY <1>1, <2>1 DEF LessonInv, OneCopy
  <2>3. IsFiniteSet(queue') /\ Cardinality(queue') = Cardinality(queue) + 1
      BY <2>1, <2>2, FS_AddElement DEF LearningTypes, Waits
  <2>4. Cardinality(queue') + sentinels <= QueueSize
      BY <2>1, <2>3, FS_CardinalityType, RecordsAssumption DEF LearningTypes
  <2>5. LearningTypes'
      BY <1>1, <2>1, <2>3, <2>4 DEF LearningTypes
  <2>6. /\ submitting'[t] = "mark" /\ Waits(t)' /\ ~ Handles(t)'
        /\ \A w \in Learners : ~ Has(w, t)'
      BY <1>1, <2>1, <2>2 DEF LearningTypes, Waits, Handles, Has, Holds
  <2>7. attempts[t] = 0 /\ task[t].retries = 0 /\ ~ task[t].ended
      BY <1>1, <2>1 DEF LessonInv, Counted
  <2>8. LessonInv(t)'
      BY <1>1, <2>1, <2>6, <2>7, RecordsAssumption DEF LessonInv, OneCopy, Counted, Reachable
  <2>9. \A u \in Lessons \ {t} : submitting'[u] = submitting[u] /\ (u \in queue' <=> u \in queue)
      BY <2>1 DEF LearningTypes
  <2> QED
      BY <1>1, <2>1, <2>5, <2>8, <2>9, OtherLessons
<1>4. CASE Learning!MarkQueued(t)
  <2>1. /\ submitting[t] = "mark" /\ submitting' = [submitting EXCEPT ![t] = "returned"]
        /\ late' = IF task[t].status = "PENDING" THEN late ELSE late \cup {t}
        /\ task' = IF task[t].status = "absent" THEN task
                   ELSE [task EXCEPT ![t].status = "QUEUED"]
        /\ UNCHANGED <<queue, sentinels>>
      BY <1>4 DEF Learning!MarkQueued
  <2>2. task' \in [Lessons -> Lesson]
      BY <2>1 DEF LearningTypes, Lesson
  <2>3. LearningTypes'
      BY <1>1, <2>1, <2>2 DEF LearningTypes
  <2>4. /\ task'[t].retries = task[t].retries /\ task'[t].ended = task[t].ended
        /\ task'[t].status = "QUEUED" => task[t].status # "absent"
        /\ submitting'[t] = "returned"
        /\ \A u \in Lessons \ {t} : task'[u] = task[u] /\ submitting'[u] = submitting[u]
      BY <2>1 DEF LearningTypes, Lesson
  <2>5. t \notin late' => Waits(t)
      BY <1>1, <2>1 DEF LessonInv, Reachable
  <2>6. LessonInv(t)'
      BY <1>1, <2>1, <2>4, <2>5, SamePlace DEF LessonInv, OneCopy, Counted, Reachable
  <2> QED
      BY <1>1, <2>1, <2>3, <2>4, <2>6, OtherLessons
<1>5. CASE Learning!Cancel(t)
  <2>1. /\ task' = [task EXCEPT ![t].status = "CANCELLED"]
        /\ UNCHANGED <<submitting, queue, sentinels, late>>
      BY <1>5 DEF Learning!Cancel
  <2>2. task' \in [Lessons -> Lesson]
      BY <2>1 DEF LearningTypes, Lesson
  <2>3. LearningTypes'
      BY <1>1, <2>1, <2>2 DEF LearningTypes
  <2>4. /\ task'[t].status = "CANCELLED" /\ task'[t].retries = task[t].retries
        /\ task'[t].ended = task[t].ended
        /\ \A u \in Lessons \ {t} : task'[u] = task[u]
      BY <2>1 DEF LearningTypes, Lesson
  <2>5. LessonInv(t)'
      BY <1>1, <2>1, <2>4, SamePlace DEF LessonInv, OneCopy, Counted, Reachable
  <2> QED
      BY <1>1, <2>1, <2>3, <2>4, <2>5, OtherLessons
<1>6. CASE Learning!Cleanup(t)
  <2>1. /\ task' = [task EXCEPT ![t] = Learning!Absent] /\ task[t].ended
        /\ UNCHANGED <<submitting, queue, sentinels, late>>
      BY <1>6 DEF Learning!Cleanup
  <2>2. Learning!Absent \in Lesson
    <3>1. 0 \in 0 .. MaxAttempts
        BY RecordsAssumption
    <3> QED
        BY <3>1, Flags, Zenon DEF Learning!Absent, Lesson
  <2>3. LearningTypes'
      BY <1>1, <2>1, <2>2 DEF LearningTypes
  <2>4. /\ task'[t].status = "absent"
        /\ \A u \in Lessons \ {t} : task'[u] = task[u]
      BY <2>1 DEF LearningTypes, Learning!Absent
  <2>5. ~ Waits(t) /\ ~ Handles(t) /\ submitting[t] \notin {"new", "put"}
      BY <1>1, <2>1 DEF LessonInv, Counted
  <2>6. LessonInv(t)'
      BY <1>1, <2>1, <2>4, <2>5, SamePlace DEF LessonInv, OneCopy, Counted, Reachable
  <2> QED
      BY <1>1, <2>1, <2>3, <2>4, <2>6, OtherLessons
<1> QED
    BY <1>2, <1>3, <1>4, <1>5, <1>6

(* What a worker does when it is done with a task.                         *)
LEMMA LoopsOn ==
    Learning!Loop \in Learner /\ Learning!Loop.at \in {"off", "get"}
    BY DEF Learning!Loop, Learning!Idle, Learning!Off, Learner

(* One worker, with a task or without, changes; nothing else is written.   *)
LEMMA WorkerTypes ==
    ASSUME LearningTypes, NEW w \in Learners, NEW next \in Learner,
           next.at \in {"taken", "handler", "retry"} => next.id \in Lessons,
           worker' = [worker EXCEPT ![w] = next]
    PROVE  /\ worker' \in [Learners -> Learner]
           /\ \A v \in Learners :
                 worker'[v].at \in {"taken", "handler", "retry"} => worker'[v].id \in Lessons
           /\ worker'[w] = next /\ \A v \in Learners \ {w} : worker'[v] = worker[v]
<1>1. worker'[w] = next /\ \A v \in Learners \ {w} : worker'[v] = worker[v]
    BY DEF LearningTypes
<1>2. worker' \in [Learners -> Learner]
    BY DEF LearningTypes
<1>3. ASSUME NEW v \in Learners, worker'[v].at \in {"taken", "handler", "retry"}
      PROVE  worker'[v].id \in Lessons
    BY <1>1, <1>3 DEF LearningTypes
<1> QED
    BY <1>1, <1>2, <1>3

LEMMA TakeStep ==
    ASSUME LearningTypes, \A u \in Lessons : LessonInv(u), NEW w \in Learners, Learning!Take(w)
    PROVE  LearningTypes' /\ \A u \in Lessons : LessonInv(u)'
<1>1. /\ worker[w].at = "get"
      /\ UNCHANGED <<task, submitting, lock, attempts, late>>
    BY DEF Learning!Take
<1>2. CASE /\ queue' = queue /\ sentinels' \in {sentinels, sentinels - 1}
           /\ sentinels' # sentinels => sentinels > 0
           /\ worker' = [worker EXCEPT ![w] = Learning!Off]
  <2>1. Learning!Off \in Learner /\ Learning!Off.at = "off"
      BY DEF Learning!Off, Learner
  <2>2. /\ worker' \in [Learners -> Learner]
        /\ \A v \in Learners :
              worker'[v].at \in {"taken", "handler", "retry"} => worker'[v].id \in Lessons
        /\ worker'[w] = Learning!Off /\ \A v \in Learners \ {w} : worker'[v] = worker[v]
      BY <1>2, <2>1, WorkerTypes
  <2>3. sentinels' \in Nat /\ Cardinality(queue') + sentinels' <= QueueSize
      BY <1>2, FS_CardinalityType, RecordsAssumption DEF LearningTypes
  <2>4. LearningTypes'
      BY <1>1, <1>2, <2>2, <2>3 DEF LearningTypes
  <2>5. ASSUME NEW u \in Lessons PROVE LessonInv(u)'
    <3>1. \A v \in Learners :
             /\ Holds(v, u, "taken")' <=> Holds(v, u, "taken")
             /\ Holds(v, u, "handler")' <=> Holds(v, u, "handler")
             /\ Holds(v, u, "retry")' <=> Holds(v, u, "retry")
        BY <1>1, <2>1, <2>2 DEF Holds
    <3>2. /\ Waits(u)' <=> Waits(u)
          /\ Handles(u)' <=> Handles(u)
          /\ \A v \in Learners : Has(v, u)' <=> Has(v, u)
        BY <1>2, <3>1 DEF Waits, Handles, Has
    <3>3. LessonInv(u)
        OBVIOUS
    <3> QED
        BY <1>1, <1>2, <3>2, <3>3 DEF LessonInv, OneCopy, Counted, Reachable
  <2> QED
      BY <2>4, <2>5
<1>3. ASSUME NEW t \in queue, queue' = queue \ {t}, sentinels' = sentinels,
             worker' = [worker EXCEPT ![w] = [at |-> "taken", id |-> t]]
      PROVE  LearningTypes' /\ \A u \in Lessons : LessonInv(u)'
  <2> DEFINE next == [at |-> "taken", id |-> t]
  <2>1. t \in Lessons /\ next \in Learner /\ next.at = "taken" /\ next.id = t
      BY DEF LearningTypes, Learner
  <2>2. worker' = [worker EXCEPT ![w] = next]
      BY <1>3
  <2> HIDE DEF next
  <2>3. /\ worker' \in [Learners -> Learner]
        /\ \A v \in Learners :
              worker'[v].at \in {"taken", "handler", "retry"} => worker'[v].id \in Lessons
        /\ worker'[w] = next /\ \A v \in Learners \ {w} : worker'[v] = worker[v]
      BY <2>1, <2>2, WorkerTypes
  <2>4. IsFiniteSet(queue') /\ Cardinality(queue') = Cardinality(queue) - 1
      BY <1>3, FS_RemoveElement DEF LearningTypes
  <2>5. Cardinality(queue') + sentinels' <= QueueSize
      BY <1>3, <2>4, FS_CardinalityType, RecordsAssumption DEF LearningTypes
  <2>6. LearningTypes'
      BY <1>1, <1>3, <2>3, <2>4, <2>5 DEF LearningTypes
  <2>7. Waits(t) /\ LessonInv(t)
      BY <1>3, <2>1 DEF Waits
  <2>8. \A v \in Learners : ~ Has(v, t)
      BY <1>3, <2>7 DEF LessonInv, OneCopy
  <2>9. /\ \A v \in Learners \ {w} : ~ Has(v, t)'
        /\ Holds(w, t, "taken")' /\ ~ Handles(t)' /\ Waits(t)'
      BY <2>1, <2>3, <2>8 DEF Has, Holds, Handles, Waits
  <2>10. LessonInv(t)'
      BY <1>1, <1>3, <2>7, <2>9 DEF LessonInv, OneCopy, Counted, Reachable
  <2>11. HasNoOther(w, t) /\ HasNoOther(w, t)'
      BY <1>1, <2>1, <2>3 DEF HasNoOther
  <2> QED
      BY <1>1, <1>3, <2>1, <2>3, <2>6, <2>10, <2>11, OtherLessons
<1> QED
    BY <1>2, <1>3 DEF Learning!Take

(* The steps of a worker that has a task.                                  *)
LEMMA WorkerStep ==
    ASSUME LearningTypes, \A u \in Lessons : LessonInv(u), NEW w \in Learners,
           \/ Learning!Begin(w) \/ Learning!Complete(w) \/ Learning!Raise(w)
           \/ Learning!Requeue(w)
    PROVE  LearningTypes' /\ \A u \in Lessons : LessonInv(u)'
<1>1. /\ worker[w].at \in {"taken", "handler", "retry"}
      /\ UNCHANGED <<submitting, sentinels, late>>
    BY DEF Learning!Begin, Learning!Complete, Learning!Raise, Learning!Requeue
<1>0. PICK t \in Lessons : worker[w].id = t
    BY <1>1 DEF LearningTypes
<1>2. t \in Lessons /\ Has(w, t) /\ HasNoOther(w, t)
    BY <1>0, <1>1 DEF Has, Holds, HasNoOther
<1>3. LessonInv(t) /\ t \notin queue /\ \A v \in Learners \ {w} : ~ Has(v, t)
    BY <1>2 DEF LessonInv, OneCopy
<1>4. submitting[t] \notin {"new", "put"}
    BY <1>2, <1>3 DEF LessonInv, OneCopy, Has, Waits, Handles
<1>5. /\ worker[w].at \in {"taken", "retry"} => Waits(t)
      /\ worker[w].at = "handler" => Handles(t)
    BY <1>0 DEF Waits, Handles, Holds
(* the task leaves the worker's hands for good, or is dropped *)
<1>6. ASSUME NEW next, worker' = [worker EXCEPT ![w] = next], next = Learning!Loop,
             queue' = queue, lock' \in Learners \cup {none},
             task' \in [Lessons -> Lesson], attempts' = attempts,
             task'[t].status \notin {"QUEUED", "PENDING"},
             \A u \in Lessons \ {t} : task'[u] = task[u]
      PROVE  LearningTypes' /\ \A u \in Lessons : LessonInv(u)'
  <2>1. next \in Learner /\ next.at \in {"off", "get"}
      BY <1>6, LoopsOn
  <2>2. /\ worker' \in [Learners -> Learner]
        /\ \A v \in Learners :
              worker'[v].at \in {"taken", "handler", "retry"} => worker'[v].id \in Lessons
        /\ worker'[w] = next /\ \A v \in Learners \ {w} : worker'[v] = worker[v]
      BY <1>6, <2>1, WorkerTypes
  <2>3. LearningTypes'
      BY <1>1, <1>6, <2>2 DEF LearningTypes
  <2>4. \A v \in Learners : ~ Has(v, t)'
      BY <1>3, <2>1, <2>2 DEF Has, Holds
  <2>5. ~ Waits(t)' /\ ~ Handles(t)'
      BY <1>3, <1>6, <2>4 DEF Waits, Handles, Has
  <2>6. LessonInv(t)'
      BY <1>1, <1>3, <1>4, <1>6, <2>4, <2>5 DEF LessonInv, OneCopy, Counted, Reachable
  <2>7. HasNoOther(w, t)'
      BY <2>1, <2>2 DEF HasNoOther
  <2> QED
      BY <1>1, <1>2, <1>6, <2>2, <2>3, <2>6, <2>7, OtherLessons
(* it goes on with it *)
<1>7. ASSUME NEW at \in {"handler", "retry"}, worker' = [worker EXCEPT ![w].at = at]
      PROVE  /\ worker' \in [Learners -> Learner]
             /\ \A v \in Learners :
                   worker'[v].at \in {"taken", "handler", "retry"} => worker'[v].id \in Lessons
             /\ worker'[w].at = at /\ worker'[w].id = t
             /\ \A v \in Learners \ {w} : worker'[v] = worker[v]
             /\ \A v \in Learners \ {w} : ~ Has(v, t)'
             /\ HasNoOther(w, t)'
  <2>1. worker' \in [Learners -> Learner] /\ worker'[w].at = at /\ worker'[w].id = t
      BY <1>0, <1>7 DEF LearningTypes, Learner
  <2>2. \A v \in Learners \ {w} : worker'[v] = worker[v]
      BY <1>7 DEF LearningTypes
  <2>3. \A v \in Learners :
           worker'[v].at \in {"taken", "handler", "retry"} => worker'[v].id \in Lessons
      BY <1>2, <2>1, <2>2 DEF LearningTypes
  <2> QED
      BY <1>3, <2>1, <2>2, <2>3 DEF Has, Holds, HasNoOther
<1>8. CASE Learning!Begin(w)
  <2>1. CASE task[t].status \in {"absent", "CANCELLED"}
    <3>1. /\ worker' = [worker EXCEPT ![w] = Learning!Loop]
          /\ UNCHANGED <<task, attempts, queue, lock>>
        BY <1>0, <1>8, <2>1 DEF Learning!Begin
    <3>2. task' \in [Lessons -> Lesson] /\ lock' \in Learners \cup {none}
        BY <3>1 DEF LearningTypes
    <3> QED
        BY <1>6, <2>1, <3>1, <3>2
  <2>2. CASE task[t].status \notin {"absent", "CANCELLED"}
    <3>1. /\ worker' = [worker EXCEPT ![w].at = "handler"] /\ worker[w].at = "taken"
          /\ task' = [task EXCEPT ![t].status = "PROCESSING"]
          /\ attempts' = [attempts EXCEPT ![t] = @ + 1]
          /\ UNCHANGED <<queue, lock>>
        BY <1>0, <1>8, <2>2 DEF Learning!Begin
    <3>2. /\ worker' \in [Learners -> Learner]
          /\ \A v \in Learners :
                worker'[v].at \in {"taken", "handler", "retry"} => worker'[v].id \in Lessons
          /\ worker'[w].at = "handler" /\ worker'[w].id = t
          /\ \A v \in Learners \ {w} : worker'[v] = worker[v]
          /\ \A v \in Learners \ {w} : ~ Has(v, t)'
          /\ HasNoOther(w, t)'
        BY <1>7, <3>1
    <3>3. task' \in [Lessons -> Lesson]
        BY <1>2, <3>1 DEF LearningTypes, Lesson
    <3>4. attempts' \in [Lessons -> Nat]
        BY <1>2, <3>1 DEF LearningTypes
    <3>5. LearningTypes'
        BY <1>1, <3>1, <3>2, <3>3, <3>4 DEF LearningTypes
    <3>6. /\ task'[t].status = "PROCESSING" /\ task'[t].retries = task[t].retries
          /\ task'[t].ended = task[t].ended /\ attempts'[t] = attempts[t] + 1
          /\ \A u \in Lessons \ {t} : task'[u] = task[u] /\ attempts'[u] = attempts[u]
        BY <1>2, <3>1 DEF LearningTypes, Lesson
    <3>7. /\ attempts[t] = task[t].retries /\ task[t].retries < MaxAttempts
          /\ ~ task[t].ended /\ task[t].retries \in Nat
      <4>1. task[t].retries \in Nat
          BY <1>2 DEF LearningTypes, Lesson
      <4> QED
          BY <1>3, <1>5, <3>1, <4>1 DEF LessonInv, Counted
    <3>8. ~ Waits(t)' /\ Handles(t)'
        BY <1>2, <1>3, <3>1, <3>2 DEF Waits, Handles, Has, Holds
    <3>9. Counted(t)'
        BY <1>1, <1>4, <3>6, <3>7, <3>8, RecordsAssumption DEF Counted
    <3>10. OneCopy(t)'
        BY <1>1, <1>3, <1>4, <3>1, <3>2 DEF OneCopy
    <3>11. LessonInv(t)'
        BY <3>6, <3>9, <3>10 DEF LessonInv, Reachable
    <3> QED
        BY <1>1, <1>2, <3>1, <3>2, <3>5, <3>6, <3>11, OtherLessons
  <2> QED
      BY <2>1, <2>2
<1>9. CASE Learning!Complete(w)
  <2>1. /\ worker' = [worker EXCEPT ![w] = Learning!Loop]
        /\ task' = [task EXCEPT ![t].status = "COMPLETED", ![t].ended = TRUE]
        /\ UNCHANGED <<attempts, queue, lock>>
      BY <1>0, <1>9 DEF Learning!Complete
  <2>2. task' \in [Lessons -> Lesson]
      BY <1>2, <2>1, Flags DEF LearningTypes, Lesson
  <2>3. /\ task'[t].status = "COMPLETED" /\ \A u \in Lessons \ {t} : task'[u] = task[u]
        /\ lock' \in Learners \cup {none}
      BY <1>2, <2>1 DEF LearningTypes, Lesson
  <2> QED
      BY <1>6, <2>1, <2>2, <2>3
<1>10. CASE Learning!Raise(w)
  <2>1. /\ task[t].retries \in 0 .. MaxAttempts /\ attempts[t] = task[t].retries + 1
        /\ task[t].retries < MaxAttempts /\ ~ task[t].ended
    <3>1. task[t].retries \in 0 .. MaxAttempts
        BY <1>2 DEF LearningTypes, Lesson
    <3>2. worker[w].at = "handler"
        BY <1>10 DEF Learning!Raise
    <3> QED
        BY <1>3, <1>5, <3>1, <3>2 DEF LessonInv, Counted
  <2>2. task[t].retries + 1 \in 0 .. MaxAttempts
      BY <2>1, RecordsAssumption
  <2>3. CASE task[t].retries + 1 < MaxAttempts
    <3>1. /\ task' = [task EXCEPT ![t].status = "QUEUED", ![t].retries = @ + 1]
          /\ lock' = w /\ worker' = [worker EXCEPT ![w].at = "retry"]
          /\ UNCHANGED <<queue, attempts>>
        BY <1>0, <1>10, <2>3 DEF Learning!Raise, Learning!Retries
    <3>2. /\ worker' \in [Learners -> Learner]
          /\ \A v \in Learners :
                worker'[v].at \in {"taken", "handler", "retry"} => worker'[v].id \in Lessons
          /\ worker'[w].at = "retry" /\ worker'[w].id = t
          /\ \A v \in Learners \ {w} : worker'[v] = worker[v]
          /\ \A v \in Learners \ {w} : ~ Has(v, t)'
          /\ HasNoOther(w, t)'
        BY <1>7, <3>1
    <3>3. task' \in [Lessons -> Lesson]
        BY <1>2, <2>2, <3>1 DEF LearningTypes, Lesson
    <3>4. LearningTypes'
        BY <1>1, <3>1, <3>2, <3>3 DEF LearningTypes
    <3>5. /\ task'[t].status = "QUEUED" /\ task'[t].retries = task[t].retries + 1
          /\ task'[t].ended = task[t].ended
          /\ \A u \in Lessons \ {t} : task'[u] = task[u]
        BY <1>2, <3>1 DEF LearningTypes, Lesson
    <3>6. Waits(t)' /\ ~ Handles(t)'
        BY <1>2, <3>2 DEF Waits, Handles, Has, Holds
    <3>7. Counted(t)'
        BY <1>1, <1>4, <2>1, <2>3, <3>1, <3>5, <3>6, RecordsAssumption DEF Counted
    <3>8. OneCopy(t)'
        BY <1>1, <1>3, <1>4, <3>1, <3>2 DEF OneCopy
    <3>9. LessonInv(t)'
        BY <3>6, <3>7, <3>8 DEF LessonInv, Reachable
    <3> QED
        BY <1>1, <1>2, <3>1, <3>2, <3>4, <3>5, <3>9, OtherLessons
  <2>4. CASE ~ (task[t].retries + 1 < MaxAttempts)
    <3>1. /\ task' = [task EXCEPT ![t].status = "FAILED", ![t].retries = @ + 1,
                                  ![t].ended = TRUE]
          /\ worker' = [worker EXCEPT ![w] = Learning!Loop]
          /\ UNCHANGED <<lock, queue, attempts>>
        BY <1>0, <1>10, <2>4 DEF Learning!Raise, Learning!Retries
    <3> DEFINE failed == [task EXCEPT ![t].status = "FAILED"]
               counted == [failed EXCEPT ![t].retries = @ + 1]
    <3>2. task' = [counted EXCEPT ![t].ended = TRUE]
        BY <3>1
    <3>3. failed \in [Lessons -> Lesson] /\ failed[t].retries + 1 \in 0 .. MaxAttempts
        BY <1>2, <2>2 DEF LearningTypes, Lesson
    <3>4. failed[t].status = "FAILED" /\ \A u \in Lessons \ {t} : failed[u] = task[u]
        BY <1>2 DEF LearningTypes, Lesson
    <3> HIDE DEF failed
    <3>5. /\ counted \in [Lessons -> Lesson] /\ counted[t].status = "FAILED"
          /\ \A u \in Lessons \ {t} : counted[u] = task[u]
        BY <1>2, <3>3, <3>4 DEF Lesson
    <3> HIDE DEF counted
    <3>6. /\ task' \in [Lessons -> Lesson] /\ task'[t].status = "FAILED"
          /\ \A u \in Lessons \ {t} : task'[u] = task[u]
        BY <1>2, <3>2, <3>5, Flags DEF Lesson
    <3>7. lock' \in Learners \cup {none}
        BY <3>1 DEF LearningTypes
    <3> QED
        BY <1>6, <3>1, <3>6, <3>7
  <2> QED
      BY <2>3, <2>4
<1>11. CASE Learning!Requeue(w)
  <2>1. /\ queue' = queue \cup {t} /\ worker[w].at = "retry"
        /\ Cardinality(queue) + sentinels < QueueSize
        /\ worker' = [worker EXCEPT ![w] = Learning!Loop]
        /\ lock' = none /\ UNCHANGED <<task, attempts>>
      BY <1>0, <1>11, QueueCardinality DEF Learning!Requeue, Learning!Room
  <2>2. IsFiniteSet(queue') /\ Cardinality(queue') = Cardinality(queue) + 1
      BY <1>3, <2>1, FS_AddElement DEF LearningTypes
  <2>3. Cardinality(queue') + sentinels <= QueueSize
      BY <2>1, <2>2, FS_CardinalityType, RecordsAssumption DEF LearningTypes
  <2> DEFINE next == Learning!Loop
  <2>4. next \in Learner /\ next.at \in {"off", "get"}
      BY LoopsOn
  <2>5. /\ worker' \in [Learners -> Learner]
        /\ \A v \in Learners :
              worker'[v].at \in {"taken", "handler", "retry"} => worker'[v].id \in Lessons
        /\ worker'[w] = next /\ \A v \in Learners \ {w} : worker'[v] = worker[v]
      BY <2>1, <2>4, WorkerTypes
  <2> HIDE DEF next
  <2>6. LearningTypes'
      BY <1>1, <1>2, <2>1, <2>2, <2>3, <2>5 DEF LearningTypes
  <2>7. \A v \in Learners : ~ Has(v, t)'
      BY <1>3, <2>4, <2>5 DEF Has, Holds
  <2>8. Waits(t)' /\ ~ Handles(t)'
      BY <2>1, <2>7 DEF Waits, Handles, Has
  <2>9. LessonInv(t)'
      BY <1>1, <1>3, <1>4, <1>5, <2>1, <2>7, <2>8 DEF LessonInv, OneCopy, Counted, Reachable
  <2>10. HasNoOther(w, t)'
      BY <2>4, <2>5 DEF HasNoOther
  <2>11. \A u \in Lessons \ {t} : u \in queue' <=> u \in queue
      BY <2>1
  <2> QED
      BY <1>1, <1>2, <2>1, <2>5, <2>6, <2>9, <2>10, <2>11, OtherLessons
<1> QED
    BY <1>8, <1>9, <1>10, <1>11

(* start() and stop() move no task.                                        *)
LEMMA ServiceStep ==
    ASSUME LearningTypes, \A u \in Lessons : LessonInv(u),
           Learning!Start \/ Learning!Stop \/ Learning!PutSentinel \/ Learning!Join
    PROVE  LearningTypes' /\ \A u \in Lessons : LessonInv(u)'
<1>1. UNCHANGED <<task, submitting, queue, lock, attempts, late>>
    BY DEF Learning!Start, Learning!Stop, Learning!PutSentinel, Learning!Join
<1>2. sentinels' \in Nat /\ Cardinality(queue') + sentinels' <= QueueSize
  <2>1. CASE Learning!PutSentinel
    <3>1. sentinels' = sentinels + 1 /\ Cardinality(queue) + sentinels < QueueSize
        BY <2>1, QueueCardinality DEF Learning!PutSentinel, Learning!Room
    <3> QED
        BY <1>1, <3>1, FS_CardinalityType, RecordsAssumption DEF LearningTypes
  <2>2. CASE Learning!Start \/ Learning!Stop \/ Learning!Join
    <3>1. sentinels' = sentinels
        BY <2>2 DEF Learning!Start, Learning!Stop, Learning!Join
    <3> QED
        BY <1>1, <3>1 DEF LearningTypes
  <2> QED
      BY <2>1, <2>2
<1>3. /\ worker' \in [Learners -> Learner]
      /\ \A w \in Learners :
            \/ worker'[w] = worker[w]
            \/ worker[w].at = "off" /\ worker'[w].at = "get"
  <2>1. CASE Learning!Start
    <3>1. Learning!Idle \in Learner /\ Learning!Idle.at = "get"
        BY DEF Learning!Idle, Learner
    <3>2. PICK ws \in SUBSET {w \in Learners : worker[w].at = "off"} :
             worker' = [w \in Learners |-> IF w \in ws THEN Learning!Idle ELSE worker[w]]
        BY <2>1 DEF Learning!Start
    <3> QED
        BY <3>1, <3>2 DEF LearningTypes
  <2>2. CASE Learning!PutSentinel \/ Learning!Stop \/ Learning!Join
    <3>1. worker' = worker
        BY <2>2 DEF Learning!PutSentinel, Learning!Stop, Learning!Join
    <3> QED
        BY <3>1 DEF LearningTypes
  <2> QED
      BY <2>1, <2>2
<1>4. LearningTypes'
    BY <1>1, <1>2, <1>3 DEF LearningTypes
<1>5. ASSUME NEW u \in Lessons PROVE LessonInv(u)'
  <2>1. \A v \in Learners :
           /\ Holds(v, u, "taken")' <=> Holds(v, u, "taken")
           /\ Holds(v, u, "handler")' <=> Holds(v, u, "handler")
           /\ Holds(v, u, "retry")' <=> Holds(v, u, "retry")
      BY <1>3 DEF Holds
  <2>2. /\ Waits(u)' <=> Waits(u)
        /\ Handles(u)' <=> Handles(u)
        /\ \A v \in Learners : Has(v, u)' <=> Has(v, u)
      BY <1>1, <2>1 DEF Waits, Handles, Has
  <2>3. LessonInv(u)
      OBVIOUS
  <2> QED
      BY <1>1, <2>2, <2>3 DEF LessonInv, OneCopy, Counted, Reachable
<1> QED
    BY <1>4, <1>5

LEMMA LearningInvariance == LearningInv /\ [Next]_vars => LearningInv'
<1> SUFFICES ASSUME LearningInv, [Next]_vars, part' = "learning"
             PROVE  LearningTypes' /\ \A u \in Lessons : LessonInv(u)'
    BY DEF LearningInv
<1>1. CASE Next
  <2>1. part = "learning"
      BY <1>1 DEF Next
  <2>2. LearningTypes /\ \A u \in Lessons : LessonInv(u)
      BY <2>1 DEF LearningInv
  <2>3. Learning!Next
      BY <1>1, <2>1 DEF Next, Work, Judge, Explain, Resume, Keep
  <2> QED
      BY <2>2, <2>3, CallersStep, TakeStep, WorkerStep, ServiceStep
         DEF Learning!Next, Learning!Step
<1>2. CASE UNCHANGED vars
  <2>1. part = "learning" /\ UNCHANGED learningVars
      BY <1>2 DEF vars, workVars
  <2>2. UNCHANGED <<task, submitting, queue, sentinels, worker, lock, attempts, late>>
      BY <2>1 DEF learningVars
  <2>3. LearningTypes /\ \A u \in Lessons : LessonInv(u)
      BY <2>1 DEF LearningInv
  <2>4. LearningTypes'
      BY <2>2, <2>3 DEF LearningTypes
  <2>5. ASSUME NEW u \in Lessons PROVE LessonInv(u)'
      BY <2>2, <2>3, SamePlace DEF LessonInv, OneCopy, Counted, Reachable
  <2> QED
      BY <2>4, <2>5
<1> QED
    BY <1>1, <1>2

(* The handler sees a task max_retries times at most, across cancels, late *)
(* QUEUED marks, clean-ups, stop and restart; and a QUEUED task is in the  *)
(* queue or with a worker, unless its submit() wrote QUEUED late.          *)
THEOREM LearningKeepsItsTasks == Spec => []LearningSound
<1>1. LearningInv => LearningSound
  <2> SUFFICES ASSUME LearningTypes, \A u \in Lessons : LessonInv(u)
               PROVE  /\ Learning!TypeOK /\ Learning!AttemptsBounded
                      /\ Learning!QueuedIsReachable
      BY DEF LearningInv, LearningSound
  <2>1. Cardinality(queue) + sentinels \in 0 .. QueueSize
      BY FS_CardinalityType, RecordsAssumption DEF LearningTypes
  <2>2. task \in [Lessons -> Lesson] /\ lock \in Learners \cup {none}
      BY DEF LearningTypes
  <2>3. Learning!TypeOK
      BY <2>1, <2>2, QueueCardinality DEF Lesson, Flag, Learning!TypeOK
  <2>4. Learning!AttemptsBounded
      BY DEF LessonInv, Counted, Learning!AttemptsBounded
  <2>5. ASSUME NEW t \in Lessons \ late, task[t].status = "QUEUED"
        PROVE  \/ t \in queue
               \/ \E w \in Learners : worker[w] \in [at : {"taken", "retry"}, id : {t}]
    <3>1. Waits(t)
        BY <2>5 DEF LessonInv, Reachable
    <3>2. ASSUME NEW w \in Learners, Holds(w, t, "taken") \/ Holds(w, t, "retry")
          PROVE  worker[w] \in [at : {"taken", "retry"}, id : {t}]
      <4>1. worker[w] \in Learner
          BY DEF LearningTypes
      <4> QED
          BY <3>2, <4>1 DEF Holds, Learner
    <3> QED
        BY <3>1, <3>2 DEF Waits
  <2> QED
      BY <2>3, <2>4, <2>5 DEF Learning!QueuedIsReachable
<1> QED
    BY <1>1, LearningInit, LearningInvariance, PTL DEF Spec

-----------------------------------------------------------------------------
(* The verdict on a code and on a worse one (_analyze_file, execute_audit) *)

LEMMA IssuesGrow ==
    ASSUME NEW c \in Sources, NEW d \in Sources, Audits!Worse(c, d), NEW dim \in Audits!Dimensions
    PROVE  /\ Audits!Issues(c, dim) \in Nat /\ Audits!Issues(d, dim) \in Nat
           /\ Audits!Issues(c, dim) >= Audits!Issues(d, dim)
<1>1. /\ c.secrets \in Nat /\ c.long \in Nat /\ c.todos \in Nat
      /\ d.secrets \in Nat /\ d.long \in Nat /\ d.todos \in Nat
    BY AuditsAssumption
<1> QED
    BY <1>1 DEF Audits!Issues, Audits!Dimensions, Audits!Worse

LEMMA ScoresFall ==
    ASSUME NEW c \in Sources, NEW d \in Sources, Audits!Worse(c, d), NEW dim \in Audits!Dimensions
    PROVE  /\ Audits!DimensionScore(c, dim) \in Nat /\ Audits!DimensionScore(d, dim) \in Nat
           /\ Audits!DimensionScore(c, dim) <= Audits!DimensionScore(d, dim)
           /\ Audits!Weights[dim] \in Nat
           /\ Audits!Scored(c)[dim] \in Nat /\ Audits!Scored(d)[dim] \in Nat
           /\ Audits!Scored(c)[dim] <= Audits!Scored(d)[dim]
<1> DEFINE m == Audits!Issues(c, dim)
           n == Audits!Issues(d, dim)
<1>1. m \in Nat /\ n \in Nat /\ m >= n
    BY IssuesGrow
<1>2. Audits!Penalty[dim] \in {0, 5, 20} /\ Audits!Weights[dim] \in {15, 20, 25}
    BY DEF Audits!Penalty, Audits!Weights, Audits!Dimensions
<1> HIDE DEF m, n
<1>3. /\ Audits!DimensionScore(c, dim) = IF Audits!Penalty[dim] * m > 100 THEN 0
                                         ELSE 100 - Audits!Penalty[dim] * m
      /\ Audits!DimensionScore(d, dim) = IF Audits!Penalty[dim] * n > 100 THEN 0
                                         ELSE 100 - Audits!Penalty[dim] * n
    BY DEF Audits!DimensionScore, m, n
<1>4. /\ Audits!DimensionScore(c, dim) \in Nat /\ Audits!DimensionScore(d, dim) \in Nat
      /\ Audits!DimensionScore(c, dim) <= Audits!DimensionScore(d, dim)
  <2>1. CASE Audits!Penalty[dim] = 0
      BY <1>1, <1>3, <2>1
  <2>2. CASE Audits!Penalty[dim] = 5
      BY <1>1, <1>3, <2>2
  <2>3. CASE Audits!Penalty[dim] = 20
      BY <1>1, <1>3, <2>3
  <2> QED
      BY <1>2, <2>1, <2>2, <2>3
<1>5. /\ Audits!Scored(c)[dim] = Audits!DimensionScore(c, dim) * Audits!Weights[dim]
      /\ Audits!Scored(d)[dim] = Audits!DimensionScore(d, dim) * Audits!Weights[dim]
    BY DEF Audits!Scored
<1>6. CASE Audits!Weights[dim] = 15
    BY <1>4, <1>5, <1>6
<1>7. CASE Audits!Weights[dim] = 20
    BY <1>4, <1>5, <1>7
<1>8. CASE Audits!Weights[dim] = 25
    BY <1>4, <1>5, <1>8
<1> QED
    BY <1>2, <1>6, <1>7, <1>8

LEMMA EnoughIsKept ==
    ASSUME NEW c \in Sources, NEW d \in Sources, Audits!Worse(c, d),
           NEW dims \in SUBSET Audits!Dimensions, Audits!Enough(c, dims)
    PROVE  Audits!Enough(d, dims)
<1> DEFINE of(value, dim) == IF dim \in dims THEN value[dim] ELSE 0
           x == Audits!Scored(c)
           y == Audits!Scored(d)
           total == Audits!Total(Audits!Weights, dims)
<1>1. ASSUME NEW dim \in Audits!Dimensions
      PROVE  of(x, dim) \in Nat /\ of(y, dim) \in Nat /\ of(x, dim) <= of(y, dim)
    BY ScoresFall
<1>2. /\ Audits!Total(x, dims) = of(x, "code_quality") + of(x, "security") + of(x, "performance")
                                 + of(x, "maintainability") + of(x, "compliance")
      /\ Audits!Total(y, dims) = of(y, "code_quality") + of(y, "security") + of(y, "performance")
                                 + of(y, "maintainability") + of(y, "compliance")
    BY DEF Audits!Total
<1>3. {"code_quality", "security", "performance", "maintainability", "compliance"}
         = Audits!Dimensions
    BY DEF Audits!Dimensions
<1> HIDE DEF of, x, y
<1>4. /\ Audits!Total(x, dims) \in Nat /\ Audits!Total(y, dims) \in Nat
      /\ Audits!Total(x, dims) <= Audits!Total(y, dims)
    BY <1>1, <1>2, <1>3
<1>5. 100 * Audits!Total(x, dims) >= Required * total
    BY DEF Audits!Enough, x
<1>6. total \in Nat
  <2> DEFINE w(dim) == IF dim \in dims THEN Audits!Weights[dim] ELSE 0
  <2>1. ASSUME NEW dim \in Audits!Dimensions PROVE w(dim) \in Nat
      BY ScoresFall
  <2>2. total = w("code_quality") + w("security") + w("performance")
                + w("maintainability") + w("compliance")
      BY DEF Audits!Total
  <2> HIDE DEF w, total
  <2> QED
      BY <1>3, <2>1, <2>2
<1> HIDE DEF total
<1>7. Required * total \in Nat
    BY <1>6, AuditsAssumption
<1>8. 100 * Audits!Total(y, dims) >= Required * total
    BY <1>4, <1>5, <1>7
<1> QED
    BY <1>8 DEF Audits!Enough, y, total

(* Of two reports, the one on worse code, or for more dimensions, advises  *)
(* and demands no less.                                                    *)
LEMMA WorseIsNoBetter ==
    ASSUME NEW c \in Sources, NEW d \in Sources, Audits!Worse(c, d),
           NEW few \in SUBSET Audits!Dimensions, NEW many \in SUBSET Audits!Dimensions,
           few \subseteq many
    PROVE  /\ Audits!Recommendations(d, few) \subseteq Audits!Recommendations(c, many)
           /\ Audits!FeedbackAction(d, few) = "fix_required"
                 => Audits!FeedbackAction(c, many) = "fix_required"
           /\ few = many /\ Audits!FeedbackAction(c, many) = "proceed"
                 => Audits!FeedbackAction(d, few) = "proceed"
<1>1. /\ Audits!HighIssues(c, many) \in Nat /\ Audits!HighIssues(d, few) \in Nat
      /\ Audits!HighIssues(c, many) >= Audits!HighIssues(d, few)
  <2>1. "security" \in Audits!Dimensions
      BY DEF Audits!Dimensions
  <2>2. /\ Audits!Issues(c, "security") \in Nat /\ Audits!Issues(d, "security") \in Nat
        /\ Audits!Issues(c, "security") >= Audits!Issues(d, "security")
      BY <2>1, IssuesGrow
  <2> QED
      BY <2>2 DEF Audits!HighIssues
<1>2. \A dim \in Audits!Dimensions :
         /\ Audits!DimensionScore(c, dim) \in Nat /\ Audits!DimensionScore(d, dim) \in Nat
         /\ Audits!DimensionScore(c, dim) <= Audits!DimensionScore(d, dim)
    BY ScoresFall
<1>3. Audits!Recommendations(d, few) \subseteq Audits!Recommendations(c, many)
  <2>1. ASSUME NEW dim \in few, Audits!DimensionScore(d, dim) < 80
        PROVE  dim \in many /\ Audits!DimensionScore(c, dim) < 80
      BY <1>2, <2>1
  <2>2. Audits!HighIssues(d, few) > 0 => Audits!HighIssues(c, many) > 0
      BY <1>1
  <2> QED
      BY <2>1, <2>2 DEF Audits!Recommendations
<1>4. Audits!FeedbackAction(d, few) = "fix_required"
         => Audits!FeedbackAction(c, many) = "fix_required"
  <2>1. Audits!FeedbackAction(d, few) = "fix_required" => Audits!HighIssues(d, few) > 0
      BY DEF Audits!FeedbackAction
  <2>2. Audits!HighIssues(c, many) > 0 => Audits!FeedbackAction(c, many) = "fix_required"
      BY <1>1 DEF Audits!FeedbackAction, Audits!Passed
  <2> QED
      BY <1>1, <2>1, <2>2
<1>5. ASSUME few = many, Audits!FeedbackAction(c, many) = "proceed"
      PROVE  Audits!FeedbackAction(d, few) = "proceed"
  <2>1. Audits!Passed(c, many)
      BY <1>5 DEF Audits!FeedbackAction
  <2>2. Audits!Enough(d, few)
      BY <1>5, <2>1, EnoughIsKept DEF Audits!Passed
  <2>3. Audits!HighIssues(d, few) = 0
      BY <1>1, <2>1 DEF Audits!Passed
  <2> QED
      BY <2>2, <2>3 DEF Audits!FeedbackAction, Audits!Passed
<1> QED
    BY <1>3, <1>4, <1>5

-----------------------------------------------------------------------------
(* The auditors *)

LEMMA AuditsInit == Init => AuditsInv
<1> SUFFICES ASSUME Init
             PROVE  /\ Audits!TypeOK /\ Disjoint /\ Audits!AuditorsIndependent
                    /\ \A r \in Reviews : Judged(r)
    BY DEF AuditsInv
<1>1. /\ available = {} /\ busy = {} /\ loose = {}
      /\ audit = [r \in Reviews |-> Audits!New]
    BY DEF Init, Audits!Init
<1>2. Audits!TypeOK
    BY <1>1 DEF Audits!TypeOK, Audits!New
<1> QED
    BY <1>1, <1>2 DEF Disjoint, Audits!AuditorsIndependent, Judged, Audits!New

LEMMA Registering ==
    ASSUME Audits!TypeOK, Disjoint, Audits!AuditorsIndependent, \A r \in Reviews : Judged(r),
           NEW i \in Auditors, Audits!RegisterInstance(i)
    PROVE  /\ Audits!TypeOK' /\ Disjoint' /\ Audits!AuditorsIndependent'
           /\ \A r \in Reviews : Judged(r)'
<1>1. /\ available' = available \cup {i} /\ UNCHANGED <<busy, audit>>
      /\ loose \subseteq loose' /\ loose' \subseteq loose \cup {i}
      /\ i \in busy => i \in loose'
    BY DEF Audits!RegisterInstance
<1>2. Audits!TypeOK'
    BY <1>1 DEF Audits!TypeOK
<1>3. Disjoint'
    BY <1>1 DEF Disjoint
<1>4. Audits!AuditorsIndependent'
    BY <1>1 DEF Audits!AuditorsIndependent
<1>5. \A r \in Reviews : Judged(r)'
    BY <1>1 DEF Judged
<1> QED
    BY <1>2, <1>3, <1>4, <1>5

LEMMA Submitting ==
    ASSUME Audits!TypeOK, Disjoint, Audits!AuditorsIndependent, \A r \in Reviews : Judged(r),
           NEW r \in Reviews, NEW e \in Auditors, NEW es \in SUBSET Auditors,
           NEW code \in Sources, NEW dims \in DimensionSets,
           Audits!Submit(r, e, es, code, dims)
    PROVE  /\ Audits!TypeOK' /\ Disjoint' /\ Audits!AuditorsIndependent'
           /\ \A q \in Reviews : Judged(q)'
<1>1. PICK i \in available \ ({e} \cup es) :
         /\ available' = available \ {i} /\ busy' = busy \cup {i} /\ loose' = loose
         /\ audit[r].status = "new"
         /\ audit' = [audit EXCEPT ![r] =
                         [status |-> "pending", auditor |-> i, action |-> "none", advice |-> {},
                          executors |-> {e} \cup es, code |-> code, dimensions |-> dims]]
    BY DEF Audits!Submit, Audits!Acquire, Audits!ExcludedAuditors
<1> DEFINE it == [status |-> "pending", auditor |-> i, action |-> "none", advice |-> {},
                  executors |-> {e} \cup es, code |-> code, dimensions |-> dims]
<1>2. /\ it.status = "pending" /\ it.auditor = i /\ it.executors = {e} \cup es
      /\ it.code = code /\ it.dimensions = dims /\ it.action = "none" /\ it.advice = {}
      /\ i \in Auditors => it \in Review
    BY DEF Review, Audits!TypeOK
<1> HIDE DEF it
<1>3. /\ audit'[r] = it /\ \A q \in Reviews \ {r} : audit'[q] = audit[q]
      /\ audit' = [audit EXCEPT ![r] = it]
    BY <1>1 DEF Audits!TypeOK, it
<1>4. i \in Auditors /\ {e} \cup es \in SUBSET Auditors /\ i \notin {e} \cup es
    BY <1>1 DEF Audits!TypeOK
<1>5. Audits!TypeOK'
  <2>1. audit' \in [Reviews -> Review]
      BY <1>2, <1>3, <1>4 DEF Audits!TypeOK, Review
  <2> QED
      BY <1>1, <1>4, <2>1 DEF Audits!TypeOK, Review
<1>6. Disjoint'
    BY <1>1 DEF Disjoint
<1>7. \A q \in Reviews \ {r} : audit[q].status = "pending" /\ audit[q].auditor = i => i \in loose
    BY <1>1 DEF Audits!AuditorsIndependent, Disjoint
<1>8. Audits!AuditorsIndependent'
  <2> SUFFICES ASSUME NEW q \in Reviews, audit'[q].status = "pending"
               PROVE  /\ audit'[q].auditor \notin audit'[q].executors
                      /\ audit'[q].auditor \in busy' \cup loose'
                      /\ \A p \in Reviews \ {q} :
                            audit'[p].status = "pending" /\ audit'[p].auditor = audit'[q].auditor
                               => audit'[q].auditor \in loose'
      BY DEF Audits!AuditorsIndependent
  <2>1. CASE q = r
      BY <1>1, <1>2, <1>3, <1>4, <1>7, <2>1
  <2>2. CASE q # r
    <3>1. /\ audit[q].auditor \notin audit[q].executors
          /\ audit[q].auditor \in busy \cup loose
          /\ \A p \in Reviews \ {q} :
                audit[p].status = "pending" /\ audit[p].auditor = audit[q].auditor
                   => audit[q].auditor \in loose
        BY <1>3, <2>2 DEF Audits!AuditorsIndependent
    <3> QED
        BY <1>1, <1>2, <1>3, <1>7, <2>2, <3>1
  <2> QED
      BY <2>1, <2>2
<1>9. \A q \in Reviews : Judged(q)'
    BY <1>2, <1>3 DEF Judged
<1> QED
    BY <1>5, <1>6, <1>8, <1>9

LEMMA Reporting ==
    ASSUME Audits!TypeOK, Disjoint, Audits!AuditorsIndependent, \A r \in Reviews : Judged(r),
           NEW r \in Reviews, Audits!Execute(r)
    PROVE  /\ Audits!TypeOK' /\ Disjoint' /\ Audits!AuditorsIndependent'
           /\ \A q \in Reviews : Judged(q)'
<1> DEFINE verdict == Audits!FeedbackAction(audit[r].code, audit[r].dimensions)
           remarks == Audits!Recommendations(audit[r].code, audit[r].dimensions)
<1>1. /\ audit[r].status \in {"pending", "reported"}
      /\ audit' = [audit EXCEPT ![r].status = "reported", ![r].action = verdict,
                                ![r].advice = remarks]
    BY DEF Audits!Execute, Audits!TypeOK
<1>2. /\ audit[r].code \in Sources /\ audit[r].dimensions \in DimensionSets
    BY <1>1 DEF Judged
<1>3. /\ verdict \in {"none", "proceed", "fix_required", "warn_and_proceed"}
      /\ remarks \in SUBSET (Audits!Dimensions \cup {"secrets"})
    BY <1>2, AuditsAssumption DEF Audits!FeedbackAction, Audits!Recommendations
<1> HIDE DEF verdict, remarks
<1>4. /\ audit'[r].status = "reported" /\ audit'[r].action = verdict
      /\ audit'[r].advice = remarks
      /\ audit'[r].code = audit[r].code /\ audit'[r].dimensions = audit[r].dimensions
      /\ \A q \in Reviews \ {r} : audit'[q] = audit[q]
    BY <1>1 DEF Audits!TypeOK
<1> DEFINE i == audit[r].auditor
<1>5. /\ \/ UNCHANGED <<available, busy>> /\ i \notin busy
         \/ i \in busy /\ busy' = busy \ {i} /\ available' = available \cup {i}
      /\ \/ loose' = loose /\ (audit[r].status = "pending" \/ i \notin busy)
         \/ loose' = loose \cup {i} /\ i \in busy
    BY <1>1 DEF Audits!Execute, Audits!Release
<1>6. Audits!TypeOK'
  <2>1. audit' \in [Reviews -> Review]
    <3> DEFINE reported == [audit EXCEPT ![r].status = "reported"]
               judged == [reported EXCEPT ![r].action = verdict]
    <3>1. audit' = [judged EXCEPT ![r].advice = remarks]
        BY <1>1
    <3>2. reported \in [Reviews -> Review]
        BY DEF Audits!TypeOK, Review
    <3> HIDE DEF reported
    <3>3. judged \in [Reviews -> Review]
        BY <1>3, <3>2 DEF Review
    <3> HIDE DEF judged
    <3> QED
        BY <1>3, <3>1, <3>3 DEF Review
  <2> QED
      BY <1>5, <2>1 DEF Audits!TypeOK, Review
<1>7. Disjoint'
    BY <1>5 DEF Disjoint
<1>8. Audits!AuditorsIndependent'
  <2> SUFFICES ASSUME NEW q \in Reviews, audit'[q].status = "pending"
               PROVE  /\ audit'[q].auditor \notin audit'[q].executors
                      /\ audit'[q].auditor \in busy' \cup loose'
                      /\ \A p \in Reviews \ {q} :
                            audit'[p].status = "pending" /\ audit'[p].auditor = audit'[q].auditor
                               => audit'[q].auditor \in loose'
      BY DEF Audits!AuditorsIndependent
  <2>1. q # r /\ audit'[q] = audit[q]
      BY <1>4
  <2>2. /\ audit[q].auditor \notin audit[q].executors
        /\ audit[q].auditor \in busy \cup loose
        /\ \A p \in Reviews \ {q} :
              audit[p].status = "pending" /\ audit[p].auditor = audit[q].auditor
                 => audit[q].auditor \in loose
      BY <2>1 DEF Audits!AuditorsIndependent
  <2>3. audit[q].auditor \in busy' \cup loose'
    <3>1. CASE audit[q].auditor # i
        BY <1>5, <2>2, <3>1
    <3>2. CASE audit[q].auditor = i /\ audit[r].status = "pending"
        BY <1>5, <2>1, <2>2, <3>2
    <3>3. CASE audit[q].auditor = i /\ audit[r].status # "pending"
        BY <1>1, <1>5, <2>2, <3>3
    <3> QED
        BY <3>1, <3>2, <3>3
  <2>4. \A p \in Reviews : audit'[p].status = "pending" => audit'[p] = audit[p]
      BY <1>4
  <2> QED
      BY <1>5, <2>1, <2>2, <2>3, <2>4
<1>9. \A q \in Reviews : Judged(q)'
  <2>1. Judged(r)'
      BY <1>2, <1>4 DEF Judged, verdict, remarks
  <2>2. ASSUME NEW q \in Reviews \ {r} PROVE Judged(q)'
      BY <1>4 DEF Judged
  <2> QED
      BY <2>1, <2>2
<1> QED
    BY <1>6, <1>7, <1>8, <1>9

LEMMA AuditsInvariance == AuditsInv /\ [Next]_vars => AuditsInv'
<1> SUFFICES ASSUME AuditsInv, [Next]_vars, part' = "audits"
             PROVE  /\ Audits!TypeOK' /\ Disjoint' /\ Audits!AuditorsIndependent'
                    /\ \A r \in Reviews : Judged(r)'
    BY DEF AuditsInv
<1>1. CASE Next
  <2>1. part = "audits"
      BY <1>1 DEF Next
  <2>2. Audits!TypeOK /\ Disjoint /\ Audits!AuditorsIndependent /\ \A r \in Reviews : Judged(r)
      BY <2>1 DEF AuditsInv
  <2>3. Audits!Next
      BY <1>1, <2>1 DEF Next, Work, Judge, Explain, Resume, Keep
  <2> QED
      BY <2>2, <2>3, Registering, Submitting, Reporting DEF Audits!Next
<1>2. CASE UNCHANGED vars
  <2>1. part = "audits" /\ UNCHANGED auditVars
      BY <1>2 DEF vars, workVars
  <2>2. UNCHANGED <<available, busy, audit, queued, registered, loose>>
      BY <2>1 DEF auditVars
  <2> QED
      BY <2>1, <2>2
         DEF AuditsInv, Audits!TypeOK, Disjoint, Audits!AuditorsIndependent, Judged
<1> QED
    BY <1>1, <1>2

(* Nobody audits what it worked on, an auditor that was not registered or  *)
(* freed a second time has one unreported audit, and verdicts agree: for   *)
(* any instances, audits, codes and sets of dimensions.                    *)
THEOREM AuditsStayIndependent == Spec => []AuditorsIndependent
<1>1. AuditsInv => AuditorsIndependent
  <2> SUFFICES ASSUME Audits!TypeOK, Audits!AuditorsIndependent, \A r \in Reviews : Judged(r)
               PROVE  Audits!VerdictsConsistent
      BY DEF AuditsInv, AuditorsIndependent
  <2> SUFFICES ASSUME NEW p \in Reviews, NEW q \in Reviews, audit[p].status = "reported"
               PROVE  /\ audit[p].action = "proceed"
                            => Audits!HighIssues(audit[p].code, audit[p].dimensions) = 0
                      /\ /\ audit[q].status = "reported"
                         /\ Audits!Worse(audit[q].code, audit[p].code)
                         /\ audit[p].dimensions \subseteq audit[q].dimensions
                         => /\ audit[p].advice \subseteq audit[q].advice
                            /\ audit[p].action = "fix_required" => audit[q].action = "fix_required"
                            /\ audit[p].dimensions = audit[q].dimensions
                                  /\ audit[q].action = "proceed"
                                  => audit[p].action = "proceed"
      BY DEF Audits!VerdictsConsistent
  <2>1. /\ audit[p].code \in Sources
        /\ audit[p].dimensions \in SUBSET Audits!Dimensions
        /\ audit[p].action = Audits!FeedbackAction(audit[p].code, audit[p].dimensions)
        /\ audit[p].advice = Audits!Recommendations(audit[p].code, audit[p].dimensions)
      BY AuditsAssumption DEF Judged
  <2>2. audit[p].action = "proceed"
           => Audits!HighIssues(audit[p].code, audit[p].dimensions) = 0
      BY <2>1 DEF Audits!FeedbackAction, Audits!Passed
  <2>3. ASSUME audit[q].status = "reported", Audits!Worse(audit[q].code, audit[p].code),
               audit[p].dimensions \subseteq audit[q].dimensions
        PROVE  /\ audit[p].advice \subseteq audit[q].advice
               /\ audit[p].action = "fix_required" => audit[q].action = "fix_required"
               /\ audit[p].dimensions = audit[q].dimensions /\ audit[q].action = "proceed"
                     => audit[p].action = "proceed"
    <3>1. /\ audit[q].code \in Sources
          /\ audit[q].dimensions \in SUBSET Audits!Dimensions
          /\ audit[q].action = Audits!FeedbackAction(audit[q].code, audit[q].dimensions)
          /\ audit[q].advice = Audits!Recommendations(audit[q].code, audit[q].dimensions)
        BY <2>3, AuditsAssumption DEF Judged
    <3> QED
        BY <2>1, <2>3, <3>1, WorseIsNoBetter
  <2> QED
      BY <2>2, <2>3
<1> QED
    BY <1>1, AuditsInit, AuditsInvariance, PTL DEF Spec

-----------------------------------------------------------------------------
(* The event log *)

LEMMA LineCardinality == \A S : Events!Cardinality(S) = Cardinality(S)
    BY DEF Events!Cardinality, Cardinality

LEMMA EventsInit == Init => EventsInv
<1> SUFFICES ASSUME Init PROVE LogTypes /\ AllCovered
    BY DEF EventsInv
<1>1. /\ lines = <<>> /\ acked = {} /\ shifted = FALSE
      /\ offset = [s \in Readers |-> [t \in Subjects |-> 0]]
      /\ replay = [r \in Replays |-> Events!Idle]
      /\ seen = [s \in Readers |-> {}]
    BY DEF Init, Events!Init
<1>2. LogTypes
  <2>1. 0 \in 0 .. MaxLines
      BY RecordsAssumption
  <2>2. lines \in Seq(Line) /\ Len(lines) <= MaxLines
      BY <1>1, RecordsAssumption
  <2>3. IsFiniteSet(acked) /\ DOMAIN seen = Readers /\ shifted \in BOOLEAN
      BY <1>1, FS_EmptySet
  <2>4. /\ offset \in [Readers -> [Subjects -> 0 .. MaxLines]]
        /\ replay \in [Replays -> {Events!Idle} \cup Replay]
      BY <1>1, <2>1
  <2> QED
      BY <2>2, <2>3, <2>4 DEF LogTypes
<1>3. Events!Records = {}
    BY <1>1 DEF Events!Records
<1>4. AllCovered
    BY <1>1, <1>3, FS_EmptySet DEF AllCovered, Covered, Events!Idle
<1> QED
    BY <1>2, <1>4

(* The records are numbered in the order of their lines, and no number     *)
(* passes the number of the records or of the lines.                       *)
LEMMA Counting ==
    ASSUME NEW n \in Nat, NEW R \in SUBSET (1 .. n)
    PROVE  /\ IsFiniteSet(R) /\ Cardinality(R) \in 0 .. n
           /\ \A k \in R :
                 /\ Cardinality({i \in R : i <= k}) \in 0 .. Cardinality(R)
                 /\ \A j \in R : j < k => Cardinality({i \in R : i <= j})
                                        < Cardinality({i \in R : i <= k})
<1>1. IsFiniteSet(R) /\ Cardinality(R) \in 0 .. n
  <2>1. IsFiniteSet(1 .. n) /\ Cardinality(1 .. n) = n
      BY FS_Interval
  <2>2. IsFiniteSet(R) /\ Cardinality(R) <= n
      BY <2>1, FS_Subset
  <2> QED
      BY <2>2, FS_CardinalityType
<1> DEFINE upto(k) == {i \in R : i <= k}
<1>2. ASSUME NEW k \in R
      PROVE  /\ IsFiniteSet(upto(k)) /\ Cardinality(upto(k)) \in Nat
             /\ Cardinality(upto(k)) <= Cardinality(R)
    BY <1>1, FS_Subset, FS_CardinalityType
<1>3. ASSUME NEW k \in R, NEW j \in R, j < k
      PROVE  Cardinality(upto(j)) < Cardinality(upto(k))
  <2>1. j \in Nat /\ k \in Nat /\ \A i \in R : i \in Nat
      OBVIOUS
  <2>2. (\A i \in Nat : i <= j => i <= k) /\ k <= k /\ ~ k <= j
      BY <1>3, <2>1
  <2>3. upto(j) \subseteq upto(k) /\ k \in upto(k) /\ k \notin upto(j)
      BY <2>1, <2>2
  <2>4. /\ IsFiniteSet(upto(k)) /\ Cardinality(upto(k)) \in Nat
        /\ Cardinality(upto(j)) \in Nat
      BY <1>2
  <2> HIDE DEF upto
  <2> QED
      BY <2>3, <2>4, FS_Subset
<1> QED
    BY <1>1, <1>2, <1>3

LEMMA Numbered ==
    ASSUME LogTypes
    PROVE  \A k \in Events!Records :
              /\ Events!Index(k) \in 0 .. MaxLines
              /\ Events!Index(k) <= Cardinality(Events!Records)
              /\ \A j \in Events!Records : j < k => Events!Index(j) < Events!Index(k)
<1> DEFINE R == Events!Records
<1>1. R \in SUBSET (1 .. Len(lines)) /\ Len(lines) \in Nat /\ Len(lines) <= MaxLines
    BY DEF LogTypes, Events!Records
<1>2. \A k : Events!Index(k) = Cardinality({i \in R : i <= k})
    BY LineCardinality DEF Events!Index
<1> HIDE DEF R
<1>3. Cardinality(R) \in 0 .. Len(lines)
    BY <1>1, Counting
<1>4. \A k \in R : /\ Events!Index(k) \in 0 .. Cardinality(R)
                   /\ \A j \in R : j < k => Events!Index(j) < Events!Index(k)
    BY <1>1, <1>2, Counting
<1>5. \A k \in R : Events!Index(k) \in 0 .. MaxLines
    BY <1>1, <1>3, <1>4, RecordsAssumption
<1> QED
    BY <1>3, <1>4, <1>5 DEF R

(* Records that come after all others leave the numbers there are, and     *)
(* have greater ones.                                                      *)
LEMMA Later ==
    ASSUME NEW R, NEW Q \in SUBSET Nat, IsFiniteSet(Q), R \subseteq Q,
           \A j \in R, k \in Q \ R : j < k
    PROVE  /\ Cardinality(R) <= Cardinality(Q)
           /\ \A k \in R : {j \in Q : j <= k} = {j \in R : j <= k}
           /\ \A k \in Q \ R : Cardinality({j \in Q : j <= k}) > Cardinality(R)
<1>1. IsFiniteSet(R) /\ Cardinality(R) <= Cardinality(Q)
    BY FS_Subset
<1>2. ASSUME NEW k \in R PROVE {j \in Q : j <= k} = {j \in R : j <= k}
  <2>1. ASSUME NEW j \in Q, j <= k PROVE j \in R
    <3>1. CASE j \notin R
      <4>1. k < j /\ k \in Nat /\ j \in Nat
          BY <3>1
      <4> QED
          BY <2>1, <4>1
    <3> QED
        BY <3>1
  <2> QED
      BY <2>1
<1>3. ASSUME NEW k \in Q \ R PROVE Cardinality({j \in Q : j <= k}) > Cardinality(R)
  <2> DEFINE upto == {j \in Q : j <= k}
  <2>1. R \cup {k} \subseteq upto
      BY <1>3
  <2>2. IsFiniteSet(upto) /\ Cardinality(upto) \in Nat
      BY FS_Subset, FS_CardinalityType
  <2>3. Cardinality(R \cup {k}) = Cardinality(R) + 1 /\ Cardinality(R) \in Nat
      BY <1>1, <1>3, FS_AddElement, FS_CardinalityType
  <2>4. Cardinality(R \cup {k}) <= Cardinality(upto) /\ IsFiniteSet(R \cup {k})
      BY <2>1, <2>2, FS_Subset
  <2>5. Cardinality(upto) > Cardinality(R)
      BY <2>2, <2>3, <2>4
  <2> QED
      BY <2>5
<1> QED
    BY <1>1, <1>2, <1>3

(* Whoever was called with all records up to some number has been so when  *)
(* a record was written behind them.                                       *)
LEMMA StillCovered ==
    ASSUME LogTypes, LogTypes', seen' = seen,
           Events!Records \subseteq Events!Records',
           \A k \in Events!Records : lines'[k] = lines[k],
           \A j \in Events!Records, k \in Events!Records' \ Events!Records : j < k
    PROVE  \A s \in Readers, t \in Subjects, n \in Nat :
              Covered(s, t, n) =>
                 /\ n <= Cardinality(Events!Records')
                 /\ \A k \in Events!Records' :
                       Events!Index(k)' <= n /\ lines'[k].topic = t => lines'[k].id \in seen'[s]
<1> DEFINE R == Events!Records
           Q == Events!Records'
<1>1. R \in SUBSET (1 .. Len(lines)) /\ Q \in SUBSET (1 .. Len(lines'))
    BY DEF LogTypes, Events!Records
<1>2. /\ \A k \in R : Events!Index(k) = Cardinality({j \in R : j <= k})
      /\ \A k \in Q : Events!Index(k)' = Cardinality({j \in Q : j <= k})
    BY LineCardinality DEF Events!Index
<1>3. R \subseteq Q /\ \A j \in R, k \in Q \ R : j < k
    OBVIOUS
<1>4. \A k \in R : lines'[k] = lines[k]
    OBVIOUS
<1> HIDE DEF R, Q
<1>5. Len(lines) \in Nat /\ Len(lines') \in Nat
    BY DEF LogTypes
<1>6. Cardinality(R) \in Nat /\ Q \in SUBSET Nat /\ IsFiniteSet(Q) /\ Cardinality(Q) \in Nat
  <2>1. Cardinality(R) \in 0 .. Len(lines)
      BY <1>1, <1>5, Counting
  <2>2. IsFiniteSet(Q) /\ Cardinality(Q) \in 0 .. Len(lines')
      BY <1>1, <1>5, Counting
  <2> QED
      BY <1>1, <1>5, <2>1, <2>2
<1>7. \A k \in Q : Events!Index(k)' \in 0 .. Cardinality(Q)
    BY <1>1, <1>2, <1>5, Counting
<1>8. /\ Cardinality(R) <= Cardinality(Q)
      /\ \A k \in R : Events!Index(k)' = Events!Index(k)
      /\ \A k \in Q \ R : Events!Index(k)' > Cardinality(R)
  <2>1. /\ Cardinality(R) <= Cardinality(Q)
        /\ \A k \in R : {j \in Q : j <= k} = {j \in R : j <= k}
        /\ \A k \in Q \ R : Cardinality({j \in Q : j <= k}) > Cardinality(R)
      BY <1>3, <1>6, Later
  <2> QED
      BY <1>2, <1>3, <2>1
<1>9. ASSUME NEW s \in Readers, NEW t \in Subjects, NEW n \in Nat, Covered(s, t, n)
      PROVE  /\ n <= Cardinality(Q)
             /\ \A k \in Q :
                   Events!Index(k)' <= n /\ lines'[k].topic = t => lines'[k].id \in seen'[s]
  <2>1. /\ n <= Cardinality(R)
        /\ \A k \in R : Events!Index(k) <= n /\ lines[k].topic = t => lines[k].id \in seen[s]
      BY <1>9 DEF Covered, R
  <2>2. n <= Cardinality(Q)
      BY <1>6, <1>8, <2>1
  <2>3. ASSUME NEW k \in Q, Events!Index(k)' <= n, lines'[k].topic = t
        PROVE  lines'[k].id \in seen'[s]
    <3>1. k \in R
        BY <1>6, <1>7, <1>8, <2>1, <2>3
    <3>2. lines'[k] = lines[k] /\ Events!Index(k)' = Events!Index(k)
        BY <1>4, <1>8, <3>1
    <3> QED
        BY <2>1, <2>3, <3>1, <3>2
  <2> QED
      BY <2>2, <2>3
<1> QED
    BY <1>9 DEF Q

(* A line is written: at the end of a file that is whole its record comes  *)
(* last; behind a line cut short there is none.                            *)
LEMMA Writing ==
    ASSUME LogTypes, NEW line \in Line, Len(lines) < MaxLines,
           lines' = Events!Written(lines, line),
           ~ (Events!Open(lines) /\ Events!Last(lines).form = "bare")
    PROVE  /\ Events!Records \subseteq Events!Records'
           /\ \A k \in Events!Records : lines'[k] = lines[k]
           /\ \A j \in Events!Records, k \in Events!Records' \ Events!Records : j < k
<1>1. lines \in Seq(Line) /\ Len(lines) \in Nat /\ DOMAIN lines = 1 .. Len(lines)
    BY DEF LogTypes
<1>2. CASE Events!Open(lines)
  <2> DEFINE n == Len(lines)
  <2>1. lines # <<>> /\ lines[n].form = "torn"
      BY <1>2 DEF Events!Open, Events!Last
  <2>2. lines' = [lines EXCEPT ![n] = Events!Merged(line)]
      BY <1>2 DEF Events!Written
  <2>2a. Events!Merged(line).form \in {"junk", "torn"}
      BY DEF Events!Merged, Line
  <2>3. /\ DOMAIN lines' = DOMAIN lines
        /\ \A k \in DOMAIN lines : k # n => lines'[k] = lines[k]
        /\ n \in DOMAIN lines => lines'[n].form \in {"junk", "torn"}
      BY <2>2, <2>2a
  <2>4. n \notin Events!Records /\ n \notin Events!Records'
      BY <2>1, <2>3 DEF Events!Records, Events!Parses
  <2>5. Events!Records' = Events!Records
      BY <2>3, <2>4 DEF Events!Records, Events!Parses
  <2> QED
      BY <2>3, <2>4, <2>5 DEF Events!Records
<1>3. CASE ~ Events!Open(lines)
  <2>1. lines' = Append(lines, line)
      BY <1>3 DEF Events!Written
  <2>2. /\ DOMAIN lines' = 1 .. Len(lines) + 1
        /\ \A k \in 1 .. Len(lines) : lines'[k] = lines[k]
      BY <1>1, <2>1
  <2>3. Events!Records = {k \in 1 .. Len(lines) : Events!Parses(lines[k])}
      BY <1>1 DEF Events!Records
  <2>4. Events!Records' = {k \in 1 .. Len(lines) + 1 : Events!Parses(lines'[k])}
      BY <2>2 DEF Events!Records, Events!Parses
  <2>5. Events!Records \subseteq Events!Records'
      BY <1>1, <2>2, <2>3, <2>4
  <2>6. \A k \in Events!Records' \ Events!Records : k = Len(lines) + 1
      BY <1>1, <2>2, <2>3, <2>4
  <2> QED
      BY <1>1, <2>2, <2>3, <2>5, <2>6
<1> QED
    BY <1>2, <1>3

LEMMA WrittenTypes ==
    ASSUME LogTypes, NEW line \in Line, Len(lines) < MaxLines,
           lines' = Events!Written(lines, line)
    PROVE  lines' \in Seq(Line) /\ Len(lines') <= MaxLines
<1>1. lines \in Seq(Line) /\ Len(lines) \in Nat
    BY DEF LogTypes
<1>2. CASE Events!Open(lines)
  <2>1. Events!Merged(line) \in Line
      BY DEF Line, Events!Merged
  <2>2. lines' = [lines EXCEPT ![Len(lines)] = Events!Merged(line)]
      BY <1>2 DEF Events!Written
  <2>3. PICK junk \in Line : lines' = [lines EXCEPT ![Len(lines)] = junk]
      BY <2>1, <2>2
  <2>4. lines' \in [1 .. Len(lines) -> Line]
    <3>1. lines \in [1 .. Len(lines) -> Line]
        BY <1>1
    <3> QED
        BY <2>3, <3>1
  <2>5. lines' \in Seq(Line) /\ Len(lines') = Len(lines)
      BY <1>1, <2>4
  <2> QED
      BY <2>5, RecordsAssumption
<1>3. CASE ~ Events!Open(lines)
  <2>1. lines' = Append(lines, line)
      BY <1>3 DEF Events!Written
  <2> QED
      BY <1>1, <2>1, RecordsAssumption
<1> QED
    BY <1>2, <1>3

(* The append, and the crash that leaves a part of a line.                 *)
LEMMA LogGrows ==
    ASSUME LogTypes, AllCovered, NEW line \in Line, Len(lines) < MaxLines,
           lines' = Events!Written(lines, line), LogTypes',
           shifted' = (shifted \/ (Events!Open(lines) /\ Events!Last(lines).form = "bare")),
           offset' = offset, seen' = seen,
           \A r \in Replays : replay'[r].at = "scan" => replay'[r] = replay[r]
    PROVE  AllCovered'
<1> SUFFICES ASSUME ~ shifted'
             PROVE  /\ \A s \in Readers, t \in Subjects : Covered(s, t, offset[s][t])'
                    /\ \A r \in Replays :
                          replay'[r].at = "scan"
                             => Covered(replay[r].sub, replay[r].topic, replay[r].next)'
    BY DEF AllCovered
<1>1. ~ shifted /\ ~ (Events!Open(lines) /\ Events!Last(lines).form = "bare")
    BY DEF LogTypes
<1>2. \A s \in Readers, t \in Subjects, n \in Nat :
         Covered(s, t, n) =>
            /\ n <= Cardinality(Events!Records')
            /\ \A k \in Events!Records' :
                  Events!Index(k)' <= n /\ lines'[k].topic = t => lines'[k].id \in seen'[s]
    BY <1>1, Writing, StillCovered
<1>3. ASSUME NEW s \in Readers, NEW t \in Subjects PROVE Covered(s, t, offset[s][t])'
  <2>1. Covered(s, t, offset[s][t])
      BY <1>1 DEF AllCovered
  <2>2. offset[s][t] \in Nat
      BY RecordsAssumption DEF LogTypes
  <2> QED
      BY <1>2, <2>1, <2>2 DEF Covered
<1>4. ASSUME NEW r \in Replays, replay'[r].at = "scan"
      PROVE  Covered(replay[r].sub, replay[r].topic, replay[r].next)'
  <2>1. replay'[r] = replay[r]
      BY <1>4
  <2>2. /\ replay[r].sub \in Readers /\ replay[r].topic \in Subjects /\ replay[r].next \in Nat
        /\ Covered(replay[r].sub, replay[r].topic, replay[r].next)
      BY <1>1, <1>4, <2>1, RecordsAssumption DEF AllCovered, LogTypes, Replay, Events!Idle
  <2> QED
      BY <1>2, <2>1, <2>2 DEF Covered
<1> QED
    BY <1>3, <1>4

(* What stays covered while the log stays as it is.                        *)
LEMMA SameLog ==
    ASSUME lines' = lines, \A s \in Readers : seen[s] \subseteq seen'[s],
           NEW s \in Readers, NEW t, NEW n, Covered(s, t, n)
    PROVE  /\ n <= Cardinality(Events!Records')
           /\ \A k \in Events!Records' :
                 Events!Index(k)' <= n /\ lines'[k].topic = t => lines'[k].id \in seen'[s]
<1>1. Events!Records' = Events!Records
    BY DEF Events!Records, Events!Parses
<1>2. \A k : Events!Index(k)' = Events!Index(k)
    BY <1>1, LineCardinality DEF Events!Index
<1> QED
    BY <1>1, <1>2 DEF Covered

LEMMA NewLine ==
    ASSUME LogTypes, NEW t \in Subjects \cup {Foreign}, NEW form \in {"whole", "bare", "torn"}
    PROVE  [topic |-> t, id |-> Len(lines) + Events!Cardinality(acked) + 1, form |-> form]
              \in Line
<1>1. Len(lines) \in Nat /\ Events!Cardinality(acked) \in Nat
    BY LineCardinality, FS_CardinalityType DEF LogTypes
<1>2. Len(lines) + Events!Cardinality(acked) + 1 \in Nat
    BY <1>1
<1> QED
    BY <1>2 DEF Line

LEMMA Appending ==
    ASSUME LogTypes, AllCovered, NEW t \in Subjects \cup {Foreign}, Events!AppendRecord(t)
    PROVE  LogTypes' /\ AllCovered'
<1> DEFINE line == [topic |-> t, id |-> Len(lines) + Events!Cardinality(acked) + 1,
                    form |-> "whole"]
<1>1. line \in Line
    BY NewLine
<1>2. /\ Len(lines) < MaxLines /\ lines' = Events!Written(lines, line)
      /\ acked' = acked \cup {line.id}
      /\ shifted' = (shifted \/ (Events!Open(lines) /\ Events!Last(lines).form = "bare"))
      /\ offset' = offset /\ replay' = replay /\ seen' = seen
    BY DEF Events!AppendRecord
<1> HIDE DEF line
<1>3. LogTypes'
  <2>1. lines' \in Seq(Line) /\ Len(lines') <= MaxLines
      BY <1>1, <1>2, WrittenTypes
  <2>2. IsFiniteSet(acked')
      BY <1>2, FS_AddElement DEF LogTypes
  <2> QED
      BY <1>2, <2>1, <2>2 DEF LogTypes
<1> QED
    BY <1>1, <1>2, <1>3, LogGrows

LEMMA Stopping ==
    ASSUME LogTypes, AllCovered, NEW t \in Subjects \cup {Foreign},
           NEW form \in {"bare", "torn"}, Events!Crash(t, form)
    PROVE  LogTypes' /\ AllCovered'
<1> DEFINE line == [topic |-> t, id |-> Len(lines) + Events!Cardinality(acked) + 1,
                    form |-> form]
<1>1. line \in Line
    BY NewLine
<1>2. /\ \/ lines' = lines /\ shifted' = shifted
         \/ /\ Len(lines) < MaxLines /\ lines' = Events!Written(lines, line)
            /\ shifted' = (shifted \/ (Events!Open(lines) /\ Events!Last(lines).form = "bare"))
      /\ replay' = [r \in Replays |-> Events!Idle]
      /\ acked' = acked /\ offset' = offset /\ seen' = seen
    BY DEF Events!Crash
<1> HIDE DEF line
<1>3. \A r \in Replays : replay'[r].at # "scan"
    BY <1>2 DEF Events!Idle
<1>4. CASE lines' = lines /\ shifted' = shifted
  <2>1. LogTypes'
      BY <1>2, <1>4 DEF LogTypes
  <2>2. ASSUME ~ shifted', NEW s \in Readers, NEW u \in Subjects
        PROVE  Covered(s, u, offset[s][u])'
    <3>1. Covered(s, u, offset[s][u])
        BY <1>4, <2>2 DEF AllCovered
    <3>2. /\ offset[s][u] <= Cardinality(Events!Records')
          /\ \A k \in Events!Records' :
                Events!Index(k)' <= offset[s][u] /\ lines'[k].topic = u
                   => lines'[k].id \in seen'[s]
        BY <1>2, <1>4, <3>1, SameLog
    <3> QED
        BY <1>2, <3>2 DEF Covered
  <2> QED
      BY <1>3, <2>1, <2>2 DEF AllCovered
<1>5. CASE /\ Len(lines) < MaxLines /\ lines' = Events!Written(lines, line)
           /\ shifted' = (shifted \/ (Events!Open(lines) /\ Events!Last(lines).form = "bare"))
  <2>1. lines' \in Seq(Line) /\ Len(lines') <= MaxLines
      BY <1>1, <1>5, WrittenTypes
  <2>2. LogTypes'
      BY <1>2, <1>5, <2>1 DEF LogTypes
  <2> QED
      BY <1>1, <1>2, <1>3, <1>5, <2>2, LogGrows
<1> QED
    BY <1>2, <1>4, <1>5

(* A replay begins, calls the handler, or saves its offset: it touches     *)
(* itself and, at its end, the offset it began from.                       *)
LEMMA Replaying ==
    ASSUME LogTypes, AllCovered, NEW r \in Replays,
           \/ \E s \in Readers, t \in Subjects : Events!StartReplay(r, s, t)
           \/ Events!Deliver(r) \/ Events!SaveOffset(r)
    PROVE  LogTypes' /\ AllCovered'
<1> DEFINE Following(s, t, n) ==
              /\ n <= Cardinality(Events!Records')
              /\ \A k \in Events!Records' :
                    Events!Index(k)' <= n /\ lines'[k].topic = t => lines'[k].id \in seen'[s]
<1>1. /\ lines' = lines /\ acked' = acked /\ shifted' = shifted
      /\ DOMAIN seen' = Readers /\ \A s \in Readers : seen[s] \subseteq seen'[s]
    BY DEF Events!StartReplay, Events!Deliver, Events!SaveOffset, LogTypes
<1>2. \A s \in Readers, t \in Subjects, n \in Nat : Covered(s, t, n) => Following(s, t, n)
    BY <1>1, SameLog
<1>3. ASSUME NEW q \in Replays, replay[q].at = "scan"
      PROVE  /\ replay[q] \in Replay
             /\ ~ shifted => Covered(replay[q].sub, replay[q].topic, replay[q].next)
    BY <1>3 DEF LogTypes, AllCovered, Events!Idle
<1>4. /\ \A s \in Readers, t \in Subjects : offset[s][t] \in 0 .. MaxLines
      /\ \A s \in Readers, t \in Subjects : ~ shifted => Covered(s, t, offset[s][t])
    BY DEF LogTypes, AllCovered
<1>5. 0 .. MaxLines \subseteq Nat
    BY RecordsAssumption
<1> HIDE DEF Following
<1>6. ASSUME NEW new \in {Events!Idle} \cup Replay, replay' = [replay EXCEPT ![r] = new],
             new.at = "scan" /\ ~ shifted => Following(new.sub, new.topic, new.next),
             \/ offset' = offset
             \/ /\ replay[r].at = "scan"
                /\ offset' = [offset EXCEPT ![replay[r].sub][replay[r].topic] = replay[r].next]
      PROVE  LogTypes' /\ AllCovered'
  <2>1. /\ \A s \in Readers, t \in Subjects :
              \/ offset'[s][t] = offset[s][t]
              \/ /\ replay[r].at = "scan" /\ s = replay[r].sub /\ t = replay[r].topic
                 /\ offset'[s][t] = replay[r].next
        /\ offset' \in [Readers -> [Subjects -> 0 .. MaxLines]]
    <3>1. CASE offset' = offset
        BY <3>1 DEF LogTypes
    <3>2. CASE /\ replay[r].at = "scan"
               /\ offset' = [offset EXCEPT ![replay[r].sub][replay[r].topic] = replay[r].next]
      <4>1. /\ replay[r].sub \in Readers /\ replay[r].topic \in Subjects
            /\ replay[r].next \in 0 .. MaxLines
          BY <1>3, <3>2 DEF Replay
      <4> QED
          BY <3>2, <4>1 DEF LogTypes
    <3> QED
        BY <1>6, <3>1, <3>2
  <2>2. LogTypes'
      BY <1>1, <1>6, <2>1 DEF LogTypes
  <2>3. ASSUME ~ shifted', NEW s \in Readers, NEW t \in Subjects
        PROVE  Covered(s, t, offset[s][t])'
    <3>1. CASE offset'[s][t] = offset[s][t]
      <4>1. Following(s, t, offset[s][t])
          BY <1>1, <1>2, <1>4, <1>5, <2>3
      <4> QED
          BY <3>1, <4>1 DEF Covered, Following
    <3>2. CASE /\ replay[r].at = "scan" /\ s = replay[r].sub /\ t = replay[r].topic
               /\ offset'[s][t] = replay[r].next
      <4>1. replay[r].next \in Nat /\ Covered(s, t, replay[r].next)
          BY <1>1, <1>3, <1>5, <2>3, <3>2 DEF Replay
      <4>2. Following(s, t, replay[r].next)
          BY <1>2, <4>1
      <4> QED
          BY <3>2, <4>2 DEF Covered, Following
    <3> QED
        BY <2>1, <3>1, <3>2
  <2>4. ASSUME ~ shifted', NEW q \in Replays, replay'[q].at = "scan"
        PROVE  Covered(replay[q].sub, replay[q].topic, replay[q].next)'
    <3>1. Following(replay'[q].sub, replay'[q].topic, replay'[q].next)
      <4>1. CASE q = r
        <5>1. replay'[q] = new
            BY <1>6, <4>1 DEF LogTypes
        <5> QED
            BY <1>1, <1>6, <2>4, <5>1
      <4>2. CASE q # r
        <5>1. replay'[q] = replay[q]
            BY <1>6, <4>2 DEF LogTypes
        <5>2. /\ replay[q].sub \in Readers /\ replay[q].topic \in Subjects
              /\ replay[q].next \in Nat
              /\ Covered(replay[q].sub, replay[q].topic, replay[q].next)
            BY <1>1, <1>3, <1>5, <2>4, <5>1 DEF Replay
        <5> QED
            BY <1>2, <5>1, <5>2
      <4> QED
          BY <4>1, <4>2
    <3> QED
        BY <3>1 DEF Covered, Following
  <2> QED
      BY <2>2, <2>3, <2>4 DEF AllCovered
<1>7. CASE \E s \in Readers, t \in Subjects : Events!StartReplay(r, s, t)
  <2> PICK s \in Readers, t \in Subjects : Events!StartReplay(r, s, t)
      BY <1>7
  <2> DEFINE new == [at |-> "scan", sub |-> s, topic |-> t, next |-> offset[s][t],
                     delivered |-> 0]
  <2>1. replay' = [replay EXCEPT ![r] = new] /\ offset' = offset
      BY DEF Events!StartReplay
  <2>2. new \in Replay
      BY <1>4 DEF Replay
  <2>3. ~ shifted => Following(s, t, offset[s][t])
      BY <1>2, <1>4, <1>5
  <2> QED
      BY <1>6, <2>1, <2>2, <2>3
<1>8. CASE Events!SaveOffset(r)
  <2>1. /\ replay[r].at = "scan" /\ replay' = [replay EXCEPT ![r] = Events!Idle]
        /\ offset' = [offset EXCEPT ![replay[r].sub][replay[r].topic] = replay[r].next]
      BY <1>8 DEF Events!SaveOffset, Events!NextOffset
  <2>2. Events!Idle.at # "scan"
      BY DEF Events!Idle
  <2> QED
      BY <1>6, <2>1, <2>2
<1>9. CASE Events!Deliver(r)
  <2>1. /\ replay[r].at = "scan" /\ offset' = offset
        /\ \E k \in Events!Wanted(r) :
              /\ \A j \in Events!Wanted(r) : k <= j
              /\ seen' = [seen EXCEPT ![replay[r].sub] = @ \cup {lines[k].id}]
              /\ replay' = [replay EXCEPT ![r].next = Events!Index(k), ![r].delivered = @ + 1]
      BY <1>9 DEF Events!Deliver
  <2> PICK k \in Events!Wanted(r) :
              /\ \A j \in Events!Wanted(r) : k <= j
              /\ seen' = [seen EXCEPT ![replay[r].sub] = @ \cup {lines[k].id}]
              /\ replay' = [replay EXCEPT ![r].next = Events!Index(k), ![r].delivered = @ + 1]
      BY <2>1
  <2> DEFINE new == [replay[r] EXCEPT !.next = Events!Index(k), !.delivered = @ + 1]
             s == replay[r].sub
             t == replay[r].topic
  <2>2. replay[r] \in Replay
      BY <1>3, <2>1
  <2>3. k \in Events!Records
      BY DEF Events!Wanted
  <2>4. /\ Events!Index(k) \in 0 .. MaxLines
        /\ Events!Index(k) <= Cardinality(Events!Records)
        /\ \A j \in Events!Records : j < k => Events!Index(j) < Events!Index(k)
      BY <2>3, Numbered
  <2>5. replay' = [replay EXCEPT ![r] = new]
      BY <2>2 DEF LogTypes, Replay
  <2>6. new \in Replay /\ new.sub = s /\ new.topic = t /\ new.next = Events!Index(k)
    <3>1. PICK i \in 0 .. MaxLines : i = Events!Index(k)
        BY <2>4
    <3>2. PICK n \in Nat : n = replay[r].delivered + 1
        BY <2>2 DEF Replay
    <3>3. new = [replay[r] EXCEPT !.next = i, !.delivered = n]
        BY <3>1, <3>2
    <3> QED
        BY <2>2, <3>1, <3>3 DEF Replay
  <2>7. ASSUME ~ shifted, NEW j \in Events!Records, Events!Index(j) <= Events!Index(k),
               lines[j].topic = t
        PROVE  lines[j].id \in seen'[s]
    <3>1. seen'[s] = seen[s] \cup {lines[k].id}
        BY <2>2 DEF LogTypes, Replay
    <3>2. CASE Events!Index(j) <= replay[r].next
      <4>1. lines[j].id \in seen[s]
          BY <1>3, <2>1, <2>7, <3>2 DEF Covered
      <4> QED
          BY <3>1, <4>1
    <3>3. CASE ~ Events!Index(j) <= replay[r].next
      <4>1. Events!Index(j) \in Nat /\ Events!Index(k) \in Nat /\ replay[r].next \in Nat
          BY <1>5, <2>2, <2>3, <2>7, Numbered DEF Replay
      <4>2. j \in Events!Wanted(r)
          BY <2>7, <3>3, <4>1 DEF Events!Wanted
      <4>3. k <= j /\ j \in Nat /\ k \in Nat
          BY <2>3, <2>7, <4>2 DEF LogTypes, Events!Records
      <4>4. ~ k < j
          BY <2>3, <2>7, <4>1, Numbered
      <4>5. j = k
          BY <4>3, <4>4
      <4> QED
          BY <3>1, <4>5
    <3> QED
        BY <3>2, <3>3
  <2>8. ~ shifted => Following(s, t, Events!Index(k))
    <3>1. Events!Records' = Events!Records
        BY <1>1 DEF Events!Records, Events!Parses
    <3>2. \A j : Events!Index(j)' = Events!Index(j)
        BY <3>1, LineCardinality DEF Events!Index
    <3> QED
        BY <1>1, <2>4, <2>7, <3>1, <3>2 DEF Following
  <2> HIDE DEF new
  <2> QED
      BY <1>6, <2>1, <2>5, <2>6, <2>8
<1> QED
    BY <1>7, <1>8, <1>9

LEMMA EventsInvariance == EventsInv /\ [Next]_vars => EventsInv'
<1> SUFFICES ASSUME EventsInv, [Next]_vars, part' = "events" PROVE LogTypes' /\ AllCovered'
    BY DEF EventsInv
<1>1. CASE Next
  <2>1. part = "events"
      BY <1>1 DEF Next
  <2>2. LogTypes /\ AllCovered
      BY <2>1 DEF EventsInv
  <2>3. Events!Next
      BY <1>1, <2>1 DEF Next, Work, Judge, Explain, Resume, Keep
  <2> QED
      BY <2>2, <2>3, Appending, Stopping, Replaying DEF Events!Next
<1>2. CASE UNCHANGED vars
  <2>1. part = "events" /\ UNCHANGED eventVars
      BY <1>2 DEF vars, workVars
  <2>2. UNCHANGED <<lines, acked, offset, replay, seen, shifted, crashes>>
      BY <2>1 DEF eventVars
  <2> QED
      BY <2>1, <2>2, LineCardinality
         DEF EventsInv, LogTypes, AllCovered, Covered, Events!Records, Events!Index, Events!Parses
<1> QED
    BY <1>1, <1>2

(* At least once: no replay and no offset passes a record its reader has   *)
(* not been called with, for any topics, readers, replays at a time,       *)
(* batches, crashes and lengths of the log.                                *)
THEOREM EventsAreDelivered == Spec => []NothingSkipped
<1>1. EventsInv => NothingSkipped
  <2> SUFFICES ASSUME LogTypes, AllCovered PROVE Events!TypeOK /\ Events!NothingSkipped
      BY DEF EventsInv, NothingSkipped
  <2>1. Events!TypeOK
      BY DEF LogTypes, Line, Events!TypeOK
  <2>2. Events!NothingSkipped
      BY DEF AllCovered, Covered, Events!NothingSkipped
  <2> QED
      BY <2>1, <2>2
<1> QED
    BY <1>1, EventsInit, EventsInvariance, PTL DEF Spec-----------------------------------------------------------------------------
(* The long running sessions *)

LEMMA SessionsInit == Init => SessionsInv
<1> SUFFICES ASSUME Long!Init
             PROVE  deaths = 0 /\ ListTypes /\ BookTypes /\ NothingLeft /\ OneStory
    BY DEF Init, SessionsInv
<1>1. /\ list = none /\ head = none /\ progress = <<>> /\ kept = none /\ tracked = {} /\ deaths = 0
      /\ numbered = 0 /\ cut = 0 /\ session = none /\ current = none /\ work = none /\ checkpoints = {}
    BY DEF Long!Init
<1>2. ListTypes
    BY <1>1, FS_EmptySet, SessionsAssumption DEF ListTypes
<1>3. BookTypes
    BY <1>1, SessionsAssumption DEF BookTypes, LinesOf
<1> QED
    BY <1>1, <1>2, <1>3 DEF NothingLeft, OneStory

(* A line more about another feature, or about none.                       *)
LEMMA LineKeeps ==
    ASSUME NEW p \in Seq(Written), NEW l \in Written, NEW f, LastSays(p, f), l.feature # f
    PROVE  LastSays(Append(p, l), f)
<1>1. PICK i \in DOMAIN p : /\ p[i].feature = f /\ p[i].what = "passed"
                            /\ \A j \in i + 1 .. Len(p) : p[j].feature # f
    BY DEF LastSays
<1>2. /\ Len(Append(p, l)) = Len(p) + 1 /\ Append(p, l)[Len(p) + 1] = l
      /\ \A j \in 1 .. Len(p) : Append(p, l)[j] = p[j]
      /\ DOMAIN p = 1 .. Len(p) /\ DOMAIN Append(p, l) = 1 .. Len(p) + 1 /\ Len(p) \in Nat
    OBVIOUS
<1>3. \A j \in i + 1 .. Len(Append(p, l)) : Append(p, l)[j].feature # f
    BY <1>1, <1>2
<1>4. i \in DOMAIN Append(p, l) /\ Append(p, l)[i] = p[i]
    BY <1>2
<1> QED
    BY <1>1, <1>3, <1>4 DEF LastSays

LEMMA LineSays ==
    ASSUME NEW p \in Seq(Written), NEW l \in Written, l.what = "passed"
    PROVE  LastSays(Append(p, l), l.feature)
<1>1. /\ Len(Append(p, l)) = Len(p) + 1 /\ Append(p, l)[Len(p) + 1] = l
      /\ DOMAIN Append(p, l) = 1 .. Len(p) + 1 /\ Len(p) \in Nat
    OBVIOUS
<1> QED
    BY <1>1 DEF LastSays

LEMMA LineMore ==
    ASSUME NEW p \in Seq(Written), NEW l \in Written
    PROVE  /\ Append(p, l) \in Seq(Written) /\ Len(Append(p, l)) = Len(p) + 1
           /\ LinesOf(Append(p, l)) = LinesOf(p) \cup {l.line}
<1>1. /\ Len(Append(p, l)) = Len(p) + 1 /\ Append(p, l)[Len(p) + 1] = l
      /\ \A j \in 1 .. Len(p) : Append(p, l)[j] = p[j]
      /\ DOMAIN p = 1 .. Len(p) /\ DOMAIN Append(p, l) = 1 .. Len(p) + 1 /\ Len(p) \in Nat
    OBVIOUS
<1>2. ASSUME NEW x PROVE x \in LinesOf(Append(p, l)) <=> x \in LinesOf(p) \/ x = l.line
    BY <1>1 DEF LinesOf
<1> QED
    BY <1>1, <1>2

(* A line of the manager goes into the file and into its memory.           *)
LEMMA Noted ==
    ASSUME BookTypes, NEW old \in Seq(Written), NEW place \in {1, 2}, Long!Record(old, place),
           Long!Room(place), LinesOf(old) \subseteq 1 .. numbered + place,
           kept' = kept, cut' \in {cut, numbered},
           \A l \in tracked : l > cut' => l \in LinesOf(old)
    PROVE  /\ BookTypes'
           /\ \A f \in Planned : LastSays(old, f) => LastSays(progress', f)
<1>1. /\ numbered \in Nat /\ numbered + place <= MaxNumbered /\ tracked \subseteq 1 .. numbered
    BY SessionsAssumption DEF BookTypes, Long!Room
<1>2. PICK l \in Written : l = Long!Line(place, "note", none)
  <2>1. numbered + place \in Nat
      BY <1>1
  <2>2. [line |-> numbered + place, what |-> "note", feature |-> none] \in Written
      BY <2>1 DEF Written
  <2> QED
      BY <2>2 DEF Long!Line
<1>3. /\ progress' = Append(old, l) /\ l.line = numbered + place /\ l.feature = none
      /\ tracked' = tracked \cup {numbered + place} /\ numbered' = numbered + place
    BY <1>2 DEF Long!Record, Long!Line
<1>4. /\ progress' \in Seq(Written) /\ Len(progress') = Len(old) + 1
      /\ LinesOf(progress') = LinesOf(old) \cup {numbered'}
    BY <1>3, LineMore
<1>5. \A f \in Planned : LastSays(old, f) => LastSays(progress', f)
    BY <1>3, LineKeeps, SessionsAssumption
<1>6. numbered' \in 0 .. MaxNumbered /\ tracked' \subseteq 1 .. numbered'
  <2>1. \A n \in 1 .. numbered : n \in 1 .. numbered'
      BY <1>1, <1>3
  <2>2. numbered' \in 0 .. MaxNumbered /\ numbered' \in 1 .. numbered'
      BY <1>1, <1>3, SessionsAssumption
  <2> QED
      BY <1>1, <1>3, <2>1, <2>2
<1>7. /\ kept' # none => kept' \in Seq(Written) /\ LinesOf(kept') \subseteq 1 .. numbered'
      /\ cut' \in 0 .. numbered'
  <2>1. \A n \in 1 .. numbered : n \in 1 .. numbered'
      BY <1>1, <1>3
  <2>2. cut' \in 0 .. numbered'
      BY <1>1, <1>3 DEF BookTypes
  <2> QED
      BY <2>1, <2>2 DEF BookTypes
<1>8. LinesOf(progress') \subseteq 1 .. numbered'
    BY <1>1, <1>3, <1>4
<1>9. \A k \in tracked' : k > cut' => k \in LinesOf(progress')
    BY <1>3, <1>4
<1>10. BookTypes'
    BY <1>4, <1>6, <1>7, <1>8, <1>9 DEF BookTypes, LinesOf
<1> QED
    BY <1>5, <1>10

LEMMA LongCardinality == \A S : Long!Cardinality(S) = Cardinality(S)
BY DEF Long!Cardinality, Cardinality

(* A step that touches no book.                                            *)
LEMMA BooksAlone ==
    ASSUME BookTypes, UNCHANGED <<progress, kept, tracked, numbered, cut>>
    PROVE  BookTypes'
BY DEF BookTypes, LinesOf

(* What a step does to a feature in hand.                                  *)
LEMMA OneChanged ==
    ASSUME list \in FeatureList, NEW f \in Planned, NEW s \in Said,
           list' = [list EXCEPT ![f] = s]
    PROVE  /\ list' \in FeatureList /\ list' # none /\ list'[f] = s
           /\ \A g \in Planned : g # f => list'[g] = list[g]
BY SessionsAssumption DEF FeatureList

LEMMA HasList ==
    ASSUME ListTypes, session # none \/ work # none
    PROVE  list \in FeatureList /\ list # none
BY DEF ListTypes

LEMMA InitializeStep ==
    ASSUME ListTypes, BookTypes, NothingLeft, OneStory, Long!InitializeProject
    PROVE  ListTypes' /\ BookTypes' /\ NothingLeft' /\ OneStory'
<1>1. /\ list' = [f \in Planned |-> "pending"] /\ work' = [feature |-> none, step |-> "listed"]
      /\ UNCHANGED <<head, progress, kept, tracked, numbered, cut, session, current, checkpoints,
                     deaths, resets>>
    BY DEF Long!InitializeProject, Long!books, Long!faults
<1>2. list' \in FeatureList /\ list' # none /\ \A f \in Planned : list'[f] = "pending"
    BY <1>1, SessionsAssumption DEF FeatureList, Said
<1>3. ListTypes'
    BY <1>1, <1>2 DEF ListTypes, Beginning
<1>4. BookTypes'
    BY <1>1, BooksAlone
<1>5. NothingLeft' /\ OneStory'
    BY <1>1, <1>2 DEF NothingLeft, OneStory
<1> QED
    BY <1>3, <1>4, <1>5

(* While a project is initialised, nothing has passed or is in progress.   *)
LEMMA BeginningStep ==
    ASSUME ListTypes, BookTypes, NothingLeft, OneStory,
           work # none, work.feature = none,
           work' \in Beginning \cup {none},
           head' \in {head, list},
           UNCHANGED <<list, session, current, checkpoints, deaths, resets>>
    PROVE  ListTypes' /\ NothingLeft' /\ OneStory'
<1>1. list \in FeatureList /\ list # none
    BY HasList
<1>2. ListTypes'
    BY <1>1 DEF ListTypes
<1>3. deaths = 0 => \A f \in Planned : list[f] = "pending"
    BY DEF NothingLeft
<1>4. NothingLeft'
    BY <1>1, <1>3 DEF NothingLeft
<1>5. OneStory'
    BY <1>3 DEF OneStory
<1> QED
    BY <1>2, <1>4, <1>5

LEMMA BeginningSteps ==
    ASSUME ListTypes, BookTypes, NothingLeft, OneStory,
           \/ Long!WriteProgressFile \/ Long!CreateInitialCommit
           \/ Long!ProjectInitialized \/ Long!InitializeRaises
    PROVE  ListTypes' /\ BookTypes' /\ NothingLeft' /\ OneStory'
<1>1. CASE Long!WriteProgressFile
  <2>1. /\ work # none /\ work.step = "listed" /\ Long!Room(1) /\ work' = [work EXCEPT !.step = "logged"]
        /\ progress' = Long!Append1(<<>>, "note", none)
        /\ numbered' = numbered + 1 /\ cut' = numbered
        /\ UNCHANGED <<list, head, kept, tracked, session, current, checkpoints, deaths, resets>>
      BY <1>1 DEF Long!WriteProgressFile, Long!lists, Long!faults
  <2>2. work \in Beginning
      BY <2>1 DEF ListTypes, Doing
  <2>3. ListTypes' /\ NothingLeft' /\ OneStory'
    <3>1. work.feature = none /\ work' \in Beginning
        BY <2>1, <2>2 DEF Beginning
    <3> QED
        BY <2>1, <3>1, BeginningStep
  <2>4. numbered \in Nat /\ numbered' \in Nat
      BY <2>1, SessionsAssumption DEF BookTypes
  <2>5. PICK l \in Written : l = [line |-> numbered + 1, what |-> "note", feature |-> none]
      BY <2>1, <2>4 DEF Written
  <2>6. PICK p \in Seq(Written) : p = <<>> /\ Len(p) = 0
    <3>1. <<>> \in Seq(Written) /\ Len(<<>>) = 0
        OBVIOUS
    <3> QED
        BY <3>1
  <2>7. /\ Append(p, l) \in Seq(Written)
        /\ LinesOf(Append(p, l)) = LinesOf(p) \cup {l.line}
      BY LineMore
  <2>8. progress' \in Seq(Written) /\ LinesOf(progress') = {numbered + 1}
    <3>1. progress' = Append(p, l)
        BY <2>1, <2>5, <2>6 DEF Long!Append1, Long!Line
    <3>2. LinesOf(p) = {}
        BY <2>6 DEF LinesOf
    <3> QED
        BY <2>5, <2>7, <3>1, <3>2
  <2>9. BookTypes'
    <3>1. \A n \in 1 .. numbered : n \in 1 .. numbered'
        BY <2>1, <2>4
    <3>2. numbered' \in 0 .. MaxNumbered
        BY <2>1, <2>4, SessionsAssumption DEF Long!Room
    <3> QED
      <4>1. kept' # none => kept' \in Seq(Written) /\ LinesOf(kept') \subseteq 1 .. numbered'
          BY <2>1, <3>1 DEF BookTypes
      <4>2. /\ tracked' \subseteq 1 .. numbered' /\ cut' \in 0 .. numbered'
            /\ \A k \in tracked' : ~ (k > cut')
          BY <2>1, <2>4, <3>1 DEF BookTypes
      <4>3. LinesOf(progress') \subseteq 1 .. numbered'
          BY <2>1, <2>4, <2>8
      <4> QED
          BY <2>8, <3>2, <4>1, <4>2, <4>3 DEF BookTypes, LinesOf
  <2> QED
      BY <2>3, <2>9
<1>2. CASE Long!CreateInitialCommit
  <2>1. /\ work # none /\ work.step = "logged" /\ work' = [work EXCEPT !.step = "committed"]
        /\ \/ head' = list /\ kept' = progress
           \/ UNCHANGED <<head, kept>>
        /\ UNCHANGED <<list, progress, tracked, numbered, cut, session, current, checkpoints,
                       deaths, resets>>
      BY <1>2 DEF Long!CreateInitialCommit, Long!faults
  <2>2. work \in Beginning
      BY <2>1 DEF ListTypes, Doing
  <2>3. ListTypes' /\ NothingLeft' /\ OneStory'
    <3>1. work.feature = none /\ work' \in Beginning
        BY <2>1, <2>2 DEF Beginning
    <3> QED
        BY <2>1, <3>1, BeginningStep
  <2>4. BookTypes'
      BY <2>1 DEF BookTypes, LinesOf
  <2> QED
      BY <2>3, <2>4
<1>3. CASE Long!ProjectInitialized
  <2>1. /\ work # none /\ work.step = "committed" /\ work' = none /\ Long!Room(1)
        /\ Long!Record(progress, 1) /\ cut' = cut
        /\ UNCHANGED <<list, head, kept, session, current, checkpoints, deaths, resets>>
      BY <1>3 DEF Long!ProjectInitialized, Long!lists, Long!faults
  <2>2. work.feature = none
      BY <2>1 DEF ListTypes, Doing, Beginning
  <2>3. ListTypes' /\ NothingLeft' /\ OneStory'
      BY <2>1, <2>2, BeginningStep
  <2>4. PICK old \in Seq(Written) : old = progress
      BY DEF BookTypes
  <2>5. LinesOf(old) \subseteq 1 .. numbered + 1 /\ \A l \in tracked : l > cut => l \in LinesOf(old)
      BY <2>4, SessionsAssumption DEF BookTypes
  <2>6. BookTypes'
      BY <2>1, <2>4, <2>5, Noted
  <2> QED
      BY <2>3, <2>6
<1>4. CASE Long!InitializeRaises
  <2>1. /\ work # none /\ work.feature = none /\ work' = none
        /\ UNCHANGED <<list, head, progress, kept, tracked, numbered, cut, session, current,
                       checkpoints, deaths, resets>>
      BY <1>4 DEF Long!InitializeRaises, Long!lists, Long!books, Long!faults
  <2> QED
      BY <2>1, BeginningStep, BooksAlone
<1> QED
    BY <1>1, <1>2, <1>3, <1>4

(* The manager's steps that record one line and leave the list alone.      *)
LEMMA NoteStep ==
    ASSUME ListTypes, BookTypes, NothingLeft, OneStory, work = none, list # none,
           Long!Room(1), Long!Record(progress, 1), UNCHANGED <<head, kept, cut, work, deaths, resets>>,
           list' \in FeatureList,
           \A f \in Planned : list'[f] = list[f] \/ list'[f] = "blocked",
           session' \in {"active", "completed"} \/ session' = session,
           current' \in Planned \cup {none},
           IsFiniteSet(checkpoints') /\ Cardinality(checkpoints') <= MaxCheckpointed
    PROVE  ListTypes' /\ BookTypes' /\ NothingLeft' /\ OneStory'
<1>1. list' # none
    BY SessionsAssumption DEF FeatureList
<1>2. ListTypes'
    BY <1>1 DEF ListTypes
<1>3. /\ BookTypes'
      /\ \A f \in Planned : LastSays(progress, f) => LastSays(progress', f)
  <2>1. PICK old \in Seq(Written) : old = progress
      BY DEF BookTypes
  <2>2. LinesOf(old) \subseteq 1 .. numbered + 1
      BY <2>1, SessionsAssumption DEF BookTypes
  <2>3. \A l \in tracked : l > cut => l \in LinesOf(old)
      BY <2>1 DEF BookTypes
  <2> QED
      BY <2>1, <2>2, <2>3, Noted
<1>4. NothingLeft'
    BY <1>1 DEF NothingLeft, WorkedOn
<1>5. OneStory'
    BY <1>1, <1>3 DEF OneStory, WorkedOn
<1> QED
    BY <1>2, <1>3, <1>4, <1>5

LEMMA SavedCheckpoint ==
    ASSUME ListTypes, Long!SaveCheckpoint
    PROVE  IsFiniteSet(checkpoints') /\ Cardinality(checkpoints') <= MaxCheckpointed
<1>1. PICK c : checkpoints' = checkpoints \cup {c}
    BY DEF Long!SaveCheckpoint
<1>2. Cardinality(checkpoints) < MaxCheckpointed
    BY LongCardinality DEF Long!SaveCheckpoint
<1>3. /\ IsFiniteSet(checkpoints') /\ Cardinality(checkpoints) \in Nat
      /\ Cardinality(checkpoints') \in {Cardinality(checkpoints), Cardinality(checkpoints) + 1}
    BY <1>1, FS_AddElement, FS_CardinalityType DEF ListTypes
<1> QED
    BY <1>2, <1>3, SessionsAssumption

LEMMA SessionSteps ==
    ASSUME ListTypes, BookTypes, NothingLeft, OneStory,
           \/ Long!StartCodingSession \/ Long!CreateCheckpoint \/ Long!Skip
    PROVE  ListTypes' /\ BookTypes' /\ NothingLeft' /\ OneStory'
<1>1. CASE Long!StartCodingSession
  <2>1. /\ list # none /\ work = none /\ Long!Room(1) /\ Long!Record(progress, 1)
        /\ session' = "active" /\ current' = none
        /\ UNCHANGED <<list, head, kept, cut, work, checkpoints, deaths, resets>>
      BY <1>1 DEF Long!StartCodingSession, Long!lists, Long!faults
  <2>2. list' \in FeatureList /\ IsFiniteSet(checkpoints') /\ Cardinality(checkpoints') <= MaxCheckpointed
      BY <2>1 DEF ListTypes
  <2> QED
      BY <2>1, <2>2, NoteStep
<1>2. CASE Long!CreateCheckpoint
  <2>1. /\ session # none /\ work = none /\ Long!Room(1) /\ Long!Record(progress, 1)
        /\ Long!SaveCheckpoint
        /\ UNCHANGED <<list, head, kept, cut, session, current, work, deaths, resets>>
      BY <1>2 DEF Long!CreateCheckpoint, Long!Idle, Long!lists, Long!faults
  <2>2. list' \in FeatureList /\ list # none /\ current' \in Planned \cup {none}
      BY <2>1, HasList DEF ListTypes
  <2> QED
      BY <2>1, <2>2, SavedCheckpoint, NoteStep
<1>3. CASE Long!Skip
  <2>1. /\ session # none /\ work = none /\ Long!Room(1) /\ Long!Record(progress, 1)
        /\ list' = IF current = none THEN list ELSE [list EXCEPT ![current] = "blocked"]
        /\ UNCHANGED <<head, kept, cut, session, current, work, checkpoints, deaths, resets>>
      BY <1>3 DEF Long!Skip, Long!Marked, Long!Idle, Long!faults
  <2>2. /\ list \in FeatureList /\ list # none /\ current \in Planned \cup {none}
        /\ IsFiniteSet(checkpoints) /\ Cardinality(checkpoints) <= MaxCheckpointed
      BY <2>1, HasList DEF ListTypes
  <2>3. /\ list' \in FeatureList
        /\ \A f \in Planned : list'[f] = list[f] \/ list'[f] = "blocked"
    <3>1. CASE current = none
        BY <2>1, <2>2, <3>1
    <3>2. CASE current # none
        BY <2>1, <2>2, <3>2, OneChanged DEF Said
    <3> QED
        BY <3>1, <3>2
  <2> QED
      BY <2>1, <2>2, <2>3, NoteStep
<1> QED
    BY <1>1, <1>2, <1>3

(* The last line of the agent before one of the manager.                   *)
LEMMA AgentLine ==
    ASSUME BookTypes, Long!Room(2) \/ Long!Room(1), NEW what \in Said \cup {"note"},
           NEW f \in Planned \cup {none}
    PROVE  /\ Long!Append1(progress, what, f) \in Seq(Written)
           /\ Len(Long!Append1(progress, what, f)) = Len(progress) + 1
           /\ LinesOf(Long!Append1(progress, what, f)) = LinesOf(progress) \cup {numbered + 1}
           /\ \A g \in Planned \ {f} :
                 LastSays(progress, g) => LastSays(Long!Append1(progress, what, f), g)
           /\ what = "passed" => LastSays(Long!Append1(progress, what, f), f)
<1>1. numbered + 1 \in Nat
    BY SessionsAssumption DEF BookTypes
<1>2. PICK l \in Written : l = [line |-> numbered + 1, what |-> what, feature |-> f]
    BY <1>1 DEF Written
<1>3. Long!Append1(progress, what, f) = Append(progress, l)
    BY <1>2 DEF Long!Append1, Long!Line
<1>4. l.line = numbered + 1 /\ l.what = what /\ l.feature = f
    BY <1>2
<1>5. PICK p \in Seq(Written) : p = progress
    BY DEF BookTypes
<1>6. /\ Append(p, l) \in Seq(Written) /\ Len(Append(p, l)) = Len(p) + 1
      /\ LinesOf(Append(p, l)) = LinesOf(p) \cup {l.line}
    BY LineMore
<1>7. \A g \in Planned \ {f} : LastSays(p, g) => LastSays(Append(p, l), g)
    BY <1>4, LineKeeps
<1>8. l.what = "passed" => LastSays(Append(p, l), l.feature)
    BY LineSays
<1> QED
    BY <1>3, <1>4, <1>5, <1>6, <1>7, <1>8

LEMMA EndStep ==
    ASSUME ListTypes, BookTypes, NothingLeft, OneStory, Long!EndSession
    PROVE  ListTypes' /\ BookTypes' /\ NothingLeft' /\ OneStory'
<1>1. /\ session # none /\ work = none /\ session' = "completed" /\ Long!Room(2)
      /\ Long!Record(Long!Append1(progress, "note", none), 2)
      /\ UNCHANGED <<list, head, kept, cut, current, work, checkpoints, deaths, resets>>
    BY DEF Long!EndSession, Long!Idle, Long!lists, Long!faults
<1>2. list # none
    BY <1>1, HasList
<1>3. ListTypes'
    BY <1>1, <1>2 DEF ListTypes
<1>4. /\ BookTypes'
      /\ \A f \in Planned : LastSays(progress, f) => LastSays(progress', f)
  <2>1. PICK old \in Seq(Written) :
            /\ old = Long!Append1(progress, "note", none)
            /\ Len(old) = Len(progress) + 1 /\ LinesOf(old) = LinesOf(progress) \cup {numbered + 1}
            /\ \A f \in Planned : LastSays(progress, f) => LastSays(old, f)
      BY <1>1, AgentLine, SessionsAssumption
  <2>2. LinesOf(old) \subseteq 1 .. numbered + 2
      BY <2>1, SessionsAssumption DEF BookTypes
  <2>3. \A l \in tracked : l > cut => l \in LinesOf(old)
      BY <2>1 DEF BookTypes
  <2>4. /\ BookTypes'
        /\ \A f \in Planned : LastSays(old, f) => LastSays(progress', f)
      BY <1>1, <2>1, <2>2, <2>3, Noted
  <2> QED
      BY <2>1, <2>4
<1>5. NothingLeft' /\ OneStory'
    BY <1>1, <1>4 DEF NothingLeft, OneStory, WorkedOn
<1> QED
    BY <1>3, <1>4, <1>5

LEMMA RollbackStep ==
    ASSUME ListTypes, BookTypes, NothingLeft, OneStory, Long!Rollback \/ Long!Restart
    PROVE  ListTypes' /\ BookTypes' /\ NothingLeft' /\ OneStory'
<1>1. PICK marked :
          /\ marked = list \/ marked = Long!Marked("pending")
          /\ session # none /\ work = none /\ Long!Room(1)
          /\ list' = IF head = none THEN marked ELSE head
          /\ Long!Record(IF kept = none THEN progress ELSE kept, 1)
          /\ resets' = TRUE /\ cut' = numbered
          /\ UNCHANGED <<head, kept, session, current, work, checkpoints, deaths>>
    BY DEF Long!Rollback, Long!Restart, Long!Reset, Long!Idle
<1>2. list \in FeatureList /\ list # none
    BY <1>1, HasList
<1>3. marked \in FeatureList /\ \A f \in Planned : marked[f] = list[f] \/ marked[f] = "pending"
  <2>1. CASE marked = list
      BY <1>2, <2>1
  <2>2. CASE marked = Long!Marked("pending")
    <3>1. CASE current = none
        BY <1>2, <2>2, <3>1 DEF Long!Marked
    <3>2. CASE current # none
      <4>1. current \in Planned
          BY <3>2 DEF ListTypes
      <4>2. marked = [list EXCEPT ![current] = "pending"] /\ "pending" \in Said
          BY <2>2, <3>2 DEF Long!Marked, Said
      <4> QED
          BY <1>2, <4>1, <4>2 DEF FeatureList
    <3> QED
        BY <3>1, <3>2
  <2> QED
      BY <1>1, <2>1, <2>2
<1>4. /\ list' \in FeatureList /\ list' # none
      /\ deaths = 0 => \A f \in Planned : list'[f] # "in_progress"
  <2>1. deaths = 0 => \A f \in Planned : list[f] # "in_progress"
      BY <1>1, <1>2 DEF NothingLeft, WorkedOn
  <2>2. CASE head = none
      BY <1>1, <1>3, <2>1, <2>2, SessionsAssumption DEF FeatureList
  <2>3. CASE head # none
      BY <1>1, <2>3, SessionsAssumption DEF ListTypes, NothingLeft, FeatureList
  <2> QED
      BY <2>2, <2>3
<1>5. ListTypes'
    BY <1>1, <1>4 DEF ListTypes
<1>6. BookTypes'
  <2>1. PICK old \in Seq(Written) : /\ old = (IF kept = none THEN progress ELSE kept)
                                    /\ LinesOf(old) \subseteq 1 .. numbered
      BY DEF BookTypes
  <2>2. LinesOf(old) \subseteq 1 .. numbered + 1
      BY <2>1, SessionsAssumption DEF BookTypes
  <2>3. \A l \in tracked : l > cut' => l \in LinesOf(old)
      BY <1>1, SessionsAssumption DEF BookTypes
  <2> QED
      BY <1>1, <2>1, <2>2, <2>3, Noted
<1>7. NothingLeft' /\ OneStory'
    BY <1>1, <1>4 DEF NothingLeft, OneStory, WorkedOn
<1> QED
    BY <1>5, <1>6, <1>7

LEMMA SelectStep ==
    ASSUME ListTypes, BookTypes, NothingLeft, OneStory, Long!SelectNextFeature
    PROVE  ListTypes' /\ BookTypes' /\ NothingLeft' /\ OneStory'
<1>1. /\ session # none /\ current' \in Planned
      /\ UNCHANGED <<list, head, progress, kept, tracked, numbered, cut, session, work, checkpoints,
                     deaths, resets>>
    BY DEF Long!SelectNextFeature, Long!Idle, Long!Eligible, Long!lists, Long!books, Long!faults
<1>2. list # none
    BY <1>1, HasList
<1> QED
    BY <1>1, <1>2, BooksAlone DEF ListTypes, NothingLeft, OneStory, WorkedOn

(* Somebody begins, tests, commits or breaks off the work on a feature.    *)
LEMMA WorkStep ==
    ASSUME ListTypes, BookTypes, NothingLeft, OneStory,
           list \in FeatureList, list # none,
           NEW f \in Planned, NEW s \in Said,
           work = none \/ work.feature = f,
           list' = [list EXCEPT ![f] = s],
           UNCHANGED <<head, progress, kept, tracked, numbered, cut, session, current, checkpoints,
                       deaths, resets>>,
           \/ work' = none /\ s = "failed"
           \/ work' = [feature |-> f, step |-> "test"] /\ s = "in_progress"
           \/ work' = [feature |-> f, step |-> "commit"] /\ s # "in_progress"
    PROVE  ListTypes' /\ BookTypes' /\ NothingLeft' /\ OneStory'
<1>1. /\ list' \in FeatureList /\ list' # none /\ list'[f] = s
      /\ \A g \in Planned : g # f => list'[g] = list[g]
    BY OneChanged
<1>2. work' \in Doing \cup {none}
    BY DEF Doing
<1>3. ListTypes' /\ BookTypes'
    BY <1>1, <1>2, BooksAlone DEF ListTypes
<1>5. work' = none \/ (work' # none /\ work'.feature = f)
    BY SessionsAssumption
<1>6. \A g \in Planned : g # f => ~ WorkedOn(g) /\ ~ (work' # none /\ work'.feature = g)
    BY <1>5 DEF WorkedOn
<1>7. NothingLeft'
  <2> SUFFICES ASSUME deaths = 0, NEW g \in Planned, list'[g] = "in_progress"
               PROVE  work' # none /\ work'.feature = g /\ work'.step = "test"
      BY <1>1, <1>5, SessionsAssumption DEF NothingLeft, WorkedOn
  <2>1. g = f
      BY <1>1, <1>6 DEF NothingLeft
  <2>2. work' = [feature |-> f, step |-> "test"] /\ work' \in Doing
      BY <1>1, <2>1 DEF Doing
  <2> QED
      BY <2>1, <2>2, SessionsAssumption DEF Doing
<1>8. OneStory'
  <2> SUFFICES ASSUME deaths = 0, ~ resets, NEW g \in Planned, list'[g] = "passed",
                      ~ (work' # none /\ work'.feature = g)
               PROVE  LastSays(progress, g)
      BY <1>1 DEF OneStory, WorkedOn
  <2>1. g # f
    <3>1. CASE work' = none
        BY <1>1, <3>1, SessionsAssumption DEF Doing
    <3>2. CASE work' # none
        BY <1>5, <3>2
    <3> QED
        BY <3>1, <3>2
  <2> QED
      BY <1>1, <1>6, <2>1 DEF OneStory
<1> QED
    BY <1>3, <1>7, <1>8

LEMMA WorkSteps ==
    ASSUME ListTypes, BookTypes, NothingLeft, OneStory,
           \/ \E f \in Planned : Long!BeginFeature(f)
           \/ Long!Raise
           \/ \E b \in BOOLEAN : Long!RunTests(b)
    PROVE  ListTypes' /\ BookTypes' /\ NothingLeft' /\ OneStory'
<1>1. ASSUME NEW f \in Planned, Long!BeginFeature(f)
      PROVE  ListTypes' /\ BookTypes' /\ NothingLeft' /\ OneStory'
  <2>1. /\ session # none /\ work = none
        /\ work' = [feature |-> f, step |-> "test"] /\ list' = [list EXCEPT ![f] = "in_progress"]
        /\ UNCHANGED <<head, progress, kept, tracked, numbered, cut, session, current, checkpoints,
                       deaths, resets>>
      BY <1>1 DEF Long!BeginFeature, Long!Idle, Long!Step, Long!books, Long!faults
  <2>2. list \in FeatureList /\ list # none /\ "in_progress" \in Said
      BY <2>1, HasList DEF Said
  <2> QED
      BY <2>1, <2>2, WorkStep
<1>2. CASE Long!Raise
  <2>1. /\ work # none /\ work.feature # none /\ work' = none
        /\ list' = [list EXCEPT ![work.feature] = "failed"]
        /\ UNCHANGED <<head, progress, kept, tracked, numbered, cut, session, current, checkpoints,
                       deaths, resets>>
      BY <1>2 DEF Long!Raise, Long!Raised, Long!books, Long!faults
  <2>2. list \in FeatureList /\ list # none /\ "failed" \in Said
      BY <2>1, HasList DEF Said
  <2>3. PICK f \in Planned : work.feature = f
      BY <2>1 DEF ListTypes, Doing, Beginning
  <2> QED
      BY <2>1, <2>2, <2>3, WorkStep
<1>3. ASSUME NEW b \in BOOLEAN, Long!RunTests(b)
      PROVE  ListTypes' /\ BookTypes' /\ NothingLeft' /\ OneStory'
  <2>1. PICK s \in {"passed", "failed"} :
            /\ work # none /\ work.step = "test"
            /\ work' = [feature |-> work.feature, step |-> "commit"]
            /\ list' = [list EXCEPT ![work.feature] = s]
            /\ UNCHANGED <<head, progress, kept, tracked, numbered, cut, session, current, checkpoints,
                           deaths, resets>>
    <3>1. (IF Long!TestsPassed(b) THEN "passed" ELSE "failed") \in {"passed", "failed"}
        OBVIOUS
    <3> QED
        BY <1>3, <3>1 DEF Long!RunTests, Long!Step, Long!books, Long!faults
  <2>2. list \in FeatureList /\ list # none /\ s \in Said /\ s # "in_progress"
      BY <2>1, HasList DEF Said
  <2>3. PICK f \in Planned : work.feature = f
      BY <2>1 DEF ListTypes, Doing, Beginning
  <2> QED
      BY <2>1, <2>2, <2>3, WorkStep
<1> QED
    BY <1>1, <1>2, <1>3

LEMMA CommitStep ==
    ASSUME ListTypes, BookTypes, NothingLeft, OneStory,
           NEW b \in BOOLEAN, NEW c \in BOOLEAN, Long!Commit(b, c)
    PROVE  ListTypes' /\ BookTypes' /\ NothingLeft' /\ OneStory'
<1>1. /\ work # none /\ work.step = "commit" /\ work' = [work EXCEPT !.step = "record"]
      /\ head' = list \/ head' = head
      /\ kept' = progress \/ kept' = kept
      /\ UNCHANGED <<list, progress, tracked, numbered, cut, session, current, checkpoints,
                     deaths, resets>>
    BY DEF Long!Commit, Long!faults
<1>2. list \in FeatureList /\ list # none /\ work \in Doing /\ work.feature \in Planned
    BY <1>1, HasList DEF ListTypes, Doing, Beginning
<1>3. PICK done \in Doing : work' = done /\ done.feature = work.feature /\ done.step = "record"
  <2>1. /\ [work EXCEPT !.step = "record"] \in Doing
        /\ [work EXCEPT !.step = "record"].feature = work.feature
        /\ [work EXCEPT !.step = "record"].step = "record"
      BY <1>2 DEF Doing
  <2> QED
      BY <1>1, <2>1
<1>4. done # none
    BY SessionsAssumption DEF Doing
<1>5. ListTypes'
    BY <1>1, <1>2, <1>3 DEF ListTypes
<1>6. BookTypes'
    BY <1>1 DEF BookTypes, LinesOf
<1>7. NothingLeft'
  <2>1. deaths = 0 => \A f \in Planned : list[f] # "in_progress"
      BY <1>1, <1>2 DEF NothingLeft, WorkedOn
  <2>2. work'.feature # none
      BY <1>2, <1>3, SessionsAssumption
  <2> QED
      BY <1>1, <1>2, <2>1, <2>2 DEF NothingLeft
<1>8. OneStory'
    BY <1>1, <1>2, <1>3, <1>4 DEF OneStory, WorkedOn
<1> QED
    BY <1>5, <1>6, <1>7, <1>8

LEMMA FeatureStep ==
    ASSUME ListTypes, BookTypes, NothingLeft, OneStory, Long!RecordFeature
    PROVE  ListTypes' /\ BookTypes' /\ NothingLeft' /\ OneStory'
<1>1. /\ work # none /\ work.step = "record" /\ work' = none
      /\ UNCHANGED <<list, head, kept, cut, session, current, deaths, resets>>
    BY DEF Long!RecordFeature, Long!lists, Long!faults
<1>2. /\ list \in FeatureList /\ list # none /\ work \in Doing
    BY <1>1, HasList DEF ListTypes, Beginning
<1>3. PICK f \in Planned : work.feature = f
    BY <1>2 DEF Doing
<1>4. PICK s \in Said : list[f] = s
    BY <1>2 DEF FeatureList
<1>5. \/ /\ Long!Room(2) /\ Long!Record(Long!Append1(progress, s, f), 2) /\ Long!SaveCheckpoint
      \/ /\ Long!Room(1) /\ progress' = Long!Append1(progress, s, f) /\ numbered' = numbered + 1
         /\ UNCHANGED <<tracked, checkpoints>>
    BY <1>1, <1>3, <1>4 DEF Long!RecordFeature, Long!Verdict
<1>6. PICK old \in Seq(Written) :
          /\ old = Long!Append1(progress, s, f)
          /\ Len(old) = Len(progress) + 1 /\ LinesOf(old) = LinesOf(progress) \cup {numbered + 1}
          /\ \A g \in Planned \ {f} : LastSays(progress, g) => LastSays(old, g)
          /\ s = "passed" => LastSays(old, f)
    BY <1>5, AgentLine
<1>7. \A l \in tracked : l > cut => l \in LinesOf(old)
    BY <1>6 DEF BookTypes
<1>8. /\ BookTypes' /\ \A g \in Planned : LastSays(old, g) => LastSays(progress', g)
      /\ IsFiniteSet(checkpoints') /\ Cardinality(checkpoints') <= MaxCheckpointed
  <2>1. CASE /\ Long!Room(2) /\ Long!Record(Long!Append1(progress, s, f), 2) /\ Long!SaveCheckpoint
    <3>1. LinesOf(old) \subseteq 1 .. numbered + 2
        BY <1>6, SessionsAssumption DEF BookTypes
    <3>2. /\ BookTypes' /\ \A g \in Planned : LastSays(old, g) => LastSays(progress', g)
        BY <1>1, <1>2, <1>6, <1>7, <2>1, <3>1, Noted
    <3> QED
        BY <2>1, <3>2, SavedCheckpoint
  <2>2. CASE /\ Long!Room(1) /\ progress' = Long!Append1(progress, s, f) /\ numbered' = numbered + 1
             /\ UNCHANGED <<tracked, checkpoints>>
    <3>1. numbered \in Nat /\ numbered' \in 0 .. MaxNumbered
        BY <2>2, SessionsAssumption DEF BookTypes, Long!Room
    <3>2. LinesOf(progress') \subseteq 1 .. numbered' /\ tracked' \subseteq 1 .. numbered'
      <4>1. \A n \in 1 .. numbered : n \in 1 .. numbered'
          BY <2>2, <3>1
      <4>2. numbered + 1 \in 1 .. numbered'
          BY <2>2, <3>1
      <4> QED
          BY <1>6, <2>2, <4>1, <4>2 DEF BookTypes
    <3>3. BookTypes'
      <4>1. \A n \in 1 .. numbered : n \in 1 .. numbered'
          BY <2>2, <3>1
      <4>2. cut' \in 0 .. numbered'
          BY <1>1, <2>2, <3>1 DEF BookTypes
      <4>3. kept' # none => kept' \in Seq(Written) /\ LinesOf(kept') \subseteq 1 .. numbered'
          BY <1>1, <4>1 DEF BookTypes
      <4>4. progress' = old /\ \A l \in tracked' : l > cut' => l \in LinesOf(progress')
          BY <1>1, <1>6, <1>7, <2>2
      <4> QED
          BY <3>1, <3>2, <4>2, <4>3, <4>4 DEF BookTypes, LinesOf
    <3> QED
        BY <1>6, <2>2, <3>3 DEF ListTypes
  <2> QED
      BY <1>5, <2>1, <2>2
<1>9. ListTypes'
    BY <1>1, <1>2, <1>8 DEF ListTypes
<1>10. NothingLeft'
    BY <1>1, <1>2 DEF NothingLeft, WorkedOn
<1>11. OneStory'
  <2> SUFFICES ASSUME deaths = 0, ~ resets, NEW g \in Planned, list[g] = "passed"
               PROVE  LastSays(progress', g)
      BY <1>1, <1>2 DEF OneStory, WorkedOn
  <2>1. CASE g = f
      BY <1>4, <1>6, <1>8, <2>1
  <2>2. CASE g # f
    <3>1. LastSays(progress, g)
        BY <1>2, <1>3, <2>2 DEF OneStory, WorkedOn
    <3> QED
        BY <1>6, <1>8, <2>2, <3>1
  <2> QED
      BY <2>1, <2>2
<1> QED
    BY <1>8, <1>9, <1>10, <1>11

LEMMA DeathStep ==
    ASSUME ListTypes, BookTypes, Long!Crash, deaths \in Nat
    PROVE  ListTypes' /\ BookTypes' /\ NothingLeft' /\ OneStory'
<1>1. /\ deaths' = deaths + 1 /\ session' = none /\ current' = none /\ work' = none
      /\ tracked' = LinesOf(progress)
      /\ UNCHANGED <<list, head, progress, kept, numbered, cut, checkpoints, resets>>
    BY DEF Long!Crash, Long!Loaded, Long!lists, LinesOf
<1>2. ListTypes'
    BY <1>1 DEF ListTypes
<1>3. BookTypes'
    BY <1>1 DEF BookTypes, LinesOf
<1>4. deaths' # 0
    BY <1>1
<1> QED
    BY <1>2, <1>3, <1>4 DEF NothingLeft, OneStory

LEMMA SessionsInvariance == SessionsInv /\ [Next]_vars => SessionsInv'
<1> SUFFICES ASSUME SessionsInv, [Next]_vars, part' \in {"long", "again"}
             PROVE  deaths' \in Nat /\ ListTypes' /\ BookTypes' /\ NothingLeft' /\ OneStory'
    BY DEF SessionsInv
<1>1. CASE Next
  <2>1. part \in {"long", "again"}
      BY <1>1 DEF Next
  <2>2. deaths \in Nat /\ ListTypes /\ BookTypes /\ NothingLeft /\ OneStory
      BY <2>1 DEF SessionsInv
  <2>3. Long!Next
      BY <1>1, <2>1 DEF Next, Work, Judge, Explain, Resume, Keep
  <2>4. deaths' \in Nat
    <3>1. deaths' = deaths \/ deaths' = deaths + 1
        BY <2>3 DEF Long!Next, Long!InitializeProject, Long!WriteProgressFile,
              Long!CreateInitialCommit, Long!ProjectInitialized, Long!InitializeRaises,
              Long!StartCodingSession, Long!SelectNextFeature, Long!BeginFeature, Long!Raise,
              Long!RunTests, Long!Commit, Long!RecordFeature, Long!CreateCheckpoint,
              Long!Reset, Long!Rollback, Long!Restart, Long!Skip,
              Long!EndSession, Long!Crash, Long!faults
    <3> QED
        BY <2>2, <3>1
  <2> QED
      BY <2>2, <2>3, <2>4, InitializeStep, BeginningSteps, SessionSteps, EndStep, RollbackStep, SelectStep,
         WorkSteps, CommitStep, FeatureStep, DeathStep DEF Long!Next
<1>2. CASE UNCHANGED vars
  <2>1. part \in {"long", "again"} /\ UNCHANGED longVars
      BY <1>2 DEF vars, keptVars
  <2>2. UNCHANGED <<list, head, session, current, work, checkpoints,
                    progress, kept, tracked, numbered, cut, deaths, resets>>
      BY <2>1 DEF longVars
  <2>3. deaths \in Nat /\ ListTypes /\ BookTypes /\ NothingLeft /\ OneStory
      BY <2>1 DEF SessionsInv
  <2>4. ListTypes' /\ BookTypes'
      BY <2>2, <2>3 DEF ListTypes, BookTypes, LinesOf
  <2>5. NothingLeft' /\ OneStory'
      BY <2>2, <2>3 DEF NothingLeft, OneStory, WorkedOn
  <2> QED
      BY <2>2, <2>3, <2>4, <2>5
<1> QED
    BY <1>1, <1>2

(* Whatever callbacks, git and the caller do, for any features, orders,    *)
(* checkpoint interval and number of steps: without a death no feature is  *)
(* left in progress; until a reset feature_list.json and progress.jsonl    *)
(* tell one story; and of what was recorded since progress.jsonl was last  *)
(* written anew the manager knows nothing that is not in the file.         *)
THEOREM SessionsTellOneStory == Spec => []SessionsSound
<1>1. SessionsInv => SessionsSound
  <2> SUFFICES ASSUME ListTypes, BookTypes, NothingLeft, OneStory
               PROVE  /\ Long!TypeOK /\ Long!InProgressIsWorkedOn
                      /\ Long!PassedIsRecorded /\ Long!NothingOnlyInMemory
      BY DEF SessionsInv, SessionsSound
  <2>1. Long!TypeOK
    <3>1. list # none => list \in [Planned -> {"pending", "in_progress", "passed", "failed", "blocked"}]
        BY DEF ListTypes, FeatureList, Said
    <3>2. cut <= numbered /\ numbered <= MaxNumbered
        BY SessionsAssumption DEF BookTypes
    <3> QED
        BY <3>1, <3>2, LongCardinality DEF ListTypes, BookTypes, Long!TypeOK
  <2>2. Long!InProgressIsWorkedOn
      BY DEF NothingLeft, WorkedOn, Long!InProgressIsWorkedOn
  <2>3. Long!PassedIsRecorded
      BY DEF OneStory, WorkedOn, LastSays, Long!PassedIsRecorded
  <2>4. Long!NothingOnlyInMemory
      BY DEF BookTypes, LinesOf, Long!NothingOnlyInMemory, Long!Loaded
  <2> QED
      BY <2>1, <2>2, <2>3, <2>4
<1> QED
    BY <1>1, SessionsInit, SessionsInvariance, PTL DEF Spec

-----------------------------------------------------------------------------
(* The stability service *)

LEMMA StableCardinality == \A S : Stable!Cardinality(S) = Cardinality(S)
    BY DEF Stable!Cardinality, Cardinality

LEMMA HalfIs == Half \in Nat /\ Half <= CheckpointsKept
    BY StabilityAssumption DEF Half

(* A compaction drops entries from the front, and leaves half of what may  *)
(* be kept.                                                                *)
LEMMA CompactedIs ==
    ASSUME NEW s \in Seq(Nat)
    PROVE  \E d \in 0 .. Len(s) :
              /\ Stable!Compacted(s) \in Seq(Nat)
              /\ Len(Stable!Compacted(s)) = Len(s) - d
              /\ Len(s) - d <= CheckpointsKept
              /\ d = 0 \/ Len(s) - d = Half
              /\ \A i \in 1 .. Len(s) - d : Stable!Compacted(s)[i] = s[i + d]
<1>0. CheckpointsKept \in Nat /\ Half \in Nat /\ Half <= CheckpointsKept
    BY HalfIs, StabilityAssumption
<1>1. CASE Len(s) <= CheckpointsKept
  <2>1. Stable!Compacted(s) = s
      BY <1>1 DEF Stable!Compacted
  <2>2. 0 \in 0 .. Len(s) /\ Len(s) - 0 = Len(s)
      OBVIOUS
  <2>3. \A i \in 1 .. Len(s) - 0 : s[i] = s[i + 0]
      BY <2>2
  <2> QED
      BY <1>1, <2>1, <2>2, <2>3
<1>2. CASE ~ (Len(s) <= CheckpointsKept)
  <2> DEFINE d == Len(s) - Half
  <2>1. Stable!Compacted(s) = SubSeq(s, d + 1, Len(s))
      BY <1>2, <1>0 DEF Stable!Compacted, Half
  <2>2. d \in 0 .. Len(s) /\ Len(s) - d = Half /\ d >= 0 /\ d <= Len(s) /\ d \in Nat
      BY <1>0, <1>2
  <2> HIDE DEF d
  <2>3. /\ SubSeq(s, d + 1, Len(s)) \in Seq(Nat)
        /\ Len(SubSeq(s, d + 1, Len(s))) = Len(s) - d
        /\ \A i \in 1 .. Len(s) - d : SubSeq(s, d + 1, Len(s))[i] = s[i + d]
      BY <2>2
  <2> QED
      BY <1>0, <2>1, <2>2, <2>3
<1> QED
    BY <1>1, <1>2

(* So its entries are entries of the list, each one once, and those in the *)
(* newer half are as far from the end as before.                           *)
LEMMA CompactedKeeps ==
    ASSUME NEW s \in Seq(Nat), OneEach(s)
    PROVE  /\ Stable!Compacted(s) \in Seq(Nat)
           /\ Len(Stable!Compacted(s)) <= CheckpointsKept
           /\ OneEach(Stable!Compacted(s))
           /\ \A i \in DOMAIN Stable!Compacted(s) :
                 \E k \in DOMAIN s : Stable!Compacted(s)[i] = s[k]
           /\ \A i \in DOMAIN s : Len(s) - i < Half =>
                 \E j \in DOMAIN Stable!Compacted(s) :
                     /\ Stable!Compacted(s)[j] = s[i]
                     /\ Len(Stable!Compacted(s)) - j = Len(s) - i
<1> DEFINE t == Stable!Compacted(s)
<1>1. PICK d \in 0 .. Len(s) :
          /\ t \in Seq(Nat) /\ Len(t) = Len(s) - d /\ Len(s) - d <= CheckpointsKept
          /\ d = 0 \/ Len(s) - d = Half
          /\ \A i \in 1 .. Len(s) - d : t[i] = s[i + d]
    BY CompactedIs
<1> HIDE DEF t
<1>2. DOMAIN t = 1 .. Len(s) - d /\ DOMAIN s = 1 .. Len(s) /\ Len(s) \in Nat
    BY <1>1
<1>3. ASSUME NEW i \in DOMAIN t, NEW j \in DOMAIN t, t[i] = t[j]
      PROVE  i = j
  <2>1. i + d \in DOMAIN s /\ j + d \in DOMAIN s
      BY <1>2
  <2>2. s[i + d] = s[j + d]
      BY <1>1, <1>2, <1>3
  <2>3. i + d = j + d
      BY <2>1, <2>2 DEF OneEach
  <2> QED
      BY <2>3, <1>2
<1>4. ASSUME NEW i \in DOMAIN t PROVE \E k \in DOMAIN s : t[i] = s[k]
  <2>1. i + d \in DOMAIN s
      BY <1>2
  <2>2. t[i] = s[i + d]
      BY <1>1, <1>2, <1>4
  <2> QED
      BY <2>1, <2>2
<1>5. ASSUME NEW i \in DOMAIN s, Len(s) - i < Half
      PROVE  \E j \in DOMAIN t : t[j] = s[i] /\ Len(t) - j = Len(s) - i
  <2>0. i \in 1 .. Len(s) /\ d \in 0 .. Len(s) /\ Len(s) \in Nat /\ Half \in Nat
      BY <1>2, HalfIs
  <2>1. d = 0 \/ Len(s) - d = Half
      BY <1>1
  <2>2. i > d
      BY <2>0, <2>1, <1>5
  <2>3. i - d \in 1 .. Len(s) - d
      BY <2>0, <2>2
  <2>4. t[i - d] = s[i]
      BY <2>3, <1>1, <1>2
  <2>5. Len(t) - (i - d) = Len(s) - i
      BY <2>0, <1>1
  <2> QED
      BY <1>2, <2>3, <2>4, <2>5
<1>6. OneEach(t)
    BY <1>3 DEF OneEach
<1> QED
    BY <1>1, <1>4, <1>5, <1>6 DEF t

LEMMA AtLeastOne == Callers # {} => 0 < Half
<1> SUFFICES ASSUME NEW c \in Callers
             PROVE  0 < Half
    OBVIOUS
<1>1. Cardinality({c}) = 1 /\ {c} \subseteq Callers
    BY FS_Singleton
<1>2. Cardinality({c}) <= Cardinality(Callers)
    BY <1>1, FS_Subset, StabilityAssumption
<1>3. Cardinality(Callers) \in Nat /\ Cardinality(Callers) <= Half
    BY FS_CardinalityType, StabilityAssumption DEF Half
<1> QED
    BY <1>1, <1>2, <1>3, HalfIs

(* What a file becomes when the save of the one numbered id returns.       *)
LEMMA BecomesWhole ==
    ASSUME NEW f \in Checkpoint
    PROVE  /\ [f EXCEPT !.whole = TRUE] \in Checkpoint
           /\ [f EXCEPT !.whole = TRUE].id = f.id
           /\ [f EXCEPT !.whole = TRUE].ctx = f.ctx
           /\ [f EXCEPT !.whole = TRUE].whole = TRUE
    BY Flags DEF Checkpoint

(* The list after a save: the new entry is the last one, and an entry less *)
(* than half a list from the end moves one further.                        *)
LEMMA Listed ==
    ASSUME NEW m \in Seq(Nat), OneEach(m), NEW new \in Nat,
           \A i \in DOMAIN m : m[i] # new, 0 < Half
    PROVE  /\ Append(m, new) \in Seq(Nat) /\ OneEach(Append(m, new))
           /\ \A i \in DOMAIN Append(m, new) :
                 Append(m, new)[i] = new \/ \E k \in DOMAIN m : Append(m, new)[i] = m[k]
           /\ \E j \in DOMAIN Stable!Compacted(Append(m, new)) :
                 /\ Stable!Compacted(Append(m, new))[j] = new
                 /\ Len(Stable!Compacted(Append(m, new))) - j = 0
           /\ \A i \in DOMAIN m : Len(m) - i + 1 < Half =>
                 \E j \in DOMAIN Stable!Compacted(Append(m, new)) :
                     /\ Stable!Compacted(Append(m, new))[j] = m[i]
                     /\ Len(Stable!Compacted(Append(m, new))) - j = Len(m) - i + 1
<1> DEFINE ids == Append(m, new)
<1>1. /\ ids \in Seq(Nat) /\ Len(ids) = Len(m) + 1 /\ Len(m) \in Nat
      /\ ids[Len(m) + 1] = new /\ \A i \in 1 .. Len(m) : ids[i] = m[i]
    OBVIOUS
<1> HIDE DEF ids
<1>2. DOMAIN ids = 1 .. Len(m) + 1 /\ DOMAIN m = 1 .. Len(m)
    BY <1>1
<1>3. ASSUME NEW i \in DOMAIN ids
      PROVE  \/ i = Len(m) + 1 /\ ids[i] = new
             \/ i \in DOMAIN m /\ ids[i] = m[i]
  <2>1. i = Len(m) + 1 \/ i \in 1 .. Len(m)
      BY <1>1, <1>2
  <2> QED
      BY <2>1, <1>1, <1>2
<1>4. OneEach(ids)
  <2> SUFFICES ASSUME NEW i \in DOMAIN ids, NEW j \in DOMAIN ids, ids[i] = ids[j]
               PROVE  i = j
      BY DEF OneEach
  <2> QED
      BY <1>3 DEF OneEach
<1>5. Half \in Nat
    BY HalfIs
<1>6. \E j \in DOMAIN Stable!Compacted(ids) :
          Stable!Compacted(ids)[j] = new /\ Len(Stable!Compacted(ids)) - j = 0
  <2>1. Len(m) + 1 \in DOMAIN ids /\ Len(ids) - (Len(m) + 1) = 0
      BY <1>1, <1>2
  <2>2. PICK j \in DOMAIN Stable!Compacted(ids) :
            /\ Stable!Compacted(ids)[j] = ids[Len(m) + 1]
            /\ Len(Stable!Compacted(ids)) - j = Len(ids) - (Len(m) + 1)
      BY <2>1, <1>1, <1>4, CompactedKeeps
  <2> QED
      BY <2>1, <2>2, <1>1
<1>7. ASSUME NEW i \in DOMAIN m, Len(m) - i + 1 < Half
      PROVE  \E j \in DOMAIN Stable!Compacted(ids) :
                 /\ Stable!Compacted(ids)[j] = m[i]
                 /\ Len(Stable!Compacted(ids)) - j = Len(m) - i + 1
  <2>1. i \in DOMAIN ids /\ ids[i] = m[i] /\ Len(ids) - i = Len(m) - i + 1
      BY <1>1, <1>2
  <2>2. Len(ids) - i < Half
      BY <2>1, <1>7
  <2>3. PICK j \in DOMAIN Stable!Compacted(ids) :
            /\ Stable!Compacted(ids)[j] = ids[i]
            /\ Len(Stable!Compacted(ids)) - j = Len(ids) - i
      BY <2>1, <2>2, <1>1, <1>4, CompactedKeeps
  <2> QED
      BY <2>1, <2>3
<1> QED
    BY <1>1, <1>3, <1>4, <1>6, <1>7 DEF ids

(* When a save returns, what is on disk stays as it must be; the file of   *)
(* the call is the last of the list; and a file less than half a list from *)
(* the end stays, one further from it.                                     *)
LEMMA Returned ==
    ASSUME Shelf, NEW c \in Callers, call[c] # none, Stable!SaveReturns(c),
           saves' = saves, first' = first
    PROVE  /\ Shelf'
           /\ call' = [call EXCEPT ![c] = none]
           /\ \E f \in saved' :
                 /\ f.whole = TRUE /\ f.ctx = call[c].ctx
                 /\ \E j \in DOMAIN memory' : memory'[j] = f.id /\ Len(memory') - j = 0
           /\ \A f \in saved, i \in DOMAIN memory :
                 memory[i] = f.id /\ Len(memory) - i + 1 < Half =>
                     /\ f \in saved'
                     /\ \E j \in DOMAIN memory' :
                           memory'[j] = f.id /\ Len(memory') - j = Len(memory) - i + 1
<1> DEFINE id == call[c].id
           ids == Append(memory, id)
           rest == Stable!Compacted(ids)
           gone == Stable!Range(ids) \ Stable!Range(rest)
<1>1. call[c] \in Saving /\ id \in Nat
    BY DEF Shelf, Saving
<1>2. PICK own \in saved : own.id = id /\ own.ctx = call[c].ctx /\ own.whole = TRUE
  <2>1. PICK own \in saved : own.id = id /\ own.whole
      BY DEF Stable!SaveReturns
  <2>2. own.whole = TRUE
      BY <2>1 DEF Shelf, Checkpoint, Flag
  <2> QED
      BY <2>1, <2>2 DEF Shelf, Pending
<1>3. \A i \in DOMAIN memory : memory[i] # id
    BY DEF Shelf, Pending
<1>4. /\ memory' = rest
      /\ saved' = {f \in saved : f.id \notin gone}
      /\ call' = [call EXCEPT ![c] = none]
    BY DEF Stable!SaveReturns
<1>5. memory \in Seq(Nat) /\ OneEach(memory) /\ 0 < Half
    BY AtLeastOne DEF Shelf
<1>6. /\ ids \in Seq(Nat) /\ OneEach(ids)
      /\ \A i \in DOMAIN ids : ids[i] = id \/ \E k \in DOMAIN memory : ids[i] = memory[k]
      /\ \E j \in DOMAIN rest : rest[j] = id /\ Len(rest) - j = 0
      /\ \A i \in DOMAIN memory : Len(memory) - i + 1 < Half =>
             \E j \in DOMAIN rest : rest[j] = memory[i] /\ Len(rest) - j = Len(memory) - i + 1
    BY <1>1, <1>3, <1>5, Listed
<1>7. /\ rest \in Seq(Nat) /\ Len(rest) <= CheckpointsKept /\ OneEach(rest)
      /\ \A i \in DOMAIN rest : \E k \in DOMAIN ids : rest[i] = ids[k]
    BY <1>6, CompactedKeeps
<1>8. gone = {ids[i] : i \in DOMAIN ids} \ {rest[i] : i \in DOMAIN rest}
    BY DEF Stable!Range
<1> HIDE DEF ids, rest, gone, id
<1>12. Shelf'
  <2>3. \A i \in DOMAIN memory' :
            memory'[i] = id \/ \E k \in DOMAIN memory : memory'[i] = memory[k]
      BY <1>4, <1>6, <1>7
  <2>4. id <= saves /\ \A i \in DOMAIN memory : memory[i] <= saves
      BY DEF Shelf, Pending, id
  <2>5. call' \in [Callers -> Saving \cup {none}]
      BY <1>4 DEF Shelf
  <2>6. ASSUME NEW d \in Callers PROVE Pending(d)'
    <3> SUFFICES ASSUME call'[d] # none
                 PROVE  /\ call'[d].id <= saves'
                        /\ \A f \in saved' : f.id = call'[d].id => f.ctx = call'[d].ctx
                        /\ \A i \in DOMAIN memory' : memory'[i] # call'[d].id
                        /\ \A e \in Callers :
                              e # d /\ call'[e] # none => call'[e].id # call'[d].id
        BY DEF Pending
    <3>1. d # c /\ call'[d] = call[d] /\ call[d] # none
        BY <1>4 DEF Shelf
    <3>2. \A e \in Callers : call'[e] # none => call'[e] = call[e]
        BY <1>4 DEF Shelf
    <3>3. Pending(d) /\ call[d].id # id
        BY <3>1 DEF Shelf, Pending, id
    <3>4. saved' \subseteq saved
        BY <1>4
    <3>7. \A i \in DOMAIN memory' : memory'[i] # call[d].id
        BY <2>3, <3>1, <3>3 DEF Pending
    <3> QED
        BY <3>1, <3>2, <3>3, <3>4, <3>7 DEF Pending
  <2>7. memory' \in Seq(Nat) /\ Len(memory') <= CheckpointsKept /\ OneEach(memory')
      BY <1>4, <1>7
  <2>8. OneEach(memory)'
      BY <2>7 DEF OneEach
  <2>9. \A i \in DOMAIN memory' : memory'[i] <= saves'
      BY <2>3, <2>4
  <2> QED
      BY <1>4, <2>5, <2>6, <2>7, <2>8, <2>9 DEF Shelf
<1>13. \E f \in saved' :
          /\ f.whole = TRUE /\ f.ctx = call[c].ctx
          /\ \E j \in DOMAIN memory' : memory'[j] = f.id /\ Len(memory') - j = 0
  <2>1. PICK j \in DOMAIN rest : rest[j] = id /\ Len(rest) - j = 0
      BY <1>6
  <2>2. own.id \notin gone
      BY <2>1, <1>2, <1>8
  <2>3. own \in saved'
      BY <2>2, <1>4
  <2> QED
      BY <2>1, <2>3, <1>2, <1>4
<1>14. ASSUME NEW f \in saved, NEW i \in DOMAIN memory,
              memory[i] = f.id, Len(memory) - i + 1 < Half
       PROVE  /\ f \in saved'
              /\ \E j \in DOMAIN memory' :
                    memory'[j] = f.id /\ Len(memory') - j = Len(memory) - i + 1
  <2>1. PICK j \in DOMAIN rest : rest[j] = memory[i] /\ Len(rest) - j = Len(memory) - i + 1
      BY <1>6, <1>14
  <2>2. f.id \notin gone
      BY <2>1, <1>8, <1>14
  <2> QED
      BY <2>1, <2>2, <1>4, <1>14
<1> QED
    BY <1>4, <1>12, <1>13, <1>14

LEMMA FewBehind ==
    ASSUME NEW S \in SUBSET Callers, NEW c \in Callers, c \notin S
    PROVE  IsFiniteSet(S) /\ Cardinality(S) \in Nat /\ Cardinality(S) < Half
<1>1. IsFiniteSet(Callers) /\ Cardinality(Callers) <= Half
    BY StabilityAssumption DEF Half
<1>2. S \cup {c} \subseteq Callers
    OBVIOUS
<1>3. IsFiniteSet(S) /\ Cardinality(S) \in Nat
    BY <1>1, FS_Subset, FS_CardinalityType
<1>4. Cardinality(S \cup {c}) = Cardinality(S) + 1
    BY <1>3, FS_AddElement
<1>5. Cardinality(S \cup {c}) <= Cardinality(Callers) /\ Cardinality(Callers) \in Nat
    BY <1>1, <1>2, FS_Subset, FS_CardinalityType
<1> QED
    BY <1>1, <1>3, <1>4, <1>5, HalfIs

(* A call that covers what is active leaves its own file for it ...        *)
LEMMA ReturnsCovering ==
    ASSUME Shelf, NEW c \in Callers, call[c] # none, Stable!SaveReturns(c),
           saves' = saves, first' = first,
           exec' # none => exec'.ctx.done \subseteq call[c].ctx.done
    PROVE  OnDisk'
<1> SUFFICES ASSUME exec' # none /\ ~ overlapped'
             PROVE  \E f \in saved' :
                        f.whole = TRUE /\ exec'.ctx.done \subseteq f.ctx.done /\ Safe(f)'
    BY DEF OnDisk
<1>1. call' = [call EXCEPT ![c] = none] /\ call' \in [Callers -> Saving \cup {none}]
    BY Returned DEF Shelf
<1>2. Behind' \subseteq Callers /\ c \notin Behind'
    BY <1>1 DEF Behind
<1>3. Cardinality(Behind') \in Nat /\ Cardinality(Behind') < Half
    BY <1>2, FewBehind
<1>4. PICK f \in saved' :
          /\ f.whole = TRUE /\ f.ctx = call[c].ctx
          /\ \E j \in DOMAIN memory' : memory'[j] = f.id /\ Len(memory') - j = 0
    BY Returned
<1>5. PICK j \in DOMAIN memory' : memory'[j] = f.id /\ Len(memory') - j = 0
    BY <1>4
<1>6. Len(memory') - j + Cardinality(Behind') < Half
    BY <1>3, <1>5
<1>7. Safe(f)'
    BY <1>5, <1>6 DEF Safe
<1> QED
    BY <1>4, <1>7

(* ... and one that was overtaken is one less to wait for.                 *)
LEMMA ReturnsBehind ==
    ASSUME Shelf, OnDisk, NEW c \in Callers, call[c] # none, Stable!SaveReturns(c),
           saves' = saves, first' = first, exec' = exec,
           exec # none, ~ overlapped,
           ~ (exec.ctx.done \subseteq call[c].ctx.done)
    PROVE  OnDisk'
<1>1. call' = [call EXCEPT ![c] = none] /\ call \in [Callers -> Saving \cup {none}]
    BY Returned DEF Shelf
<1>2. Behind' = Behind \ {c} /\ c \in Behind /\ Behind \subseteq Callers
    BY <1>1 DEF Behind
<1>3. IsFiniteSet(Behind)
    BY <1>2, FS_Subset, StabilityAssumption
<1>4. Cardinality(Behind') = Cardinality(Behind) - 1
    BY <1>2, <1>3, FS_RemoveElement
<1>5. Cardinality(Behind) \in Nat /\ Cardinality(Behind') \in Nat
  <2>1. IsFiniteSet(Behind \ {c})
      BY <1>3, FS_RemoveElement
  <2> QED
      BY <1>2, <1>3, <2>1, FS_CardinalityType
<1>6. PICK f \in saved : f.whole = TRUE /\ exec.ctx.done \subseteq f.ctx.done /\ Safe(f)
    BY DEF OnDisk
<1>7. PICK i \in DOMAIN memory :
          memory[i] = f.id /\ Len(memory) - i + Cardinality(Behind) < Half
    BY <1>2, <1>6 DEF Safe
<1>8. i \in Nat /\ Len(memory) \in Nat
    BY DEF Shelf
<1>9. Len(memory) - i + 1 < Half
    BY <1>4, <1>5, <1>7, <1>8, HalfIs
<1>10. f \in saved' /\ \E j \in DOMAIN memory' :
           memory'[j] = f.id /\ Len(memory') - j = Len(memory) - i + 1
    BY <1>6, <1>7, <1>9, Returned
<1>11. PICK j \in DOMAIN memory' :
           memory'[j] = f.id /\ Len(memory') - j = Len(memory) - i + 1
    BY <1>10
<1>12. Len(memory') - j + Cardinality(Behind') < Half
    BY <1>4, <1>5, <1>7, <1>8, <1>11, HalfIs
<1>13. Safe(f)'
    BY <1>11, <1>12 DEF Safe
<1> QED
    BY <1>6, <1>10, <1>13 DEF OnDisk

LEMMA ReturnsKeep ==
    ASSUME Shelf, OnDisk, NEW c \in Callers, call[c] # none, Stable!SaveReturns(c),
           saves' = saves, first' = first, exec' = exec,
           ~ overlapped' => ~ overlapped
    PROVE  OnDisk'
<1>1. CASE exec' # none => exec'.ctx.done \subseteq call[c].ctx.done
    BY <1>1, ReturnsCovering
<1>2. CASE exec # none /\ ~ overlapped /\ ~ (exec.ctx.done \subseteq call[c].ctx.done)
    BY <1>2, ReturnsBehind
<1>3. CASE overlapped
    BY <1>3 DEF OnDisk
<1> QED
    BY <1>1, <1>2, <1>3

(* A save that begins has no file yet ...                                  *)
LEMMA BegunShelf ==
    ASSUME Shelf, NEW c \in Callers, call[c] = none,
           NEW op \in {"start", "transfer", "save"}, NEW ctx \in Context,
           NEW target \in Phases, Stable!BeginSave(c, op, ctx, target),
           saved' = saved, memory' = memory, first' = first
    PROVE  Shelf'
<1> DEFINE waits == [op |-> op, id |-> saves + 1, at |-> first, ctx |-> ctx, target |-> target,
                     current |-> TRUE]
<1>1. saves' = saves + 1 /\ call' = [call EXCEPT ![c] = waits]
    BY DEF Stable!BeginSave
<1>2. saves \in Nat /\ first \in Nat
    BY DEF Shelf
<1>4. waits \in Saving
  <2>1. saves + 1 \in Nat
      BY <1>2
  <2> QED
      BY <2>1, <1>2, Flags, Zenon DEF Saving
<1>6. waits.id = saves + 1 /\ waits.ctx = ctx
    OBVIOUS
<1> HIDE DEF waits
<1>7. \A f \in saved : f.id \in Nat /\ f.id <= saves
    BY DEF Shelf, Checkpoint
<1>15. \A f \in saved' : f.id <= saves'
    BY <1>1, <1>2, <1>7
<1>8. call' \in [Callers -> Saving \cup {none}]
    BY <1>1, <1>4 DEF Shelf
<1>9. \A i \in DOMAIN memory : memory[i] \in Nat /\ memory[i] <= saves
    BY DEF Shelf
<1>10. \A d \in Callers : call[d] # none => call[d].id \in Nat /\ call[d].id <= saves
    BY DEF Shelf, Pending, Saving
<1>11. ASSUME NEW d \in Callers PROVE Pending(d)'
  <2> SUFFICES ASSUME call'[d] # none
               PROVE  /\ call'[d].id <= saves'
                      /\ \A f \in saved' : f.id = call'[d].id => f.ctx = call'[d].ctx
                      /\ \A i \in DOMAIN memory' : memory'[i] # call'[d].id
                      /\ \A e \in Callers :
                            e # d /\ call'[e] # none => call'[e].id # call'[d].id
      BY DEF Pending
  <2>1. CASE d = c
    <3>1. call'[d] = waits
        BY <1>1, <2>1 DEF Shelf
    <3>2. \A i \in DOMAIN memory' : memory'[i] # saves + 1
        BY <1>2, <1>9
    <3>3. \A e \in Callers : e # d /\ call'[e] # none => call'[e] = call[e]
        BY <1>1, <2>1 DEF Shelf
    <3>4. \A e \in Callers : e # d /\ call'[e] # none => call'[e].id # saves + 1
        BY <3>3, <1>2, <1>10
    <3>5. call'[d].id = saves + 1 /\ call'[d].ctx = ctx
        BY <3>1, <1>6
    <3>6. saves + 1 <= saves'
        BY <1>1, <1>2
    <3>7. \A f \in saved' : f.id # saves + 1
        BY <1>2, <1>7
    <3> QED
        BY <3>2, <3>4, <3>5, <3>6, <3>7
  <2>2. CASE d # c
    <3>1. call'[d] = call[d] /\ call[d] # none
        BY <1>1, <2>2 DEF Shelf
    <3>2. Pending(d)
        BY DEF Shelf
    <3>3. \A e \in Callers : e # c => call'[e] = call[e]
        BY <1>1 DEF Shelf
    <3>4. call'[c].id = saves + 1
        BY <1>1, <1>6 DEF Shelf
    <3>5. call[d].id # saves + 1 /\ call[d].id <= saves'
        BY <3>1, <1>1, <1>2, <1>10
    <3>6. \A e \in Callers : e # d /\ call'[e] # none => call'[e].id # call'[d].id
        BY <3>1, <3>2, <3>3, <3>4, <3>5 DEF Pending
    <3> QED
        BY <3>1, <3>2, <3>5, <3>6, <1>1 DEF Pending
  <2> QED
      BY <2>1, <2>2
<1>12. \A i \in DOMAIN memory : memory[i] <= saves + 1
    BY <1>2, <1>9
<1>13. saves + 1 \in Nat
    BY <1>2
<1> QED
    BY <1>1, <1>8, <1>11, <1>12, <1>13, <1>15 DEF Shelf, OneEach

(* ... and its context covers the active one, so nothing falls behind.     *)
LEMMA BegunOnDisk ==
    ASSUME Shelf, OnDisk, NEW c \in Callers, call[c] = none, NEW op, NEW ctx, NEW target,
           Stable!BeginSave(c, op, ctx, target), saved' = saved, memory' = memory,
           ~ overlapped' => ~ overlapped,
           exec # none => exec.ctx.done \subseteq ctx.done,
           exec' # none => exec # none /\ exec'.ctx.done = exec.ctx.done
    PROVE  OnDisk'
<1> SUFFICES ASSUME exec' # none /\ ~ overlapped'
             PROVE  \E f \in saved' :
                        f.whole = TRUE /\ exec'.ctx.done \subseteq f.ctx.done /\ Safe(f)'
    BY DEF OnDisk
<1>1. exec # none /\ exec'.ctx.done = exec.ctx.done
    OBVIOUS
<1>2. \A d \in Callers : d # c => call'[d] = call[d]
    BY DEF Shelf, Stable!BeginSave
<1>3. call'[c].ctx = ctx
    BY DEF Shelf, Stable!BeginSave
<1>4. Behind' = Behind
    BY <1>1, <1>2, <1>3 DEF Behind
<1>5. PICK f \in saved : f.whole = TRUE /\ exec.ctx.done \subseteq f.ctx.done /\ Safe(f)
    BY <1>1 DEF OnDisk
<1>6. f \in saved'
    BY <1>5
<1>7. Safe(f)'
    BY <1>4, <1>5 DEF Safe
<1> QED
    BY <1>1, <1>5, <1>6, <1>7

LEMMA StillOnDisk ==
    ASSUME OnDisk, exec' # none => exec # none /\ exec'.ctx.done = exec.ctx.done,
           saved' = saved, memory' = memory, call' = call,
           ~ overlapped' => ~ overlapped
    PROVE  OnDisk'
<1> SUFFICES ASSUME exec' # none /\ ~ overlapped'
             PROVE  \E f \in saved' :
                        f.whole = TRUE /\ exec'.ctx.done \subseteq f.ctx.done /\ Safe(f)'
    BY DEF OnDisk
<1>1. Behind' = Behind
    BY DEF Behind
<1>2. PICK f \in saved : f.whole = TRUE /\ exec.ctx.done \subseteq f.ctx.done /\ Safe(f)
    BY DEF OnDisk
<1>3. Safe(f)'
    BY <1>1, <1>2 DEF Safe
<1> QED
    BY <1>2, <1>3

LEMMA ContextFacts ==
    ASSUME NEW x \in Context
    PROVE  /\ x.done \subseteq Phases /\ x.reloaded \subseteq x.done /\ x.stage \in Phases
           /\ Stable!FromDict(x) \in Context /\ Stable!FromDict(x).done = x.done
           /\ \A s, t \in Phases :
                 /\ Stable!Merge(x, s, t) \in Context
                 /\ x.done \subseteq Stable!Merge(x, s, t).done
<1>1. x.done \subseteq Phases /\ x.reloaded \subseteq x.done /\ x.stage \in Phases
    BY DEF Context
<1>2. Stable!FromDict(x) \in Context /\ Stable!FromDict(x).done = x.done
    BY DEF Context, Stable!FromDict
<1>3. ASSUME NEW s \in Phases, NEW t \in Phases
      PROVE  /\ Stable!Merge(x, s, t) \in Context
             /\ x.done \subseteq Stable!Merge(x, s, t).done
  <2> DEFINE st == IF s \in UpdatingPhases THEN t ELSE x.stage
             y == [done |-> x.done \cup {s}, reloaded |-> x.reloaded \ {s}, stage |-> st]
  <2>1. Stable!Merge(x, s, t) = y
      BY DEF Stable!Merge
  <2>2. st \in Phases
      BY <1>1
  <2> HIDE DEF st
  <2>3. y.done = x.done \cup {s} /\ y.reloaded \subseteq y.done
      BY <1>1
  <2>4. y \in [done : SUBSET Phases, reloaded : SUBSET Phases, stage : Phases]
      BY <1>1, <2>2
  <2>5. y \in Context
      BY <2>3, <2>4 DEF Context
  <2> HIDE DEF y
  <2> QED
      BY <2>1, <2>3, <2>5
<1> QED
    BY <1>1, <1>2, <1>3

LEMMA ExecutionIs ==
    ASSUME NEW x \in Context, NEW s \in Phases,
           NEW status \in {"running", "recovering", "completed", "failed"}
    PROVE  [ctx |-> x, stage |-> s, status |-> status] \in Execution
    BY DEF Execution

LEMMA StartsKeep ==
    ASSUME Service, NEW c \in Callers, Stable!StartExecution(c)
    PROVE  Service'
<1>1. /\ call[c] = none /\ exec = none
      /\ \A d \in Callers : call[d] = none
      /\ Stable!BeginSave(c, "start", Stable!Fresh, FirstPhase)
      /\ exec' = exec /\ saved' = saved /\ memory' = memory /\ first' = first
      /\ overlapped' = overlapped
    BY DEF Stable!StartExecution
<1>2. FirstPhase \in Phases /\ Stable!Fresh \in Context
    BY StabilityAssumption DEF Stable!Fresh, Context
<1>3. Shelf'
    BY <1>1, <1>2, BegunShelf DEF Service
<1>4. OnDisk'
    BY <1>1 DEF OnDisk
<1>5. Moving'
  <2>1. call' = [call EXCEPT ![c] = [op |-> "start", id |-> saves + 1, at |-> first,
                                     ctx |-> Stable!Fresh, target |-> FirstPhase, current |-> TRUE]]
      BY <1>1 DEF Stable!BeginSave
  <2>2. \A d \in Callers : call'[d] # none => call'[d].op # "transfer"
      BY <1>1, <2>1 DEF Service, Shelf
  <2> QED
      BY <2>2 DEF Moving
<1> QED
    BY <1>1, <1>3, <1>4, <1>5 DEF Service

LEMMA StartedKeeps ==
    ASSUME Service, NEW c \in Callers, Stable!Started(c)
    PROVE  Service'
<1>1. /\ call[c] # none /\ Stable!SaveReturns(c)
      /\ exec' = [ctx |-> call[c].ctx, stage |-> FirstPhase, status |-> "running"]
      /\ saves' = saves /\ first' = first
    BY DEF Stable!Started
<1>2. PICK x \in Context : x = call[c].ctx
    BY <1>1 DEF Service, Shelf, Saving
<1>3. exec' \in Execution
    BY <1>1, <1>2, ExecutionIs, StabilityAssumption
<1>4. Shelf'
    BY <1>1, Returned DEF Service
<1>5. exec'.ctx = call[c].ctx
    BY <1>1
<1>6. OnDisk'
    BY <1>1, <1>5, ReturnsCovering DEF Service
<1>7. Moving'
    BY <1>3 DEF Moving
<1> QED
    BY <1>3, <1>4, <1>6, <1>7 DEF Service

LEMMA TransferKeeps ==
    ASSUME Service, NEW c \in Callers, NEW target \in Phases, Stable!TransferToStage(c, target)
    PROVE  Service'
<1>1. /\ call[c] = none /\ exec # none
      /\ Stable!BeginSave(c, "transfer", Stable!Merge(exec.ctx, exec.stage, target), target)
      /\ exec' = exec /\ saved' = saved /\ memory' = memory /\ first' = first
      /\ overlapped' = overlapped
    BY DEF Stable!TransferToStage
<1>2. exec \in Execution /\ exec.ctx \in Context /\ exec.stage \in Phases
    BY <1>1 DEF Service, Execution
<1>3. PICK x \in Context, s \in Phases : x = exec.ctx /\ s = exec.stage
    BY <1>2
<1>4. PICK y \in Context : y = Stable!Merge(x, s, target) /\ x.done \subseteq y.done
    BY <1>3, ContextFacts
<1>5. Stable!BeginSave(c, "transfer", y, target)
    BY <1>1, <1>3, <1>4
<1>6. Shelf'
    BY <1>1, <1>5, BegunShelf DEF Service
<1>7. OnDisk'
    BY <1>1, <1>3, <1>4, <1>5, BegunOnDisk DEF Service
<1>8. Moving'
    BY <1>1, <1>2 DEF Moving
<1> QED
    BY <1>1, <1>6, <1>7, <1>8 DEF Service

LEMMA TransferredKeeps ==
    ASSUME Service, NEW c \in Callers, Stable!Transferred(c)
    PROVE  Service'
<1>1. /\ call[c] # none /\ call[c].op = "transfer" /\ Stable!SaveReturns(c)
      /\ exec' = IF call[c].current
                 THEN [exec EXCEPT !.ctx = call[c].ctx, !.stage = call[c].target] ELSE exec
      /\ overlapped' = (overlapped /\ ~ call[c].current)
      /\ saves' = saves /\ first' = first
    BY DEF Stable!Transferred
<1>2. exec \in Execution /\ call[c] \in Saving
    BY <1>1 DEF Service, Moving, Shelf
<1>3. call[c].ctx \in Context /\ call[c].target \in Phases
    BY <1>2 DEF Saving
<1>4. Shelf' /\ call' = [call EXCEPT ![c] = none]
    BY <1>1, Returned DEF Service
<1>5. exec' \in Execution /\ OnDisk'
  <2>1. CASE call[c].current
    <3>1. exec' = [exec EXCEPT !.ctx = call[c].ctx, !.stage = call[c].target]
        BY <1>1, <2>1
    <3>2. exec' \in Execution /\ exec'.ctx = call[c].ctx
        BY <1>2, <1>3, <3>1 DEF Execution
    <3> QED
        BY <1>1, <3>2, ReturnsCovering DEF Service
  <2>2. CASE ~ call[c].current
    <3>1. exec' = exec
        BY <1>1, <2>2
    <3>2. ~ overlapped' => ~ overlapped
        BY <1>1, <2>2, Zenon
    <3>3. OnDisk'
        BY <1>1, <3>1, <3>2, ReturnsKeep DEF Service
    <3> QED
        BY <1>2, <3>1, <3>3
  <2> QED
      BY <2>1, <2>2
<1> QED
    BY <1>4, <1>5 DEF Service, Moving

LEMMA SavedKeeps ==
    ASSUME Service, NEW c \in Callers, Stable!Saved(c)
    PROVE  Service'
<1>1. /\ call[c] # none /\ Stable!SaveReturns(c)
      /\ exec' = exec /\ overlapped' = overlapped /\ saves' = saves /\ first' = first
    BY DEF Stable!Saved
<1>2. Shelf' /\ call' = [call EXCEPT ![c] = none]
    BY <1>1, Returned DEF Service
<1>3. OnDisk'
    BY <1>1, ReturnsKeep DEF Service
<1>4. Moving'
    BY <1>1, <1>2 DEF Service, Shelf, Moving
<1> QED
    BY <1>1, <1>2, <1>3, <1>4 DEF Service

LEMMA SaveOnlyKeeps ==
    ASSUME Service, NEW c \in Callers, Stable!SaveOnly(c)
    PROVE  Service'
<1>1. /\ call[c] = none /\ exec # none
      /\ Stable!BeginSave(c, "save", exec.ctx, FirstPhase)
      /\ exec' = exec /\ saved' = saved /\ memory' = memory /\ first' = first
      /\ overlapped' = overlapped
    BY DEF Stable!SaveOnly
<1>2. exec \in Execution /\ FirstPhase \in Phases
    BY <1>1, StabilityAssumption DEF Service
<1>3. PICK x \in Context : x = exec.ctx
    BY <1>2 DEF Execution
<1>4. Stable!BeginSave(c, "save", x, FirstPhase)
    BY <1>1, <1>3
<1>5. Shelf'
    BY <1>1, <1>2, <1>4, BegunShelf DEF Service
<1>6. OnDisk'
    BY <1>1, <1>3, <1>4, BegunOnDisk DEF Service
<1>7. Moving'
    BY <1>1, <1>2 DEF Moving
<1> QED
    BY <1>1, <1>5, <1>6, <1>7 DEF Service

LEMMA SameShelf ==
    ASSUME Shelf, UNCHANGED <<saved, memory, call, saves>>, first' \in Nat
    PROVE  Shelf'
<1>1. \A c \in Callers : Pending(c)'
    BY DEF Shelf, Pending
<1>2. OneEach(memory)'
    BY DEF Shelf, OneEach
<1> QED
    BY <1>1, <1>2 DEF Shelf

LEMMA CompleteKeeps ==
    ASSUME Service, NEW c \in Callers, Stable!CompleteExecution(c, "completed")
    PROVE  Service'
<1>1. /\ call[c] = none /\ exec # none /\ exec' = [exec EXCEPT !.status = "completed"]
      /\ \/ Stable!BeginSave(c, "save", exec.ctx, FirstPhase)
         \/ call' = call /\ saves' = saves
      /\ saved' = saved /\ memory' = memory /\ first' = first /\ overlapped' = overlapped
    BY DEF Stable!CompleteExecution
<1>2. exec \in Execution /\ FirstPhase \in Phases
    BY <1>1, StabilityAssumption DEF Service
<1>3. PICK x \in Context : x = exec.ctx
    BY <1>2 DEF Execution
<1>4. exec' \in Execution /\ exec'.ctx = exec.ctx
    BY <1>1, <1>2 DEF Execution
<1>5. Shelf' /\ OnDisk'
  <2>1. CASE Stable!BeginSave(c, "save", exec.ctx, FirstPhase)
    <3>1. Stable!BeginSave(c, "save", x, FirstPhase)
        BY <1>3, <2>1
    <3>2. Shelf'
        BY <3>1, <1>1, <1>2, BegunShelf DEF Service
    <3>3. OnDisk'
        BY <3>1, <1>1, <1>3, <1>4, BegunOnDisk DEF Service
    <3> QED
        BY <3>2, <3>3
  <2>2. CASE call' = call /\ saves' = saves
    <3>1. Shelf'
        BY <2>2, <1>1, SameShelf DEF Service, Shelf
    <3>2. OnDisk'
        BY <2>2, <1>1, <1>4, StillOnDisk DEF Service
    <3> QED
        BY <3>1, <3>2
  <2> QED
      BY <1>1, <2>1, <2>2
<1> QED
    BY <1>4, <1>5 DEF Service, Moving

(* A context that was read back from a whole file is in that file, and     *)
(* nothing is behind it if no call was saving.                             *)
LEMMA ReadBack ==
    ASSUME Shelf, Stable!Readable, NEW f \in saved, saved' = saved,
           exec'.ctx = Stable!FromDict(f.ctx),
           overlapped' = Stable!Saving, \A c \in Callers : call[c] = none => call'[c] = none
    PROVE  OnDisk'
<1> SUFFICES ASSUME ~ overlapped'
             PROVE  f.whole = TRUE /\ exec'.ctx.done \subseteq f.ctx.done /\ Safe(f)'
    BY DEF OnDisk
<1>1. f \in Checkpoint
    BY DEF Shelf
<1>2. f.whole = TRUE /\ f.ctx \in Context
    BY <1>1 DEF Checkpoint, Flag, Stable!Readable
<1>3. exec'.ctx.done = f.ctx.done
    BY <1>2, ContextFacts
<1>4. Behind' = {}
    BY DEF Behind, Stable!Saving
<1>5. Safe(f)'
    BY <1>4 DEF Safe
<1> QED
    BY <1>2, <1>3, <1>5

(* A thread opens the file of a call, and writes it.                       *)
LEMMA OpenedKeeps ==
    ASSUME Service, NEW c \in Callers, Stable!FileOpened(c)
    PROVE  Service'
<1> DEFINE new == [id |-> call[c].id, at |-> call[c].at, ctx |-> call[c].ctx, whole |-> FALSE]
<1>1. /\ call[c] # none /\ \A f \in saved : f.id # call[c].id
      /\ saved' = saved \cup {new}
      /\ UNCHANGED <<exec, memory, call, overlapped, saves, first>>
    BY DEF Stable!FileOpened
<1>2. call[c] \in Saving
    BY <1>1 DEF Service, Shelf
<1>3. new \in Checkpoint
  <2>1. call[c].id \in Nat /\ call[c].at \in Nat /\ call[c].ctx \in Context
      BY <1>2 DEF Saving
  <2> QED
      BY <2>1, Flags, Zenon DEF Checkpoint
<1>4. new.id = call[c].id /\ new.ctx = call[c].ctx
    OBVIOUS
<1> HIDE DEF new
<1>5. call[c].id <= saves
    BY <1>1 DEF Service, Shelf, Pending
<1>6. ASSUME NEW d \in Callers, call[d] # none, NEW f \in saved', f.id = call[d].id
      PROVE  f.ctx = call[d].ctx
  <2>1. CASE f \in saved
      BY <1>6, <2>1 DEF Service, Shelf, Pending
  <2>2. CASE f = new
    <3>1. d = c
        BY <1>1, <1>4, <1>6, <2>2 DEF Service, Shelf, Pending
    <3> QED
        BY <1>4, <2>2, <3>1
  <2> QED
      BY <1>1, <2>1, <2>2
<1>7. ASSUME NEW d \in Callers PROVE Pending(d)'
  <2>1. Pending(d)
      BY DEF Service, Shelf
  <2> QED
      BY <1>1, <1>6, <2>1 DEF Pending
<1>8. \A f, g \in saved' : f.id = g.id => f = g
    BY <1>1, <1>4 DEF Service, Shelf
<1>9. saved' \subseteq Checkpoint /\ \A f \in saved' : f.id <= saves'
    BY <1>1, <1>3, <1>4, <1>5 DEF Service, Shelf
<1>10. Shelf'
    BY <1>1, <1>7, <1>8, <1>9 DEF Service, Shelf, OneEach
<1>11. OnDisk'
  <2> SUFFICES ASSUME exec' # none /\ ~ overlapped'
               PROVE  \E f \in saved' :
                          f.whole = TRUE /\ exec'.ctx.done \subseteq f.ctx.done /\ Safe(f)'
      BY DEF OnDisk
  <2>1. PICK f \in saved : f.whole = TRUE /\ exec.ctx.done \subseteq f.ctx.done /\ Safe(f)
      BY <1>1 DEF Service, OnDisk
  <2>2. Safe(f)'
      BY <1>1, <2>1 DEF Safe, Behind
  <2> QED
      BY <1>1, <2>1, <2>2
<1> QED
    BY <1>1, <1>10, <1>11 DEF Service, Moving

LEMMA WrittenKeeps ==
    ASSUME Service, NEW c \in Callers, Stable!FileWritten(c)
    PROVE  Service'
<1> DEFINE Closed(f) == IF f.id = call[c].id THEN [f EXCEPT !.whole = TRUE] ELSE f
<1>1. /\ saved' = {Closed(f) : f \in saved}
      /\ UNCHANGED <<exec, memory, call, overlapped, saves, first>>
    BY DEF Stable!FileWritten
<1>2. ASSUME NEW f \in saved
      PROVE  /\ Closed(f) \in Checkpoint /\ Closed(f).id = f.id /\ Closed(f).ctx = f.ctx
             /\ f.whole = TRUE => Closed(f).whole = TRUE
  <2>1. f \in Checkpoint
      BY DEF Service, Shelf
  <2>2. CASE f.id = call[c].id
    <3>1. Closed(f) = [f EXCEPT !.whole = TRUE]
        BY <2>2
    <3> QED
        BY <2>1, <3>1, BecomesWhole
  <2>3. CASE f.id # call[c].id
      BY <2>1, <2>3
  <2> QED
      BY <2>2, <2>3
<1>3. /\ \A f \in saved : Closed(f) \in saved'
      /\ \A g \in saved' : \E f \in saved : g = Closed(f)
    BY <1>1
<1> HIDE DEF Closed
<1>4. saved' \subseteq Checkpoint /\ \A g \in saved' : g.id <= saves'
  <2> SUFFICES ASSUME NEW g \in saved'
               PROVE  g \in Checkpoint /\ g.id <= saves
      BY <1>1
  <2>1. PICK f \in saved : g = Closed(f)
      BY <1>3
  <2> QED
      BY <2>1, <1>2 DEF Service, Shelf
<1>5. \A g, h \in saved' : g.id = h.id => g = h
  <2> SUFFICES ASSUME NEW g \in saved', NEW h \in saved', g.id = h.id
               PROVE  g = h
      OBVIOUS
  <2>1. PICK f \in saved : g = Closed(f)
      BY <1>3
  <2>2. PICK e \in saved : h = Closed(e)
      BY <1>3
  <2>3. f = e
      BY <2>1, <2>2, <1>2 DEF Service, Shelf
  <2> QED
      BY <2>1, <2>2, <2>3
<1>6. ASSUME NEW d \in Callers PROVE Pending(d)'
  <2>1. Pending(d)
      BY DEF Service, Shelf
  <2>2. ASSUME call[d] # none, NEW g \in saved', g.id = call[d].id
        PROVE  g.ctx = call[d].ctx
    <3>1. PICK f \in saved : g = Closed(f)
        BY <1>3
    <3> QED
        BY <2>1, <2>2, <3>1, <1>2 DEF Pending
  <2> QED
      BY <1>1, <2>1, <2>2 DEF Pending
<1>7. Shelf'
    BY <1>1, <1>4, <1>5, <1>6 DEF Service, Shelf, OneEach
<1>8. OnDisk'
  <2> SUFFICES ASSUME exec' # none /\ ~ overlapped'
               PROVE  \E f \in saved' :
                          f.whole = TRUE /\ exec'.ctx.done \subseteq f.ctx.done /\ Safe(f)'
      BY DEF OnDisk
  <2>1. PICK f \in saved : f.whole = TRUE /\ exec.ctx.done \subseteq f.ctx.done /\ Safe(f)
      BY <1>1 DEF Service, OnDisk
  <2>2. PICK g \in saved' : g.whole = TRUE /\ g.ctx = f.ctx /\ g.id = f.id
      BY <1>2, <1>3, <2>1
  <2>3. Safe(g)'
      BY <1>1, <2>1, <2>2 DEF Safe, Behind
  <2> QED
      BY <1>1, <2>1, <2>2, <2>3
<1> QED
    BY <1>1, <1>7, <1>8 DEF Service, Moving

LEMMA FailureKeeps ==
    ASSUME Service, NEW k, Stable!HandleFailure(k)
    PROVE  Service'
<1>1. /\ exec # none /\ UNCHANGED <<saved, memory, call, saves, first>>
      /\ \/ /\ Stable!Readable /\ overlapped' = Stable!Saving
            /\ \E f \in Stable!Latest :
                   exec' = [exec EXCEPT !.ctx = Stable!FromDict(f.ctx), !.status = "running"]
         \/ /\ \E status \in {"recovering", "failed"} : exec' = [exec EXCEPT !.status = status]
            /\ overlapped' = overlapped
    BY DEF Stable!HandleFailure
<1>2. exec \in Execution
    BY <1>1 DEF Service
<1>3. Shelf'
    BY <1>1, SameShelf DEF Service, Shelf
<1>4. exec' \in Execution /\ OnDisk'
  <2>1. CASE /\ Stable!Readable /\ overlapped' = Stable!Saving
             /\ \E f \in Stable!Latest :
                    exec' = [exec EXCEPT !.ctx = Stable!FromDict(f.ctx), !.status = "running"]
    <3>1. PICK f \in saved :
              exec' = [exec EXCEPT !.ctx = Stable!FromDict(f.ctx), !.status = "running"]
        BY <2>1 DEF Stable!Latest
    <3>2. PICK x \in Context : x = f.ctx
        BY DEF Service, Shelf, Checkpoint
    <3>3. PICK y \in Context : y = Stable!FromDict(f.ctx)
        BY <3>2, ContextFacts
    <3>4. exec' \in Execution /\ exec'.ctx = y
        BY <1>2, <3>1, <3>3 DEF Execution
    <3>5. exec'.ctx = Stable!FromDict(f.ctx)
        BY <3>3, <3>4
    <3>6. Stable!Readable /\ overlapped' = Stable!Saving /\ saved' = saved /\ Shelf
        BY <1>1, <2>1, Zenon DEF Service
    <3>7. \A d \in Callers : call[d] = none => call'[d] = none
        BY <1>1
    <3>8. OnDisk'
        BY <3>5, <3>6, <3>7, ReadBack
    <3> QED
        BY <3>4, <3>8
  <2>2. ASSUME NEW status \in {"recovering", "failed"}, exec' = [exec EXCEPT !.status = status],
               overlapped' = overlapped
        PROVE  exec' \in Execution /\ OnDisk'
    <3>1. exec' \in Execution /\ exec'.ctx = exec.ctx
        BY <1>2, <2>2 DEF Execution
    <3>2. ~ overlapped' => ~ overlapped
        BY <2>2, Zenon
    <3>3. OnDisk'
        BY <1>1, <3>1, <3>2, StillOnDisk DEF Service
    <3> QED
        BY <3>1, <3>3
  <2> QED
      BY <1>1, <2>1, <2>2, Zenon
<1> QED
    BY <1>3, <1>4 DEF Service, Moving

LEMMA NoCallsShelf ==
    ASSUME Shelf, UNCHANGED <<saved, saves, first>>, memory' = memory \/ memory' = <<>>,
           call' = [c \in Callers |-> none]
    PROVE  Shelf'
<1>1. \A c \in Callers : Pending(c)'
    BY DEF Pending
<1>2. call' \in [Callers -> Saving \cup {none}]
    OBVIOUS
<1>3. CheckpointsKept \in Nat
    BY StabilityAssumption
<1>4. /\ memory' \in Seq(Nat) /\ Len(memory') <= CheckpointsKept /\ OneEach(memory)'
      /\ \A i \in DOMAIN memory' : memory'[i] <= saves
  <2>1. CASE memory' = memory
      BY <2>1 DEF Shelf, OneEach
  <2>2. CASE memory' = <<>>
    <3>1. memory' \in Seq(Nat) /\ Len(memory') = 0 /\ DOMAIN memory' = {}
        BY <2>2
    <3> QED
        BY <3>1, <1>3 DEF OneEach
  <2> QED
      BY <2>1, <2>2
<1> QED
    BY <1>1, <1>2, <1>4 DEF Shelf

LEMMA RestoreKeeps ==
    ASSUME Service, Stable!RestoreExecution
    PROVE  Service'
<1>1. PICK f \in saved :
          exec' = [ctx |-> Stable!FromDict(f.ctx), stage |-> f.ctx.stage, status |-> "running"]
    BY DEF Stable!RestoreExecution, Stable!Latest
<1>2. /\ Stable!Readable /\ UNCHANGED <<saved, memory, saves, first>>
      /\ overlapped' = Stable!Saving
      /\ call' = [c \in Callers |-> IF call[c] = none THEN none
                                    ELSE [call[c] EXCEPT !.current = FALSE]]
    BY DEF Stable!RestoreExecution
<1>3. /\ call' \in [Callers -> Saving \cup {none}]
      /\ \A c \in Callers : /\ call[c] = none => call'[c] = none
                            /\ call[c] # none => /\ call'[c].id = call[c].id
                                                 /\ call'[c].ctx = call[c].ctx
  <2>1. ASSUME NEW c \in Callers, call[c] # none
        PROVE  /\ call'[c] \in Saving /\ call'[c].id = call[c].id /\ call'[c].ctx = call[c].ctx
    <3>1. call[c] \in Saving
        BY <2>1 DEF Service, Shelf
    <3>2. call'[c] = [call[c] EXCEPT !.current = FALSE]
        BY <1>2, <2>1
    <3> QED
        BY <3>1, <3>2, Flags DEF Saving
  <2>2. \A c \in Callers : call[c] = none => call'[c] = none
      BY <1>2
  <2> QED
      BY <1>2, <2>1, <2>2
<1>4. Shelf'
  <2>1. \A c \in Callers : Pending(c)'
      BY <1>2, <1>3 DEF Service, Shelf, Pending
  <2> QED
      BY <1>2, <1>3, <2>1 DEF Service, Shelf, OneEach
<1>5. PICK x \in Context : x = f.ctx
    BY DEF Service, Shelf, Checkpoint
<1>6. PICK y \in Context : y = Stable!FromDict(f.ctx)
    BY <1>5, ContextFacts
<1>7. f.ctx.stage \in Phases
    BY <1>5, ContextFacts
<1>8. exec' = [ctx |-> y, stage |-> f.ctx.stage, status |-> "running"]
    BY <1>1, <1>6
<1>9. exec' \in Execution
    BY <1>7, <1>8, ExecutionIs
<1>10. exec'.ctx = Stable!FromDict(f.ctx)
    BY <1>1
<1>11. OnDisk'
    BY <1>1, <1>2, <1>3, <1>10, ReadBack DEF Service
<1> QED
    BY <1>4, <1>9, <1>11 DEF Service, Moving

LEMMA CrashKeeps ==
    ASSUME Service, Stable!Crash
    PROVE  Service'
<1>1. /\ exec' = none /\ memory' = <<>> /\ call' = [c \in Callers |-> none]
      /\ UNCHANGED <<saved, saves, first>>
    BY DEF Stable!Crash
<1>2. Shelf'
    BY <1>1, NoCallsShelf DEF Service
<1> QED
    BY <1>1, <1>2 DEF Service, Moving, OnDisk

LEMMA SecondKeeps ==
    ASSUME Service, Stable!SecondPasses
    PROVE  Service'
<1>1. first' = first + 1 /\ UNCHANGED <<exec, saved, memory, call, overlapped, saves>>
    BY DEF Stable!SecondPasses
<1>2. first' \in Nat
    BY <1>1 DEF Service, Shelf
<1>3. Shelf'
    BY <1>1, <1>2, SameShelf DEF Service
<1>4. OnDisk'
    BY <1>1, StillOnDisk DEF Service
<1> QED
    BY <1>1, <1>3, <1>4 DEF Service, Moving

LEMMA StabilityInit == Init => StabilityInv
<1> SUFFICES ASSUME Stable!Init
             PROVE  Service
    BY DEF Init, StabilityInv
<1>1. /\ exec = none /\ saved = {} /\ memory = <<>> /\ saves = 0 /\ first = 1
      /\ call = [c \in Callers |-> none]
    BY DEF Stable!Init
<1>2. memory \in Seq(Nat) /\ Len(memory) = 0 /\ DOMAIN memory = {}
    BY <1>1
<1>3. Shelf
    BY <1>1, <1>2, StabilityAssumption DEF Shelf, OneEach, Pending
<1> QED
    BY <1>1, <1>3 DEF Service, Moving, OnDisk

LEMMA StabilityInvariance == StabilityInv /\ [Next]_vars => StabilityInv'
<1> SUFFICES ASSUME StabilityInv, [Next]_vars, part' \in {"alone", "shared"}
             PROVE  Service'
    BY DEF StabilityInv
<1>1. CASE Next
  <2>1. part \in {"alone", "shared"}
      BY <1>1 DEF Next
  <2>2. Service
      BY <2>1 DEF StabilityInv
  <2>3. Stable!Next
      BY <1>1, <2>1 DEF Next, Work, Judge, Explain, Resume, Keep
  <2> QED
      BY <2>2, <2>3, StartsKeep, StartedKeeps, TransferKeeps, TransferredKeeps, SavedKeeps,
         SaveOnlyKeeps, CompleteKeeps, OpenedKeeps,
         WrittenKeeps, FailureKeeps, RestoreKeeps, CrashKeeps, SecondKeeps
         DEF Stable!Next, Stable!CompleteStage, Stable!CreatePeriodicCheckpoint
<1>2. CASE UNCHANGED vars
  <2>1. part \in {"alone", "shared"} /\ UNCHANGED stabilityVars
      BY <1>2 DEF vars
  <2>2. UNCHANGED <<exec, saved, memory, call, overlapped, saves, first>>
      BY <2>1 DEF stabilityVars
  <2>3. Service
      BY <2>1 DEF StabilityInv
  <2>4. Shelf'
      BY <2>2, <2>3, SameShelf DEF Service, Shelf
  <2>5. OnDisk'
      BY <2>2, <2>3, StillOnDisk DEF Service
  <2> QED
      BY <2>2, <2>3, <2>4, <2>5 DEF Service, Moving
<1> QED
    BY <1>1, <1>2

(* For any number of stages, saves, seconds and crashes, and as many       *)
(* coroutines as half of what the list keeps: whatever the active context  *)
(* holds can be read back from one whole checkpoint.                       *)
THEOREM ContextStaysOnDisk == Spec => []ContextOnDisk
<1>1. StabilityInv => ContextOnDisk
  <2> SUFFICES ASSUME Service
               PROVE  Stable!TypeOK /\ Stable!ContextOnDisk
      BY DEF StabilityInv, ContextOnDisk
  <2>1. Stable!ContextOnDisk
      BY DEF Service, OnDisk, Stable!ContextOnDisk
  <2>2. exec # none =>
            /\ exec.ctx.reloaded \subseteq exec.ctx.done
            /\ exec.stage \in Phases /\ exec.ctx.stage \in Phases
            /\ exec.status \in {"running", "recovering", "completed", "failed"}
    <3> SUFFICES ASSUME exec \in Execution
                 PROVE  /\ exec.ctx.reloaded \subseteq exec.ctx.done
                        /\ exec.stage \in Phases /\ exec.ctx.stage \in Phases
                        /\ exec.status \in {"running", "recovering", "completed", "failed"}
        BY DEF Service
    <3>1. PICK x \in Context : x = exec.ctx
        BY DEF Execution
    <3> QED
        BY <3>1, ContextFacts DEF Execution
  <2>3. Stable!TypeOK
      BY <2>2 DEF Service, Shelf, OneEach, Stable!TypeOK, Stable!IsInjective
  <2> QED
      BY <2>1, <2>3
<1> QED
    BY <1>1, StabilityInit, StabilityInvariance, PTL DEF Spec
=============================================================================
