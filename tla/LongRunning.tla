------------------------------ MODULE LongRunning ----------------------------
(***************************************************************************)
(* core/long_running: SessionManager over InitializerAgent and CodingAgent *)
(* and the files they share in the project directory: feature_list.json,   *)
(* progress.jsonl, the copies of both in the last git commit, and          *)
(* .checkpoints/. One process works on the project; it may die between any *)
(* two of its steps. ProgressTracker holds what it read of progress.jsonl  *)
(* when the process began and what the manager recorded since; the coding  *)
(* agent appends to the file behind its back.                              *)
(*                                                                         *)
(* Abstracted: what a feature says, the commits' messages and the handoff  *)
(* text. A feature is its id, with its priority and what it depends on;    *)
(* every initialisation lists the same ones. A line of progress.jsonl is   *)
(* its place in the order of all lines written, and what it says of a      *)
(* feature's tests. A file is written at once, and so is a commit.         *)
(***************************************************************************)
EXTENDS Naturals, FiniteSets, Sequences

CONSTANTS
    Features, None,
    Depends,         \* feature -> the features it depends on
    Rank,            \* feature -> the place of its priority's name in the alphabet
    TestCallback,    \* is a test_callback set?
    Interval,        \* checkpoint_interval_features
    MaxCheckpoints, MaxLines, MaxCrashes     \* bounds of the model

VARIABLES
    list,          \* feature_list.json: feature -> status, or None
    named,         \* are its priorities names, as the readers expect, or the numbers
                   \* that _write_feature_list puts there?
    head,          \* feature_list.json in the last commit, or None
    progress,      \* progress.jsonl: sequence of [line, what, feature]
    kept,          \* progress.jsonl in the last commit, or None
    tracked,       \* ProgressTracker._entries: the numbers of its lines
    lines,         \* lines written so far, to this file or to what is gone
    cut,           \* history: the newest of them when the file was last written anew,
                   \* by a reset or by initialize_project
    session,       \* None, "active" or "completed"
    current,       \* _current_feature
    work,          \* implement_feature or, without a feature, initialize_project under
                   \* way: [feature, step] or None
    checkpoints,   \* .checkpoints/: [id, at, passed]
    crashes,
    resets         \* ghost: was the project ever reset to the last commit?

vars == <<list, named, head, progress, kept, tracked, lines, cut, session, current, work,
          checkpoints, crashes, resets>>
lists == <<list, named, head>>
books == <<progress, kept, tracked, lines, cut>>
faults == <<crashes, resets>>

Init ==
    /\ list = None /\ named \in BOOLEAN /\ head = None
    /\ progress = << >> /\ kept = None /\ tracked = {} /\ lines = 0 /\ cut = 0
    /\ session = None /\ current = None /\ work = None
    /\ checkpoints = {} /\ crashes = 0 /\ resets = FALSE

(* end_session leaves the coding agent in place: its operations go on working *)
Idle == session # None /\ work = None

(* ----------------------------- progress.jsonl -------------------------- *)
Line(place, what, feature) == [line |-> lines + place, what |-> what, feature |-> feature]

(* CodingAgent._append_progress *)
Append1(old, what, feature) == Append(old, Line(1, what, feature))

(* Mutant: the file is written by the coding agent only. *)
RecordInMemory(old, place) ==
    /\ progress' = old
    /\ tracked' = tracked \cup {lines + place} /\ lines' = lines + place

(* ProgressTracker.record, after the agent wrote place - 1 lines *)
Record(old, place) ==
    /\ progress' = Append(old, Line(place, "note", None))
    /\ tracked' = tracked \cup {lines + place} /\ lines' = lines + place

Room(n) == lines + n <= MaxLines

(* _load_existing_progress of a new manager *)
Loaded == {progress[i].line : i \in DOMAIN progress}

(* ----------------------------- the sessions ---------------------------- *)
(* initialize_project, of a new project or of one that is under way: the   *)
(* list is written anew (one with names was edited by hand since) ...      *)
InitializeProject ==
    /\ work = None
    /\ list' = [f \in Features |-> "pending"]
    /\ work' = [feature |-> None, step |-> "listed"]
    /\ UNCHANGED <<named, head, books, session, current, checkpoints, faults>>

(* ... then progress.jsonl, which loses what it had ... *)
WriteProgressFile ==
    /\ work # None /\ work.step = "listed" /\ Room(1)
    /\ work' = [work EXCEPT !.step = "logged"]
    /\ progress' = Append1(<< >>, "note", None)
    /\ lines' = lines + 1 /\ cut' = lines
    /\ UNCHANGED <<lists, kept, tracked, session, current, checkpoints, faults>>

(* ... git commits all files, or fails unheeded ... *)
CreateInitialCommit ==
    /\ work # None /\ work.step = "logged"
    /\ work' = [work EXCEPT !.step = "committed"]
    /\ \/ head' = list /\ kept' = progress
       \/ UNCHANGED <<head, kept>>
    /\ UNCHANGED <<list, named, progress, tracked, lines, cut, session, current, checkpoints, faults>>

(* ... and the manager, whose tracker keeps its entries, adds its own *)
ProjectInitialized ==
    /\ work # None /\ work.step = "committed" /\ Room(1)
    /\ work' = None
    /\ Record(progress, 1) /\ cut' = cut
    /\ UNCHANGED <<lists, kept, session, current, checkpoints, faults>>

(* the exception of any of these is the caller's *)
InitializeRaises ==
    /\ work # None /\ work.feature = None
    /\ work' = None
    /\ UNCHANGED <<lists, books, session, current, checkpoints, faults>>

StartCodingSession ==
    /\ list # None /\ work = None /\ Room(1)
    /\ session' = "active" /\ current' = None     \* a new CodingAgent
    /\ Record(progress, 1)
    /\ UNCHANGED <<lists, kept, cut, work, checkpoints, faults>>

Eligible ==
    {f \in Features : list[f] \in {"pending", "failed"}
                      /\ \A d \in Depends[f] : list[d] = "passed"}

(* select_next_feature: .upper() raises on a number; the sort is by name *)
SelectNextFeature ==
    /\ Idle /\ Eligible # {} /\ named
    /\ \E f \in Eligible : (\A g \in Eligible : Rank[f] <= Rank[g]) /\ current' = f
    /\ UNCHANGED <<lists, books, session, work, checkpoints, faults>>

(* ---------------------------- implement_feature ------------------------ *)
Step(f, step, status) ==
    /\ work' = [feature |-> f, step |-> step]
    /\ list' = [list EXCEPT ![f] = status]
    /\ UNCHANGED <<named, head>>

(* of the selected feature, or of any the caller passes; the model then    *)
(* writes its files                                                        *)
BeginFeature(f) ==
    /\ Idle
    /\ Step(f, "test", "in_progress")
    /\ UNCHANGED <<books, session, current, checkpoints, faults>>

(* Mutant: the exception leaves the status as it is. *)
RaisedUnmarked == UNCHANGED list

(* the except branch: a callback, git or the file system raised *)
Raised == list' = [list EXCEPT ![work.feature] = "failed"]

Raise ==
    /\ work # None /\ work.feature # None
    /\ work' = None /\ Raised
    /\ UNCHANGED <<named, head, books, session, current, checkpoints, faults>>

(* _run_tests: without a callback it ends in "return True", whatever the   *)
(* commands returned                                                       *)
TestsPassed(succeeded) == succeeded \/ ~ TestCallback

RunTests(succeeded) ==
    /\ work # None /\ work.step = "test"
    /\ Step(work.feature, "commit", IF TestsPassed(succeeded) THEN "passed" ELSE "failed")
    /\ UNCHANGED <<books, session, current, checkpoints, faults>>

(* _commit_changes, with the files the model said it changed: the list and *)
(* progress.jsonl may be among them                                        *)
Commit(withList, withProgress) ==
    /\ work # None /\ work.step = "commit"
    /\ work' = [work EXCEPT !.step = "record"]
    /\ head' = IF withList THEN list ELSE head
    /\ kept' = IF withProgress THEN progress ELSE kept
    /\ UNCHANGED <<list, named, progress, tracked, lines, cut, session, current, checkpoints, faults>>

Passed == {f \in Features : list[f] = "passed"}

(* the sort of (timestamp, dict) raises when two newest timestamps tie *)
Newest == {c \in checkpoints : \A d \in checkpoints : d.at <= c.at}
Sortable == \A c, d \in checkpoints : c.at = d.at => c = d
LastCount == IF checkpoints = {} THEN 0 ELSE (CHOOSE c \in Newest : TRUE).passed

(* the next checkpoint is made in the second of the newest or in a later one *)
Seconds == IF checkpoints = {} THEN {1} ELSE LET at == (CHOOSE c \in Newest : TRUE).at IN {at, at + 1}

SaveCheckpoint ==
    /\ Cardinality(checkpoints) < MaxCheckpoints
    /\ \E at \in Seconds : checkpoints' = checkpoints \cup
           {[id |-> Cardinality(checkpoints) + 1, at |-> at, passed |-> Cardinality(Passed)]}

MaybeCheckpoint == Sortable /\ Cardinality(Passed) >= LastCount + Interval

(* test_results of the entry, and its blocker when they failed *)
Verdict == list[work.feature]

(* the entry of the feature; then, without an exception, the manager's     *)
(* _maybe_checkpoint                                                       *)
RecordFeature ==
    /\ work # None /\ work.step = "record"
    /\ work' = None
    /\ LET written == Append1(progress, Verdict, work.feature)
       IN  IF MaybeCheckpoint
           THEN Room(2) /\ Record(written, 2) /\ SaveCheckpoint
           ELSE /\ Room(1) /\ progress' = written /\ lines' = lines + 1
                /\ UNCHANGED <<tracked, checkpoints>>
    /\ UNCHANGED <<lists, kept, cut, session, current, faults>>

(* ------------------------------------------------------------------------ *)
(* by the caller, or when the context window is 85 percent full *)
CreateCheckpoint ==
    /\ Idle /\ Room(1) /\ SaveCheckpoint
    /\ Record(progress, 1)
    /\ UNCHANGED <<lists, kept, cut, session, current, work, faults>>

(* recover: git reset --hard brings the committed files back and leaves    *)
(* alone what no commit has; then the manager records the recovery         *)
Reset(marked) ==
    /\ Idle /\ Room(1)
    /\ list' = IF head = None THEN marked ELSE head
    /\ Record(IF kept = None THEN progress ELSE kept, 1)
    /\ resets' = TRUE /\ cut' = lines
    /\ UNCHANGED <<named, head, kept, session, current, work, checkpoints, crashes>>

Marked(status) == IF current = None THEN list ELSE [list EXCEPT ![current] = status]

Rollback == Reset(list)
Restart == Reset(Marked("pending"))

Skip ==
    /\ Idle /\ Room(1)
    /\ list' = Marked("blocked")
    /\ Record(progress, 1)
    /\ UNCHANGED <<named, head, kept, cut, session, current, work, checkpoints, faults>>

(* the agent and the manager both write a line; the session ends also when *)
(* the handoff document cannot be written                                  *)
EndSession ==
    /\ Idle /\ session' = "completed" /\ Room(2)
    /\ Record(Append1(progress, "note", None), 2)
    /\ UNCHANGED <<lists, kept, cut, current, work, checkpoints, faults>>

(* a new manager reads progress.jsonl *)
Crash ==
    /\ crashes < MaxCrashes /\ crashes' = crashes + 1
    /\ session' = None /\ current' = None /\ work' = None
    /\ tracked' = Loaded
    /\ UNCHANGED <<lists, progress, kept, lines, cut, checkpoints, resets>>

Next ==
    \/ InitializeProject \/ WriteProgressFile \/ CreateInitialCommit
    \/ ProjectInitialized \/ InitializeRaises
    \/ StartCodingSession \/ SelectNextFeature
    \/ \E f \in Features : BeginFeature(f)
    \/ Raise \/ \E b \in BOOLEAN : RunTests(b)
    \/ \E b, c \in BOOLEAN : Commit(b, c)
    \/ RecordFeature
    \/ CreateCheckpoint \/ Rollback \/ Restart \/ Skip \/ EndSession
    \/ Crash

Spec == Init /\ [][Next]_vars
-----------------------------------------------------------------------------
TypeOK ==
    /\ list # None => list \in [Features -> {"pending", "in_progress", "passed", "failed", "blocked"}]
    /\ (session # None \/ work # None) => list # None
    /\ current \in Features \cup {None}
    /\ tracked \subseteq 1 .. lines /\ cut <= lines /\ lines <= MaxLines
    /\ Cardinality(checkpoints) <= MaxCheckpoints

(* A feature is left in progress, where no session selects it again, only  *)
(* by the death of the process: not by an exception of the callbacks or of *)
(* git, a rollback or the end of a session.                                *)
InProgressIsWorkedOn ==
    crashes = 0 /\ list # None =>
        \A f \in Features : list[f] = "in_progress" => work # None /\ work.feature = f

(* feature_list.json and progress.jsonl tell one story: until the process  *)
(* died or the project was reset, a feature the list calls passed is one   *)
(* of which the newest line about it says so.                              *)
PassedIsRecorded ==
    crashes = 0 /\ ~ resets /\ list # None =>
        \A f \in Features : list[f] = "passed" /\ (work = None \/ work.feature # f) =>
            \E i \in DOMAIN progress :
                /\ progress[i].feature = f /\ progress[i].what = "passed"
                /\ \A j \in i + 1 .. Len(progress) : progress[j].feature # f

(* What was recorded since progress.jsonl was last written anew, and that  *)
(* the manager knows, a manager which replaced it would read in the file.  *)
NothingOnlyInMemory == \A l \in tracked : l > cut => l \in Loaded
=============================================================================
