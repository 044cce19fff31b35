------------------------------- MODULE EventLog -----------------------------
(***************************************************************************)
(* observability/persistent_bus.py over persistence/jsonl_wal.py: events   *)
(* are appended to a file of lines, and a subscriber replays a topic from  *)
(* the offset kept for it in StateDB. A crash may cut the line that is     *)
(* being written and stops the replays that are running.                   *)
(***************************************************************************)
EXTENDS Naturals, Sequences, FiniteSets

CONSTANTS
    Topics, Other,      \* Other: records that are not event_bus.publish of a topic
    Subscribers, Replays,
    MaxLines, MaxBatch, MaxCrashes    \* bounds of the model, but for max_records

VARIABLES
    lines,        \* the file; the last line may lack its newline
    acked,        \* ghost: ids of the events whose append returned
    offset,       \* event_offsets
    replay,       \* [sub, topic, at, next, delivered] of each running replay
    seen,         \* ghost: per subscriber, ids its handler was called with
    shifted,      \* ghost: a line that had been read as a record was destroyed
    crashes

vars == <<lines, acked, offset, replay, seen, shifted, crashes>>

(* A line: "whole" ends in a newline, "bare" is complete JSON without it,  *)
(* "torn" neither parses nor has it, "junk" has it and does not parse.     *)
Idle == [at |-> "idle"]

Init ==
    /\ lines = <<>> /\ acked = {}
    /\ offset = [s \in Subscribers |-> [t \in Topics |-> 0]]
    /\ replay = [r \in Replays |-> Idle]
    /\ seen = [s \in Subscribers |-> {}]
    /\ shifted = FALSE /\ crashes = 0

Last(ls) == ls[Len(ls)]
Open(ls) == ls # <<>> /\ Last(ls).form \in {"bare", "torn"}

(* "a" mode: what is written runs on from an unfinished last line, and     *)
(* ends it if it was written to its newline                                *)
Merged(line) == [line EXCEPT !.form = IF @ = "whole" THEN "junk" ELSE "torn"]
Written(ls, line) ==
    IF Open(ls) THEN [ls EXCEPT ![Len(ls)] = Merged(line)] ELSE Append(ls, line)

(* publish, or any other append: write, flush, fsync under the lock *)
AppendRecord(t) ==
    LET line == [topic |-> t, id |-> Len(lines) + Cardinality(acked) + 1, form |-> "whole"] IN
    /\ Len(lines) < MaxLines
    /\ lines' = Written(lines, line)
    /\ acked' = acked \cup {line.id}
    /\ shifted' = (shifted \/ (Open(lines) /\ Last(lines).form = "bare"))
    /\ UNCHANGED <<offset, replay, seen, crashes>>

(* the process stops, perhaps with a part of one more line in the file *)
Crash(t, form) ==
    LET line == [topic |-> t, id |-> Len(lines) + Cardinality(acked) + 1, form |-> form] IN
    /\ crashes < MaxCrashes
    /\ crashes' = crashes + 1
    /\ \/ UNCHANGED <<lines, shifted>>
       \/ /\ Len(lines) < MaxLines
          /\ lines' = Written(lines, line)
          /\ shifted' = (shifted \/ (Open(lines) /\ Last(lines).form = "bare"))
    /\ replay' = [r \in Replays |-> Idle]
    /\ UNCHANGED <<acked, offset, seen>>

(* iter_records: lines that do not parse are passed over, not counted *)
Parses(line) == line.form \in {"whole", "bare"}
Records == {k \in DOMAIN lines : Parses(lines[k])}

(* what enumerate() makes of the record in line k, 1 for the first *)
Index(k) == Cardinality({j \in Records : j <= k})

StartReplay(r, s, t) ==
    /\ replay[r].at = "idle"
    /\ replay' = [replay EXCEPT ![r] = [at |-> "scan", sub |-> s, topic |-> t,
                                        next |-> offset[s][t], delivered |-> 0]]
    /\ UNCHANGED <<lines, acked, offset, seen, shifted, crashes>>

(* the records of the topic with an index from the offset on *)
Wanted(r) == {k \in Records : Index(k) > replay[r].next /\ lines[k].topic = replay[r].topic}

(* one call of the handler, its exceptions swallowed *)
Deliver(r) ==
    /\ replay[r].at = "scan" /\ replay[r].delivered < MaxBatch
    /\ \E k \in Wanted(r) :
          /\ \A j \in Wanted(r) : k <= j
          /\ seen' = [seen EXCEPT ![replay[r].sub] = @ \cup {lines[k].id}]
          /\ replay' = [replay EXCEPT ![r].next = Index(k), ![r].delivered = @ + 1]
    /\ UNCHANGED <<lines, acked, offset, shifted, crashes>>

(* Mutant: the number of records, not the index after the last one handled. *)
NextOffsetAll(r) == Cardinality(Records)

NextOffset(r) == replay[r].next

(* the scan is over: the batch is full or the file is read to its end *)
SaveOffset(r) ==
    /\ replay[r].at = "scan"
    /\ replay[r].delivered >= MaxBatch \/ Wanted(r) = {}
    /\ offset' = [offset EXCEPT ![replay[r].sub][replay[r].topic] = NextOffset(r)]
    /\ replay' = [replay EXCEPT ![r] = Idle]
    /\ UNCHANGED <<lines, acked, seen, shifted, crashes>>

Next ==
    \/ \E t \in Topics \cup {Other} : AppendRecord(t) \/ (\E f \in {"bare", "torn"} : Crash(t, f))
    \/ \E r \in Replays :
          \/ \E s \in Subscribers, t \in Topics : StartReplay(r, s, t)
          \/ Deliver(r) \/ SaveOffset(r)

TypeOK ==
    /\ lines \in Seq([topic : Topics \cup {Other}, id : Nat,
                      form : {"whole", "bare", "torn", "junk"}])
    /\ \A s \in Subscribers, t \in Topics : offset[s][t] \in 0 .. MaxLines

(* At least once: the offset of a subscriber never passes an event its     *)
(* handler has not been called with, through crashes between the handler   *)
(* and set_event_offset, two replays at a time and torn lines. The one     *)
(* exception: a last line without its newline was read as a record, and    *)
(* the append after it destroyed it, which moves every later index.        *)
NothingSkipped ==
    ~ shifted => \A s \in Subscribers, t \in Topics : \A k \in Records :
        Index(k) <= offset[s][t] /\ lines[k].topic = t => lines[k].id \in seen[s]

(* An event whose append returned True stays readable in the log. The code *)
(* does not keep this: the first append after a crash that cut a line runs *)
(* on from that line, and the two are one line that does not parse.        *)
AckedReadable ==
    \A id \in acked : \E k \in Records : lines[k].id = id
=============================================================================
