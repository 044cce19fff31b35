--------------------------- MODULE StrategyCanary ---------------------------
(***************************************************************************)
(* core/quality_feedback/strategy_canary.py: releases of a strategy that   *)
(* get a growing share of its requests. Every operation holds _lock; the   *)
(* monitoring thread picks a canary without it and checks it afterwards.   *)
(* The metrics are abstracted to what _evaluate_canary tells apart.        *)
(***************************************************************************)
EXTENDS Naturals

CONSTANTS
    Canaries, Strategies, StrategyOf,
    Initial, Increment, Full,     \* percentages, Full = max_percentage
    AutoRollback, AutoPromote,    \* the canaries whose config has the flag
    None

VARIABLES
    canary,       \* _canaries: [status, pct, sample, due]
    active,       \* _active_canaries
    picked        \* the canary the monitoring thread is about to check

vars == <<canary, active, picked>>

(* sample: fewer than min_sample_size requests, all thresholds kept, or    *)
(* one broken; due: increment_interval_minutes since last_increment_at     *)
New == [status |-> "new", pct |-> 0, sample |-> "few", due |-> FALSE]
Ended == {"SUCCEEDED", "ROLLED_BACK", "ABORTED"}

Init ==
    /\ canary = [c \in Canaries |-> New]
    /\ active = [s \in Strategies |-> None]
    /\ picked = None

Create(c) ==
    /\ canary[c].status = "new"
    /\ canary' = [canary EXCEPT ![c].status = "PENDING"]
    /\ UNCHANGED <<active, picked>>

(* takes the place of a canary of the same strategy that still runs *)
Start(c) ==
    /\ canary[c].status = "PENDING"
    /\ canary' = [canary EXCEPT ![c].status = "RUNNING", ![c].pct = Initial, ![c].due = FALSE]
    /\ active' = [active EXCEPT ![StrategyOf[c]] = c]
    /\ UNCHANGED picked

IntervalPasses(c) ==
    /\ canary[c].status = "RUNNING" /\ ~ canary[c].due
    /\ canary' = [canary EXCEPT ![c].due = TRUE]
    /\ UNCHANGED <<active, picked>>

(* one more request of the strategy: its metrics may come out any way once *)
(* there are enough of them                                                *)
RecordMetrics(s) ==
    /\ active[s] # None
    /\ \E m \in {"good", "bad"} : canary' = [canary EXCEPT ![active[s]].sample = m]
    /\ UNCHANGED <<active, picked>>

(* Mutant: the last increment is not capped. *)
Uncapped(a, b) == a

Least(a, b) == IF a <= b THEN a ELSE b

CanIncrement(c) == canary[c].pct < Full /\ canary[c].status = "RUNNING" /\ canary[c].due

(* Mutant: the canary keeps its place in _active_canaries. *)
EndKeepsActive(c, status) ==
    /\ canary' = [canary EXCEPT ![c].status = status]
    /\ UNCHANGED active

(* _promote_canary, _rollback_canary and the end of abort_canary: they     *)
(* empty the strategy's place, whichever canary has it                     *)
End(c, status) ==
    /\ canary' = [canary EXCEPT ![c].status = status]
    /\ active' = [active EXCEPT ![StrategyOf[c]] = None]

(* _evaluate_canary and the choice check_canary makes with its result *)
Decision(c) ==
    CASE canary[c].sample = "bad" /\ c \in AutoRollback -> "rollback"
      [] canary[c].sample = "good" /\ CanIncrement(c) -> "increment"
      [] canary[c].sample = "good" /\ canary[c].pct >= Full /\ c \in AutoPromote -> "promote"
      [] OTHER -> "nothing"

(* check_canary under the lock. It does not look at the status: a canary   *)
(* that has ended is evaluated, and ended, once more.                      *)
CheckCanary(c) ==
    CASE Decision(c) = "rollback" -> End(c, "ROLLED_BACK")
      [] Decision(c) = "promote" -> End(c, "SUCCEEDED")
      [] Decision(c) = "increment" ->
            /\ canary' = [canary EXCEPT ![c].pct = Least(@ + Increment, Full), ![c].due = FALSE]
            /\ UNCHANGED active
      [] OTHER -> UNCHANGED <<canary, active>>

Check(c) == canary[c].status # "new" /\ CheckCanary(c) /\ UNCHANGED picked

Abort(c) ==
    /\ canary[c].status \in {"PENDING", "RUNNING"}
    /\ End(c, "ABORTED")
    /\ UNCHANGED picked

(* _monitoring_loop: the entry is read, then checked *)
MonitorPick(s) ==
    /\ picked = None /\ active[s] # None
    /\ picked' = active[s]
    /\ UNCHANGED <<canary, active>>

MonitorCheck ==
    /\ picked # None
    /\ CheckCanary(picked)
    /\ picked' = None

Next ==
    \/ \E c \in Canaries : Create(c) \/ Start(c) \/ IntervalPasses(c) \/ Check(c) \/ Abort(c)
    \/ \E s \in Strategies : RecordMetrics(s) \/ MonitorPick(s)
    \/ MonitorCheck

TypeOK ==
    /\ canary \in [Canaries -> [status : {"new", "PENDING", "RUNNING"} \cup Ended,
                                pct : 0 .. Full, sample : {"few", "good", "bad"}, due : BOOLEAN]]
    /\ active \in [Strategies -> Canaries \cup {None}]
    /\ picked \in Canaries \cup {None}

(* No request is routed to, and no metric recorded for, a canary that has  *)
(* ended, though canaries of one strategy take each other's place, end     *)
(* each other's turn, and are checked after they have ended.               *)
TrafficOnlyToRunning ==
    \A s \in Strategies :
        active[s] # None =>
            canary[active[s]].status = "RUNNING" /\ StrategyOf[active[s]] = s

(* The share of an ended canary is frozen, and a canary reaches SUCCEEDED  *)
(* with the full share only: a late check after an abort cannot promote    *)
(* one that was still growing.                                             *)
PromotedAtFull ==
    \A c \in Canaries : canary[c].status = "SUCCEEDED" => canary[c].pct = Full
=============================================================================
