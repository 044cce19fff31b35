-------------------------------- MODULE Console ------------------------------
(***************************************************************************)
(* services/bff_service.py: the guard every console request passes, the    *)
(* approvals and audit rows it writes, and the SystemManager behind        *)
(* POST /v1/system/control. Each request has a thread of its own; each     *)
(* write of StateDB is a commit of its own; the process may crash, and     *)
(* systemd then ends what it had started and starts it again.              *)
(*                                                                         *)
(* Abstracted: a login has happened and its token is good; of the requests *)
(* that only change rows, the decision of an approval stands for all.      *)
(***************************************************************************)
EXTENDS Naturals, FiniteSets, FiniteSetsExt

CONSTANTS
    Threads,
    Roles,               \* user -> "admin" or "reader", as assign_role made it
    Asked,               \* approvals that nodes of runs ask for
    Processes,           \* pids a start may get
    None,
    MaxRequests, MaxCrashes     \* bounds of the model

VARIABLES
    call,        \* per thread None or [at, n, user, kind, on]
    answer,      \* n-th request -> its HTTP status, 0 while it has none
    approvals,   \* approval -> status; those the guard asked for are their requests' numbers
    audit,       \* audit_logs: [n, verdict]
    lock, proc,  \* SystemManager._lock and _proc
    process,     \* pid -> what became of it
    crashes

vars == <<call, answer, approvals, audit, lock, proc, process, crashes>>
systemVars == <<lock, proc, process>>

Users == DOMAIN Roles
Controls == {"start", "stop", "restart"}
Kinds == {"get", "decide"} \cup Controls

Init ==
    /\ call = [t \in Threads |-> None]
    /\ answer = [n \in 1..MaxRequests |-> None]
    /\ approvals = [a \in Asked |-> "pending"]
    /\ audit = {}
    /\ lock = None /\ proc = None
    /\ process = [p \in Processes |-> "unused"]
    /\ crashes = 0

(* ------------------------------ RiskScorer ----------------------------- *)
(* factors of a command and its context: [weight, score] in tenths *)
Factors(writes, fetches, secrets, dangerous) ==
    (IF writes THEN {[weight |-> 5, score |-> 6]} ELSE {})
    \cup (IF fetches THEN {[weight |-> 4, score |-> 7]} ELSE {})
    \cup (IF secrets THEN {[weight |-> 8, score |-> 9]} ELSE {})
    \cup (IF dangerous THEN {[weight |-> 10, score |-> 10]} ELSE {})

(* their weighted mean in hundredths, compared with low, medium and high *)
Disposition(factors) ==
    LET weight == SumSet({f.weight : f \in factors})
        total == MapThenSumSet(LAMBDA f : f.weight * f.score, factors)
        mean == IF factors = {} THEN 0 ELSE (total * 10) \div weight
    IN CASE mean >= 80 -> "deny"
         [] mean >= 60 /\ mean < 80 -> "approve"
         [] mean >= 30 /\ mean < 60 -> "allow_with_constraints"
         [] OTHER -> "allow"

(* do_POST gives every resource but "system" the context requires_write *)
Risk(kind) == Disposition(Factors(kind = "decide", FALSE, FALSE, FALSE))

(* -------------------------------- _guard ------------------------------- *)
Action(kind) == IF kind = "get" THEN "read" ELSE "write"
Permitted(user, action) == Roles[user] = "admin" \/ action = "read"

Numbers == {n \in 1..MaxRequests : answer[n] = None}

Request(t, user, kind, on) ==
    /\ call[t] = None
    /\ \E n \in Numbers :
          /\ \A m \in Numbers : n <= m
          /\ answer' = [answer EXCEPT ![n] = 0]
          /\ call' = [call EXCEPT ![t] = [at |-> "guard", n |-> n, user |-> user,
                                          kind |-> kind, on |-> on]]
    /\ UNCHANGED <<approvals, audit, systemVars, crashes>>

To(t, at) == call' = [call EXCEPT ![t].at = at]
Answer(t, status) ==
    /\ answer' = [answer EXCEPT ![call[t].n] = status]
    /\ call' = [call EXCEPT ![t] = None]
Log(t, verdict) == audit' = audit \cup {[n |-> call[t].n, verdict |-> verdict]}

At(t, at) == call[t] # None /\ call[t].at = at

Refused(t) ==
    \/ ~ Permitted(call[t].user, Action(call[t].kind))
    \/ Action(call[t].kind) = "write" /\ Risk(call[t].kind) = "deny"

(* add_audit_log and the answer 403 *)
Refuse(t) ==
    /\ At(t, "guard") /\ Refused(t)
    /\ Log(t, "denied") /\ Answer(t, 403)
    /\ UNCHANGED <<approvals, systemVars, crashes>>

NeedsApproval(t) == Action(call[t].kind) = "write" /\ Risk(call[t].kind) = "approve"

WithRequest(n) ==
    [a \in DOMAIN approvals \cup {n} |-> IF a = n THEN "pending" ELSE approvals[a]]

(* create_approval commits before add_audit_log *)
CreateApproval(t) ==
    /\ At(t, "guard") /\ ~ Refused(t) /\ NeedsApproval(t)
    /\ approvals' = WithRequest(call[t].n)
    /\ To(t, "asked")
    /\ UNCHANGED <<answer, audit, systemVars, crashes>>

LogApproval(t) ==
    /\ At(t, "asked")
    /\ Log(t, "asked") /\ Answer(t, 409)
    /\ UNCHANGED <<approvals, systemVars, crashes>>

(* Mutant: the request is answered without the audit row. *)
AnswerApproval(t) ==
    /\ At(t, "asked")
    /\ Answer(t, 409)
    /\ UNCHANGED <<approvals, audit, systemVars, crashes>>

Allow(t) ==
    /\ At(t, "guard") /\ ~ Refused(t) /\ ~ NeedsApproval(t)
    /\ Log(t, "ok")
    /\ To(t, IF call[t].kind \in Controls THEN call[t].kind ELSE "handle")
    /\ UNCHANGED <<answer, approvals, systemVars, crashes>>

(* decide_approval only updates a row that is pending *)
Decided(a) ==
    {IF approvals[a] = "pending" THEN [approvals EXCEPT ![a] = status] ELSE approvals :
        status \in {"approved", "rejected"}}

(* the handlers that answer from StateDB *)
Handle(t) ==
    /\ At(t, "handle")
    /\ approvals' \in (IF call[t].kind = "decide" THEN Decided(call[t].on) ELSE {approvals})
    /\ Answer(t, IF call[t].kind = "decide" /\ approvals[call[t].on] # "pending" THEN 409 ELSE 200)
    /\ UNCHANGED <<audit, systemVars, crashes>>

(* ----------------------------- SystemManager --------------------------- *)
Alive(p) == process[p] \in {"running", "terminated", "killed"}
Polled == proc # None /\ Alive(proc)

(* Mutant: start does not look whether the process still runs. *)
StartAnyway(t) ==
    /\ At(t, "start") /\ lock = None
    /\ \E p \in Processes :
          /\ process[p] = "unused"
          /\ process' = [process EXCEPT ![p] = "running"]
          /\ proc' = p
    /\ To(t, "status")
    /\ UNCHANGED <<lock, answer, approvals, audit, crashes>>

(* the lock is held by nobody and start's critical section is one step; it *)
(* answers with status(), which looks at _proc twice without the lock      *)
StartSystem(t) ==
    /\ At(t, "start") /\ lock = None
    /\ IF Polled THEN UNCHANGED systemVars
       ELSE \E p \in Processes :
               /\ process[p] = "unused"
               /\ process' = [process EXCEPT ![p] = "running"]
               /\ proc' = p
               /\ UNCHANGED lock
    /\ To(t, "status")
    /\ UNCHANGED <<answer, approvals, audit, crashes>>

Stopped(t) == To(t, IF call[t].kind = "restart" THEN "start" ELSE "status")

(* terminate; the lock is held while wait has its five seconds *)
StopSystem(t) ==
    /\ (At(t, "stop") \/ At(t, "restart")) /\ lock = None
    /\ IF proc = None THEN Stopped(t) /\ UNCHANGED systemVars
       ELSE /\ lock' = t
            /\ process' = [process EXCEPT ![proc] = IF @ = "running" THEN "terminated" ELSE @]
            /\ To(t, "waiting")
            /\ UNCHANGED proc
    /\ UNCHANGED <<answer, approvals, audit, crashes>>

(* wait returned, or it timed out and kill was sent *)
StopWaited(t) ==
    /\ At(t, "waiting")
    /\ process' = [process EXCEPT ![proc] = IF Alive(proc) THEN "killed" ELSE @]
    /\ proc' = None /\ lock' = None
    /\ Stopped(t)
    /\ UNCHANGED <<answer, approvals, audit, crashes>>

ReadProc(t) ==
    /\ At(t, "status")
    /\ IF proc = None THEN Answer(t, 200) ELSE To(t, "poll") /\ UNCHANGED answer
    /\ UNCHANGED <<approvals, audit, systemVars, crashes>>

(* _proc became None in between: the thread raises and nothing is answered *)
PollProc(t) ==
    /\ At(t, "poll")
    /\ Answer(t, IF proc = None THEN 0 ELSE 200)
    /\ UNCHANGED <<approvals, audit, systemVars, crashes>>

Exit(p) ==
    /\ Alive(p)
    /\ process' = [process EXCEPT ![p] = "exited"]
    /\ UNCHANGED <<call, answer, approvals, audit, lock, proc, crashes>>

Crash ==
    /\ crashes < MaxCrashes /\ crashes' = crashes + 1
    /\ call' = [t \in Threads |-> None]
    /\ lock' = None /\ proc' = None
    /\ process' = [p \in Processes |-> IF Alive(p) THEN "exited" ELSE process[p]]
    /\ UNCHANGED <<answer, approvals, audit>>

Next ==
    \/ \E t \in Threads :
          \/ \E user \in Users, kind \in Kinds :
                \E on \in (IF kind = "decide" THEN Asked ELSE {None}) : Request(t, user, kind, on)
          \/ Refuse(t) \/ CreateApproval(t) \/ LogApproval(t) \/ Allow(t) \/ Handle(t)
          \/ StartSystem(t) \/ StopSystem(t) \/ StopWaited(t) \/ ReadProc(t) \/ PollProc(t)
    \/ \E p \in Processes : Exit(p)
    \/ Crash

Spec == Init /\ [][Next]_vars
-----------------------------------------------------------------------------
(* Type invariant of the requests and of the system they control. *)
TypeOK ==
    /\ \A n \in 1..MaxRequests : answer[n] \in {None, 0, 200, 403, 409}
    /\ \A a \in DOMAIN approvals : approvals[a] \in {"pending", "approved", "rejected"}
    /\ lock \in Threads \cup {None} /\ proc \in Processes \cup {None}
    /\ lock # None => At(lock, "waiting")

(* However starts, stops and restarts of several requests interleave with  *)
(* the system's own exits, at most one system runs that was not killed,    *)
(* and the manager knows the one that runs (SystemManager.start, stop).    *)
OneSystem ==
    \A p \in Processes : process[p] \in {"running", "terminated"} => proc = p

(* Every answered request left exactly one audit row, of that answer; an   *)
(* approval the guard asked for has its row unless its request is between  *)
(* the two commits or was cut off there (_guard, create_approval,          *)
(* add_audit_log).                                                         *)
Rows(n) == {r.verdict : r \in {r \in audit : r.n = n}}
AuditTrail ==
    /\ \A n \in 1..MaxRequests :
          answer[n] \in {200, 403, 409} =>
              Rows(n) = {CASE answer[n] = 200 -> "ok" [] answer[n] = 403 -> "denied" [] OTHER -> "asked"}
    /\ \A a \in DOMAIN approvals \cap Nat :
          "asked" \in Rows(a) \/ answer[a] = 0
    /\ \A n \in 1..MaxRequests : "asked" \in Rows(n) => n \in DOMAIN approvals

(* The decision of somebody permitted to decide settles the approval it    *)
(* names (POST /v1/approvals/{id}/decision).                               *)
DecisionsSettle ==
    [][\A t \in Threads :
          call[t] # None /\ call'[t] = None /\ answer'[call[t].n] # 0 /\ call[t].kind = "decide"
             /\ Roles[call[t].user] = "admin"
          => approvals'[call[t].on] # "pending"]_vars
=============================================================================
