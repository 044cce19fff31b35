------------------------------ MODULE Delivery ------------------------------
(***************************************************************************)
(* What the work queue promises its clients, without agents, leases,       *)
(* polling or crashes: an item is submitted, its effect is recorded under  *)
(* its idempotency key at most once, and it gets a verdict.  The verdict   *)
(* "ok" is given only after the effect is recorded.  A verdict may be      *)
(* withdrawn: that is the one concession the lease recovery of StateDB     *)
(* forces on the abstraction (see WorkQueue!ReclaimUpdate).                *)
(***************************************************************************)
EXTENDS Naturals

CONSTANTS
    Tasks,      \* work items
    KeyFiles,   \* files of the idempotency store
    FileOf      \* FileOf[t]: the file an item's idempotency key is stored in

VARIABLES
    known,      \* items that were submitted
    recorded,   \* idempotency files that exist
    verdict     \* "none", "ok" or "failed", for each item

deliveryVars == <<known, recorded, verdict>>

Verdicts == {"none", "ok", "failed"}

Init ==
    /\ known = {}
    /\ recorded = {}
    /\ verdict = [t \in Tasks |-> "none"]

Submit(t) ==
    /\ t \notin known
    /\ known' = known \union {t}
    /\ UNCHANGED <<recorded, verdict>>

Record(t) ==
    /\ t \in known
    /\ verdict[t] = "none"
    /\ FileOf[t] \notin recorded
    /\ recorded' = recorded \union {FileOf[t]}
    /\ UNCHANGED <<known, verdict>>

Accept(t) ==
    /\ t \in known
    /\ verdict[t] = "none"
    /\ FileOf[t] \in recorded
    /\ verdict' = [verdict EXCEPT ![t] = "ok"]
    /\ UNCHANGED <<known, recorded>>

Reject(t) ==
    /\ t \in known
    /\ verdict[t] = "none"
    /\ verdict' = [verdict EXCEPT ![t] = "failed"]
    /\ UNCHANGED <<known, recorded>>

Withdraw(ts) ==
    /\ ts \subseteq known
    /\ verdict' = [t \in Tasks |-> IF t \in ts THEN "none" ELSE verdict[t]]
    /\ UNCHANGED <<known, recorded>>

\* One worker's dealings with one item, between its submission and its verdict.
Work(t) == Record(t) \/ Accept(t) \/ Reject(t)

Next ==
    \/ \E t \in Tasks : Submit(t) \/ Work(t)
    \/ \E ts \in SUBSET Tasks : Withdraw(ts)

Spec == Init /\ [][Next]_deliveryVars
=============================================================================
