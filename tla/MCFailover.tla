----------------------------- MODULE MCFailover -----------------------------
(* Two instances; only the first names its fallback.                        *)
EXTENDS Failover, TLC

CONSTANTS a, b, c1, c2

MCInstances == {a, b}
MCInitial == <<a, b>>
MCFallback == [i \in MCInstances |-> IF i = a THEN <<b>> ELSE <<>>]
MCOne == {c1}
MCTwo == {c1, c2}
MCSymmetry == Permutations(MCTwo)
MCForce == {"force"}
MCRegistry == {"checker", "register", "unregister"}
-----------------------------------------------------------------------------
(* The health of an instance changes only after a run of checks of its      *)
(* present registration, every registered instance is checked again and     *)
(* again although handlers hang, and every call ends (check_all,            *)
(* _update_status, execute_with_failover).                                  *)
ChecksSound == HealthFollowsChecks /\ ChecksGoOn /\ CallsEnd
=============================================================================
