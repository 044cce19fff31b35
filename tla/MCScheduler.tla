----------------------------- MODULE MCScheduler ----------------------------
(* A schedule of each kind: the interval schedule has a jitter, the window   *)
(* leaves out the first tick of a day of three ticks. A PATCH may also bring *)
(* a policy that compute raises for.                                         *)
EXTENDS Scheduler

CONSTANTS sAt, sInterval, sWindow

MCAt == [type |-> "at", at |-> 2]
MCInterval == [type |-> "interval", every |-> 2, jitter |-> 1]
MCWindow == [type |-> "window", daily |-> TRUE, start |-> 1, end |-> 2, interval |-> 1]
MCBroken == [type |-> "raising"]
MCPolicies == {MCAt, MCInterval, MCWindow, MCBroken}
MCPolicyOf == [s \in Schedules |-> CASE s = sAt -> MCAt
                                     [] s = sInterval -> MCInterval
                                     [] s = sWindow -> MCWindow]
=============================================================================
