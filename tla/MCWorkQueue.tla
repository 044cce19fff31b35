----------------------------- MODULE MCWorkQueue ----------------------------
(* Two items of different priority and one remote agent; the orchestrator   *)
(* and the BFF are the other services that may restart.                     *)
EXTENDS WorkQueue

CONSTANTS low, high, file1, file2, orchestrator, bff

MCTasks == {low, high}
MCServices == {orchestrator, bff}
MCPriority == [t \in MCTasks |-> IF t = high THEN 10 ELSE 1]
MCKeyFiles == {file1, file2}
MCFileOf == [t \in MCTasks |-> IF t = high THEN file2 ELSE file1]
MCClientLimits == {5, 10}
=============================================================================
