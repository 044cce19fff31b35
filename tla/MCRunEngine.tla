----------------------------- MODULE MCRunEngine ----------------------------
(* Two runs of one workflow: a task, an approval, an eval node and a task    *)
(* that depends on the first, listed out of the order of their ids; a later  *)
(* version of the workflow has no nodes at all.                              *)
EXTENDS RunEngine

CONSTANTS r1, r2

MCRuns == {r1, r2}
MCNodes == 1..4
MCKind == <<"approval", "task", "eval", "task">>
MCFull == [order |-> <<4, 3, 2, 1>>, edges |-> {<<4, 2>>}]
MCEmpty == [order |-> <<>>, edges |-> {}]
MCDags == {MCFull, MCEmpty}
MCKeys == Items
MCOwnKeys == [i \in Items |-> i]
=============================================================================
