---------------------------- MODULE MCSyncRunner ----------------------------
(* Small instances of SyncRunner for TLC.                                  *)
EXTENDS SyncRunner, TLC

CONSTANTS c1, c2, e1, e2

Run == [mode |-> "until_caught_up", token |-> FALSE]
Poll == [mode |-> "continuous", token |-> TRUE]
Cycle == [mode |-> "until_caught_up", token |-> TRUE]

MCOneCategory == {c1}
MCCategories == {c1, c2}
MCEntities == {e1, e2}
MCAllLaunches == {Run, Poll, Cycle}
MCPoll == {Poll}
MCRun == {Run}
MCOneEntity == {e1}

Symmetry == Permutations(MCEntities)
=============================================================================
