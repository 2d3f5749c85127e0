------------------------ MODULE MCScenarioLifecycle ------------------------
(* Small instances of ScenarioLifecycle for TLC. *)
EXTENDS ScenarioLifecycle, TLC

CONSTANTS o1, o2, p1, p2

\* Two sessions in one process, or in two.
OneProcess == [o \in Objects |-> p1]

TwoProcesses == [o \in Objects |-> IF o = o1 THEN p1 ELSE p2]

TableSymmetry == Permutations(Tables)
=============================================================================
