-------------------------- MODULE MCLocalListStore --------------------------
(* Small instances of LocalListStore for TLC. *)
EXTENDS LocalListStore, TLC

Op(k, i, r) == [kind |-> k, id |-> i, row |-> r]

AnyRow == CHOOSE r \in Rows : TRUE

\* One scenario is listed when the run starts.
MCStored ==
    [header |-> TRUE, rows |-> [i \in Ids |-> IF i = 1 THEN AnyRow ELSE NoRow]]

ScenarioListOps ==
    {Op("add", 1, r) : r \in Rows} \cup {Op("delete", i, AnyRow) : i \in 1 .. 2}

\* The processes are interchangeable.
ProcessSymmetry == Permutations(Processes)
=============================================================================
