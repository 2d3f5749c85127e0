--------------------------- MODULE MCSshListStore ---------------------------
(* Small instances of SshListStore for TLC. *)
EXTENDS SshListStore, TLC

Entry(i, r) == [j \in Ids |-> IF j = i THEN r ELSE NoRow]

\* One scenario (or one status) is on the server when the run starts.
MCStored == [header |-> TRUE, rows |-> Entry(1, CHOOSE r \in Rows : TRUE)]

NoBlob == Blank

\* Blob storage lists scenario 2.
OneBlob == [header |-> TRUE, rows |-> Entry(2, CHOOSE r \in Rows : TRUE)]

Op(k, i, r) == [kind |-> k, id |-> i, row |-> r]

AnyRow == CHOOSE r \in Rows : TRUE

ScenarioListOps ==
    {Op("add", 1, r) : r \in Rows} \cup {Op("delete", i, AnyRow) : i \in 1 .. 2}

ExecuteListOps ==
    {Op("set", i, r) : i \in 1 .. 2, r \in Rows} \cup {Op("delete", 1, AnyRow)}

\* The clients are interchangeable.
ClientSymmetry == Permutations(Clients)
=============================================================================
