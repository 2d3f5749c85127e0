----------------------------- MODULE MCBuilder -----------------------------
(* A small instance of Builder for TLC. *)
EXTENDS Builder

\* The objects live in one process.
MCProcessOf == [o \in Objects |-> "p"]

\* hifld has a builder, but no grid; europe_tub comes from PyPSA.
MCRegionOf == [m \in Models |-> IF m = "europe_tub" THEN "Europe" ELSE "USA"]
MCPossibleOf ==
    [m \in Models |-> IF m = "europe_tub" THEN {"Nordic"} ELSE {"Texas", "Western"}]

\* The region, a part, all the parts, and the region in company.
MCRequests ==
    {{"USA"}, {"Texas"}, {"Texas", "Western"}, {"USA", "Texas"}, {"Nordic"}}

\* The last three hours in whole intervals, a range that no interval divides,
\* a range that ends before it begins, and one that leaves the year.
MCTimes ==
    {[start |-> 1, end |-> 3, interval |-> 3], [start |-> 1, end |-> 3, interval |-> 2],
     [start |-> 2, end |-> 1, interval |-> 1], [start |-> 3, end |-> 4, interval |-> 2]}
=============================================================================
