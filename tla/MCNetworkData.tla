--------------------------- MODULE MCNetworkData ---------------------------
(* Small instances of NetworkData for TLC. *)
EXTENDS NetworkData, TLC

\* An archive and a plain file.
MCFiles == <<"networks", "resources">>

\* The interconnect Nordic does not hold the first load of the network.
MCLoads == <<"DE", "NO", "SE">>
MCZonesOf == [c \in Interconnects |-> IF c = "Nordic" THEN {"NO", "SE"} ELSE Range(Loads)]

\* The processes are interchangeable.
ProcessSymmetry == Permutations(Processes)
=============================================================================
