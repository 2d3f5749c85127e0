--------------------------- MODULE MCTransmission ---------------------------
(***************************************************************************)
(* A small instance of Transmission for TLC: a stub of two branches with   *)
(* wind at its end, stubs of one with two wind plants and with wind and    *)
(* solar, a line and a transformer between two zones.                      *)
(***************************************************************************)
EXTENDS Transmission, TLC

MCBus == <<1, 1, 1, 2, 2, 2>>
MCFuzz == One
MCIncrement == One
MCState == (1 :> "A") @@ (2 :> "B") @@ (3 :> "B")

BranchAt(from, to, rate, device, length) ==
    [from |-> from, to |-> to, rate |-> Whole(rate), device |-> device, length |-> length]

MCBranch ==
    <<BranchAt(1, 2, 3, "Line", 2), BranchAt(2, 3, 2, "Line", 1), BranchAt(3, 4, 4, "Line", 3),
      BranchAt(4, 3, 2, "Transformer", 0), BranchAt(5, 4, 6, "Line", 0), BranchAt(4, 6, 1, "Line", 1)>>
MCNewBranches == {BranchAt(3, 5, 2, "Line", 2)}

PlantAt(bus, type, pmax) == [bus |-> bus, type |-> type, pmax |-> Whole(pmax)]
MCPlant == <<PlantAt(1, "wind", 2), PlantAt(5, "wind", 2), PlantAt(5, "wind", 2), PlantAt(1, "solar", 0),
            PlantAt(6, "wind", 2), PlantAt(6, "solar", 1)>>

MCBranchCalls ==
    {[zone |-> 1, id |-> None, factor |-> Whole(2)], [zone |-> 3, id |-> None, factor |-> Whole(2)],
     [zone |-> None, id |-> 1, factor |-> Frac(1, 2)], [zone |-> None, id |-> 2, factor |-> Whole(4)],
     [zone |-> None, id |-> 7, factor |-> Whole(2)]}
MCPlantCalls ==
    {[by |-> "zone", type |-> "wind", key |-> 1, factor |-> Whole(3)],
     [by |-> "id", type |-> "wind", key |-> 1, factor |-> Frac(3, 2)],
     [by |-> "id", type |-> "wind", key |-> 3, factor |-> Whole(2)]}

Mesh(n, metric, allow, deny) == [n |-> n, metric |-> metric, allow |-> allow, deny |-> deny]
MCMeshCalls ==
    {Mesh(1, "branches", None, None), Mesh(2, "MW", None, None), Mesh(1, "cost", None, {3}),
     Mesh(1, "MWmiles", GetBranchesByArea({1, 2}, "bridging"), None)}

\* The line between the zones and the transformer, equally; the stub and what
\* was built next to it.
MCCongestions == {<<0, 0, 2, 2, 0, 0, 0, 0>>, <<1, 3, 1, 0, 0, 0, 2, 0>>}
=============================================================================
