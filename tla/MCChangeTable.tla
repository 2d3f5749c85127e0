---------------------------- MODULE MCChangeTable ----------------------------
(***************************************************************************)
(* A small grid for TLC.  Buses 1 and 2 are in zone 1, bus 3 in zone 2, in *)
(* which there is no branch; buses 4 and 5, in a zone of another           *)
(* interconnect that has no plants, are reached by a DC line.              *)
(***************************************************************************)
EXTENDS ChangeTable

GridZones == {1, 2, 3}
GridInterconnect == <<"Eastern", "Eastern", "Western">>
GridTypes == <<"solar", "wind">>

BusAt(zone, place, kv) == [zone |-> zone, place |-> place, kv |-> kv]
Line(from, to) == [from |-> from, to |-> to]
PlantAt(bus, type, pmax) == [bus |-> bus, type |-> type, pmax |-> pmax]

GridBus == <<BusAt(1, 1, 230), BusAt(1, 2, 230), BusAt(2, 3, 230), BusAt(3, 4, 500),
             BusAt(3, 5, 500)>>
GridBranch == <<Line(1, 2), Line(2, 3), Line(4, 5)>>
GridDcline == <<Line(3, 4)>>
GridPlant == <<PlantAt(1, "wind", 1), PlantAt(2, "solar", 1), PlantAt(3, "wind", 1)>>
GridStorage == <<3>>

\* New buses of one zone: at the voltage of the other interconnect's branches, and
\* at one that no branch has.
SomeBuses == {BusAt(1, 6, 500), BusAt(1, 7, 345)}
SomeLines == {Line(1, 4), Line(1, 6)}
SomePlants == {PlantAt(6, "wind", 1)}
=============================================================================
