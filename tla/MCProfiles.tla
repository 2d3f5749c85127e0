----------------------------- MODULE MCProfiles -----------------------------
(***************************************************************************)
(* A small instance of HourlyEnergy, and all it extends, for TLC: two      *)
(* zones with plants, one with load only; three hours in intervals of two. *)
(***************************************************************************)
EXTENDS HourlyEnergy, TLC

PlantAt(zone, place, type, pmax, pmin) ==
    [zone |-> zone, place |-> place, type |-> type,
     pmax |-> Whole(pmax), pmin |-> Whole(pmin), c1 |-> Whole(place), c2 |-> One]

MCPlant == <<PlantAt(1, 1, "wind", 4, 0), PlantAt(1, 2, "coal", 4, 3), PlantAt(2, 5, "wind", 2, 0)>>
MCNewPlants == {PlantAt(2, 4, "wind", 3, 0), PlantAt(1, 2, "coal", 2, 1)}
MCShare == ("coal" :> Frac(1, 2)) @@ ("wind" :> Zero)
MCAreas == {[zones |-> {1}, types |-> {"coal", "wind"}]}
MCGroup == [g \in {"wind"} |-> {"wind", "wind_offshore"}]

InZone(z, f) == [z |-> z, f |-> f]
OfPlant(i, f) == [i |-> i, f |-> f]
Scale(zone, id) == [zone |-> zone, id |-> id]

\* By zone, by id, of new plants and unknown ones, and both in one call, where
\* the second part is refused.
MCScaleCalls ==
    {Scale(InZone(1, Whole(2)), None), Scale(InZone(1, Frac(1, 2)), None),
     Scale(InZone(3, Whole(2)), None),
     Scale(None, OfPlant(2, Whole(2))), Scale(None, OfPlant(2, Zero)),
     Scale(None, OfPlant(4, Whole(2))), Scale(None, OfPlant(9, Whole(2))),
     Scale(InZone(1, Whole(2)), OfPlant(2, Whole(-1)))}

MCDemandCalls ==
    {[name |-> (1 :> Whole(2)), id |-> <<>>],
     [name |-> (3 :> Whole(2)), id |-> (1 :> Whole(3))]}

Tech(t, f) == (t :> f)
MCElecCalls ==
    {[grid |-> ("heating" :> Tech("pump", Frac(3, 5))), zone |-> <<>>],
     [grid |-> ("heating" :> Tech("boiler", Frac(3, 5))), zone |-> <<>>],
     [grid |-> <<>>, zone |-> (1 :> ("heating" :> Tech("pump", Frac(3, 5))))],
     [grid |-> <<>>, zone |-> (1 :> ("heating" :>
         (Tech("pump", Frac(3, 5)) @@ Tech("boiler", Frac(3, 5)))))],
     [grid |-> <<>>, zone |-> (3 :> ("heating" :> Tech("pump", One)))]}

MCBaseDemand == [x \in Zones \X Hour |-> Whole(x[1] + x[2])]
MCNormal == [x \in {1, 3} \X Hour |-> IF x[1] = 1 THEN One ELSE Frac(x[2], 2)]

\* The last interval has one hour only; an entry may come twice.
MCInfeasibilities ==
    {<< <<1, 50>>, <<0, 25>> >>, << <<0, 10>>, <<0, 5>> >>}

Assuming(types, ids, curtailable) ==
    [pmin_by_type |-> types, pmin_by_id |-> ids, curtailable |-> curtailable]

MCCurtailmentCalls ==
    {Assuming("coal" :> None, 1 :> None, {"wind"}),
     Assuming("coal" :> Zero, (2 :> None) @@ (4 :> Frac(1, 2)), {"wind"})}

MCVersions == [k \in (Required \cup Optional) \ {Duration} |-> {"v1"}]
MCFlexCalls ==
    {[k \in Required |-> IF k = "demand_flexibility_up" THEN "v1" ELSE "v2"],
     [k \in Required \cup {Duration} |-> IF k = Duration THEN 0 ELSE "v1"],
     [k \in Required \cup {Duration, "demand_flexibility_cost_up"} |->
         IF k = Duration THEN 6 ELSE "v1"],
     [k \in {"demand_flexibility_up"} |-> "v1"]}
=============================================================================
