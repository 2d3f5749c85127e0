--------------------------- MODULE PlantProfiles ---------------------------
(***************************************************************************)
(* The numbers that the change table changes at the plants of a grid, and  *)
(* the profiles that are made from them: scale_plant_capacity,             *)
(* scale_plant_cost, scale_plant_pmin and add_plant of the change table,   *)
(* what TransformGrid makes of the entries, and what TransformProfile      *)
(* makes of the transformed grid and the change table.                     *)
(*                                                                         *)
(* Which tables a call looks at is the subject of ChangeTable; here the    *)
(* plant table is up to date, and the numbers are kept.  A bus is a place  *)
(* on a line, and a plant is at its bus's place.                           *)
(***************************************************************************)
EXTENDS Ratio, Sequences

CONSTANTS
    Zones,      \* the load zones, some of them perhaps without plants
    Resources,  \* all_resources
    Thermal,    \* thermal_resources
    Group,      \* group_profile_resources: profiles and the resources in them
    Plant,      \* the plants of the base grid
    NewPlants,  \* arguments of add_plant
    ScaleCalls, \* arguments of the three methods that scale plants
    None,       \* an argument that is not given
    MaxCalls    \* bound: the calls of a run

ASSUME PlantProfilesAssumption ==
    /\ Thermal \subseteq Resources
    /\ Plant # <<>>
    /\ \A i \in DOMAIN Plant :
          /\ Plant[i].zone \in Zones /\ Plant[i].type \in Resources
          /\ AtMost(Zero, Plant[i].pmin) /\ AtMost(Plant[i].pmin, Plant[i].pmax)
    /\ \A c \in ScaleCalls : c.zone # None \/ c.id # None
    /\ MaxCalls \in Nat

VARIABLES
    scaling,   \* the entries <resource>, <resource>_cost and <resource>_pmin
    new_plant, \* the entry new_plant
    unclipped, \* history: the plants that scale_plant_pmin failed to clip
    calls      \* the calls so far

plantVars == <<scaling, new_plant, unclipped, calls>>

Keys == {"capacity", "cost", "pmin"}

\* The entries of a key: factors by resource and zone, by resource and plant.
NoEntry == [zone |-> <<>>, id |-> <<>>]

PlantInit ==
    /\ scaling = [k \in Keys |-> NoEntry]
    /\ new_plant = <<>>
    /\ unclipped = {}
    /\ calls = 0

Put(f, k, v) == [x \in DOMAIN f \cup {k} |-> IF x = k THEN v ELSE f[x]]
Without(f, r) == [x \in {y \in DOMAIN f : y[1] # r} |-> f[x]]
Factor(f, k) == IF k \in DOMAIN f THEN f[k] ELSE One

-----------------------------------------------------------------------------
(* TransformGrid *)

AllPlants == Plant \o new_plant

\* Factors by zone reach the base plants of their resource, before plants are
\* added; factors by id reach the plant, whatever the resource they are under.
ByZone(s, k, i) ==
    IF i \in DOMAIN Plant THEN Factor(s[k].zone, <<Plant[i].type, Plant[i].zone>>)
    ELSE One

Scaling(s, k, i) == {r \in Resources : <<r, i>> \in DOMAIN s[k].id}

ById(s, k, i) == ProductOver(LAMBDA r : s[k].id[<<r, i>>], Scaling(s, k, i))

\* _scale_gencost_by_capacity: the curve of a thermal resource is stretched,
\* unless the capacity becomes zero.
Stretch(f) == IF f = Zero THEN One ELSE f

\* A faulty variant: factors by id leave the curve alone.
StretchNotById(s, i) == One

StretchById(s, i) ==
    ProductOver(LAMBDA r : Stretch(s["capacity"].id[<<r, i>>]), Scaling(s, "capacity", i) \cap Thermal)

StretchByZone(s, i) ==
    IF AllPlants[i].type \in Thermal THEN Stretch(ByZone(s, "capacity", i)) ELSE One

\* _scale_gen_capacity and the factors of Pmin: _scale_gen_capacity multiplies
\* both limits.  c1 and c2 are coefficients of the cost curve.
TransformedPlant(s, i) ==
    LET p == AllPlants[i]
        capacity == Times(ByZone(s, "capacity", i), ById(s, "capacity", i))
        pmin == Times(ByZone(s, "pmin", i), ById(s, "pmin", i))
        cost == Times(ByZone(s, "cost", i), ById(s, "cost", i))
    IN  [p EXCEPT !.pmax = Times(@, capacity),
                  !.pmin = Times(@, Times(capacity, pmin)),
                  !.c1 = Times(@, cost),
                  !.c2 = Over(Times(@, cost),
                              Times(StretchByZone(s, i), StretchById(s, i)))]

-----------------------------------------------------------------------------
(* The change table. *)

\* _check_zone: the zones of the base grid that have plants.
HasPlants(z) == \E i \in DOMAIN Plant : Plant[i].zone = z

Pop(s, k, r) ==
    [s EXCEPT ![k] = [zone |-> Without(@.zone, r), id |-> Without(@.id, r)]]

\* What a call leaves: the entries, whether it raised, and whether the entry of
\* the resource is gone.
Outcome(s, raised, gone) == [entries |-> s, raised |-> raised, gone |-> gone]

\* _add_plant_entries, factors by zone.  An unknown zone removes the resource's
\* entry; so does a zone without its plants, unless another zone has one.
AddByZone(s, k, r, arg) ==
    LET set == IF \E i \in DOMAIN Plant : Plant[i].zone = arg.z /\ Plant[i].type = r
               THEN [s EXCEPT ![k].zone = Put(@, <<r, arg.z>>, arg.f)] ELSE s
        empty == \A z \in Zones : <<r, z>> \notin DOMAIN set[k].zone
    IN  IF arg = None THEN Outcome(s, FALSE, FALSE)
        ELSE IF ~HasPlants(arg.z) THEN Outcome(Pop(s, k, r), TRUE, TRUE)
        ELSE IF Less(arg.f, Zero) THEN Outcome(s, TRUE, FALSE)
        ELSE IF empty THEN Outcome(Pop(s, k, r), FALSE, TRUE)
        ELSE Outcome(set, FALSE, FALSE)

\* _add_plant_entries, factors by id, after those by zone.  An unknown id
\* removes the resource's entry, a negative factor does not.
AddById(s, k, r, arg) ==
    IF arg = None THEN Outcome(s, FALSE, FALSE)
    ELSE IF arg.i \notin DOMAIN AllPlants THEN Outcome(Pop(s, k, r), TRUE, TRUE)
    ELSE IF Less(arg.f, Zero) THEN Outcome(s, TRUE, FALSE)
    ELSE Outcome([s EXCEPT ![k].id = Put(@, <<r, arg.i>>, arg.f)], FALSE, FALSE)

\* With the entry gone, looking for its "plant_id" raises KeyError.
AddPlantEntries(s, k, r, call) ==
    LET z == AddByZone(s, k, r, call.zone)
        i == AddById(z.entries, k, r, call.id)
    IN  IF z.raised THEN z
        ELSE IF z.gone /\ call.id # None THEN Outcome(z.entries, TRUE, TRUE)
        ELSE Outcome(i.entries, i.raised, z.gone \/ i.gone)

\* The plants whose Pmin has become greater than Pmax.
ToBeClipped(s) ==
    {i \in DOMAIN AllPlants :
        LET p == TransformedPlant(s, i) IN Less(Over(p.pmax, p.pmin), One)}

\* A faulty variant: the correction takes the place of a factor that is there.
ClipOver(s, r) ==
    LET clipped == {r} \X ToBeClipped(s)
    IN  [s EXCEPT !["pmin"].id =
           [x \in DOMAIN @ \cup clipped |->
              IF x \in clipped
              THEN LET p == TransformedPlant(s, x[2]) IN Over(p.pmax, p.pmin)
              ELSE @[x]]]

\* The corrections of scale_plant_pmin, under the resource of the call.
Clip(s, r) ==
    LET clipped == {r} \X ToBeClipped(s)
    IN  [s EXCEPT !["pmin"].id =
           [x \in DOMAIN @ \cup clipped |->
              IF x \in clipped
              THEN LET p == TransformedPlant(s, x[2])
                   IN  Times(Factor(@, x), Over(p.pmax, p.pmin))
              ELSE @[x]]]

Call == calls < MaxCalls /\ calls' = calls + 1

\* scale_plant_capacity and scale_plant_cost.
ScalePlant(k, r, call) ==
    /\ Call
    /\ scaling' = AddPlantEntries(scaling, k, r, call).entries
    /\ UNCHANGED <<new_plant, unclipped>>

\* scale_plant_pmin: the entries are clipped unless the call has raised, or the
\* entry that takes the corrections is gone (KeyError if there are any).  The
\* ratio at a plant without capacity is NaN, and such a plant is not clipped.
ScalePlantPmin(r, call) ==
    LET made == AddPlantEntries(scaling, "pmin", r, call)
    IN  /\ Call
        /\ scaling' = IF made.raised \/ made.gone THEN made.entries
                      ELSE Clip(made.entries, r)
        /\ unclipped' =
             {i \in DOMAIN AllPlants : TransformedPlant(made.entries, i).pmax = Zero}
             \cup IF made.raised \/ made.gone THEN unclipped \cup ToBeClipped(made.entries)
                  ELSE {}
        /\ UNCHANGED new_plant

\* add_plant looks for the closest base plant of the same type, the first one
\* of those at the same distance; there is KeyError when there is none.
Neighbors(p) == {i \in DOMAIN Plant : Plant[i].type = p.type}

Distance(p, i) == Abs(Plant[i].place - p.place)

FindClosestNeighbor(p) ==
    CHOOSE i \in Neighbors(p) :
        \A j \in Neighbors(p) :
            Distance(p, i) < Distance(p, j) \/ (Distance(p, i) = Distance(p, j) /\ i <= j)

HasProfile(r) == \E g \in DOMAIN Group : r \in Group[g]

AddPlant(p) ==
    /\ Call
    /\ AtMost(Zero, p.pmin) /\ AtMost(p.pmin, p.pmax)
    /\ HasProfile(p.type) => Neighbors(p) # {}
    /\ new_plant' = Append(new_plant, p)
    /\ UNCHANGED <<scaling, unclipped>>

\* clear("plant")
ClearPlant ==
    /\ Call
    /\ scaling' = [k \in Keys |-> NoEntry]
    /\ new_plant' = <<>>
    /\ unclipped' = {}

PlantNext ==
    \/ \E r \in Resources, c \in ScaleCalls :
          (\E k \in {"capacity", "cost"} : ScalePlant(k, r, c)) \/ ScalePlantPmin(r, c)
    \/ \E p \in NewPlants : AddPlant(p)
    \/ ClearPlant

PlantSpec == PlantInit /\ [][PlantNext]_plantVars

-----------------------------------------------------------------------------
(* TransformProfile *)

\* _get_number_of_new_plant
NewPlantCount == Len(new_plant)
NewCleanPlantCount == Cardinality({n \in DOMAIN new_plant : HasProfile(new_plant[n].type)})

\* A faulty variant: only the new plants with profiles are left out.
OldColumnsButClean(g) ==
    {i \in 1 .. Len(AllPlants) - NewCleanPlantCount : AllPlants[i].type \in Group[g]}

\* _get_renewable_profile: the plants of the group but for the last rows of the
\* table, as many as there are new plants.
OldColumns(g) ==
    {i \in 1 .. Len(AllPlants) - NewPlantCount : AllPlants[i].type \in Group[g]}

\* A column of a profile: the plant whose normalised profile it repeats, and the
\* number it is multiplied by.
ScalePlantProfile(i) == [of |-> i, times |-> TransformedPlant(scaling, i).pmax]

\* _add_plant_profile: the neighbour's profile times the Pmax of the entry.
AddPlantProfile(n) ==
    [of |-> FindClosestNeighbor(new_plant[n]), times |-> new_plant[n].pmax]

\* The id of the n-th new plant, counted from the end of the table.
NewPlantId(n) == Len(AllPlants) - NewPlantCount + n

NewColumns(g) ==
    IF NewCleanPlantCount = 0 THEN {}
    ELSE {NewPlantId(n) : n \in {m \in DOMAIN new_plant : new_plant[m].type \in Group[g]}}

GetRenewableProfile(g) ==
    [i \in OldColumns(g) \cup NewColumns(g) |->
       IF i \in OldColumns(g) THEN ScalePlantProfile(i)
       ELSE AddPlantProfile(i - NewPlantId(0))]

-----------------------------------------------------------------------------
(* Properties. *)

\* No plant of the transformed grid has to run above its capacity, whatever the
\* order in which capacity and Pmin are scaled, replaced and refused: the
\* corrections of scale_plant_pmin outlive the factors they correct.  It fails
\* to clip a plant only when it raises, having made or removed an entry, and
\* when the capacity is zero at the time of the call.
PminAtMostPmax ==
    \A i \in DOMAIN AllPlants \ unclipped :
        LET p == TransformedPlant(scaling, i) IN AtMost(p.pmin, p.pmax)

\* The only factors for plant i that _scale_gencost_by_capacity does not see, or
\* leaves alone: zero, and a factor by id under a resource that is not thermal.
Unstretched(i) ==
    \/ ByZone(scaling, "capacity", i) = Zero \/ ById(scaling, "capacity", i) = Zero
    \/ \E r \in Resources \ Thermal : <<r, i>> \in DOMAIN scaling["capacity"].id

\* "such that the start/end slopes are consistent before and after": the slope
\* of a thermal plant's cost curve at its capacity changes by the factors for
\* cost only, in whatever order capacity and cost are scaled.  The slope at p is
\* c1 + 2 * c2 * p, and c1 is only scaled with the cost.
SlopesAreKept ==
    \A i \in DOMAIN AllPlants :
        (AllPlants[i].type \in Thermal /\ ~Unstretched(i)) =>
            LET p == TransformedPlant(scaling, i)
                cost == Times(ByZone(scaling, "cost", i), ById(scaling, "cost", i))
            IN  Times(p.c2, p.pmax) = Times(cost, Times(AllPlants[i].c2, AllPlants[i].pmax))

\* The profile of a group has one column for each plant of its resources in the
\* transformed grid, new ones included, made from the profile of a plant of the
\* same type, which for a base plant is its own.  The column is scaled by the
\* plant's capacity in the grid, unless the plant is new and scaled by its id.
ProfilesMatchPlants ==
    \A g \in DOMAIN Group :
        LET profile == GetRenewableProfile(g)
        IN  /\ DOMAIN profile = {i \in DOMAIN AllPlants : AllPlants[i].type \in Group[g]}
            /\ \A i \in DOMAIN profile :
                  /\ profile[i].of \in DOMAIN Plant
                  /\ Plant[profile[i].of].type = AllPlants[i].type
                  /\ i \in DOMAIN Plant => profile[i].of = i
                  /\ \/ profile[i].times = TransformedPlant(scaling, i).pmax
                     \/ i \notin DOMAIN Plant /\ ById(scaling, "capacity", i) # One
=============================================================================
