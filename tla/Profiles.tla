------------------------------ MODULE Profiles ------------------------------
(***************************************************************************)
(* The rest of TransformProfile: demand, the electrified demand that is    *)
(* added to it (TransformDemand), and demand flexibility, with the methods *)
(* of the change table that ask for them: scale_demand,                    *)
(* add_electrification and add_demand_flexibility.                         *)
(*                                                                         *)
(* A profile is known by its version; how a demand profile is changed is   *)
(* given by a factor for each zone.                                        *)
(***************************************************************************)
EXTENDS PlantProfiles

CONSTANTS
    DemandCalls,  \* arguments of scale_demand: factors by name and by id
    EndUses,      \* end uses that can be electrified
    Techs,        \* technologies
    ElecCalls,    \* arguments of add_electrification, of one kind
    Versions,     \* the stored versions of each demand flexibility profile
    FlexCalls     \* arguments of add_demand_flexibility

Duration == "demand_flexibility_duration"
Required == {"demand_flexibility_up", "demand_flexibility_dn"}
Optional == {Duration, "demand_flexibility_cost_up", "demand_flexibility_cost_dn"}

ASSUME ProfilesAssumption ==
    /\ DOMAIN Versions = (Required \cup Optional) \ {Duration}
    /\ \A c \in DemandCalls : c.name # <<>> \/ c.id # <<>>
    /\ \A c \in ElecCalls :
          /\ DOMAIN c.grid \subseteq EndUses
          /\ \A z \in DOMAIN c.zone : DOMAIN c.zone[z] \subseteq EndUses

VARIABLES
    demand,      \* the entry demand: factors by zone
    elec,        \* the entry building: factors of the grid, and by zone
    flex,        \* the entry demand_flexibility, or None
    interrupted  \* history: add_demand_flexibility raised on the duration

demandVars == <<demand, elec, flex, interrupted>>
vars == <<plantVars, demandVars>>

Init ==
    /\ PlantInit
    /\ demand = <<>> /\ elec = None /\ flex = None
    /\ interrupted = FALSE

\* dict.update
Update(f, g) == [x \in DOMAIN f \cup DOMAIN g |-> IF x \in DOMAIN g THEN g[x] ELSE f[x]]

-----------------------------------------------------------------------------
\* scale_demand: by name, then by id.  One unknown zone discards the whole
\* entry, factors of earlier calls included, and the method returns.  A zone
\* without plants is unknown by name and known by id.
ScaleDemand(call) ==
    /\ Call
    /\ demand' = IF (\A z \in DOMAIN call.name : HasPlants(z)) /\ DOMAIN call.id \subseteq Zones
                 THEN Update(Update(demand, call.name), call.id) ELSE <<>>
    /\ UNCHANGED <<scaling, new_plant, unclipped, elec, flex, interrupted>>

\* _get_demand_profile
DemandFactor(z) == Factor(demand, z)

-----------------------------------------------------------------------------
\* _check_scale_factors
CheckScaleFactors(sf) ==
    /\ \A t \in DOMAIN sf : AtMost(Zero, sf[t])
    /\ AtMost(SumOver(LAMBDA t : sf[t], DOMAIN sf), One)

CheckArea(area) == \A e \in DOMAIN area : CheckScaleFactors(area[e])

\* A faulty variant: technologies are merged into those of earlier calls.
UpdateAreaByTech(old, new) ==
    [e \in DOMAIN old \cup DOMAIN new |->
       Update(IF e \in DOMAIN old THEN old[e] ELSE <<>>,
              IF e \in DOMAIN new THEN new[e] ELSE <<>>)]

\* The factors of an end use replace those of earlier calls.
UpdateArea(old, new) == Update(old, new)

\* add_electrification raises before it changes anything.  The end uses of a
\* zone replace all those that the zone had.
AddElectrification(call) ==
    LET old == IF elec = None THEN [grid |-> <<>>, zone |-> <<>>] ELSE elec
    IN  /\ Call
        /\ CheckArea(call.grid)
        /\ \A z \in DOMAIN call.zone : HasPlants(z) /\ CheckArea(call.zone[z])
        /\ elec' = [grid |-> UpdateArea(old.grid, call.grid),
                    zone |-> Update(old.zone, call.zone)]
        /\ UNCHANGED <<scaling, new_plant, unclipped, demand, flex, interrupted>>

\* _get_profile_to_zone and _get_profile_to_grid: factors by end use, technology
\* and, for the former, zone.
P2Z == {x \in Zones \X EndUses \X Techs :
          /\ x[1] \in DOMAIN elec.zone /\ x[2] \in DOMAIN elec.zone[x[1]]
          /\ x[3] \in DOMAIN elec.zone[x[1]][x[2]]}

P2G == {x \in EndUses \X Techs : x[1] \in DOMAIN elec.grid /\ x[2] \in DOMAIN elec.grid[x[1]]}

\* The profiles that value() adds up.
ElecProfiles == P2G \cup {<<x[2], x[3]>> : x \in P2Z}

\* TransformDemand.get_profile: by what the profile of a technology is multiplied
\* in a zone.  A zone that is not mentioned has the whole profile.
ElecFactor(e, t, z) ==
    IF <<z, e, t>> \in P2Z THEN elec.zone[z][e][t]
    ELSE IF <<e, t>> \in P2G THEN elec.grid[e][t] ELSE One

\* value(): how much of the end use is electrified in a zone.
Adoption(e, z) ==
    SumOver(LAMBDA p : ElecFactor(e, p[2], z), {p \in ElecProfiles : p[1] = e})

-----------------------------------------------------------------------------
Given(call) == Required \cup (Optional \cap DOMAIN call)

Bad(call, k) ==
    IF k = Duration THEN call[k] <= 0 ELSE call[k] \notin Versions[k]

Restricted(call, ks) == [k \in ks |-> call[k]]

\* add_demand_flexibility.  The keys are those of a set, and come in any order:
\* done are the ones before the first that is refused.
AddFlexAccepted(call) ==
    /\ Call
    /\ Required \subseteq DOMAIN call
    /\ \A k \in Given(call) : ~Bad(call, k)
    /\ flex' = Update(IF flex = None THEN <<>> ELSE flex, Restricted(call, Given(call)))
    /\ interrupted' = FALSE
    /\ UNCHANGED <<scaling, new_plant, unclipped, demand, elec>>

\* A faulty variant: a refused profile is deleted, and the others stay.
AddFlexKeepsOthers(call) ==
    /\ Call
    /\ Required \subseteq DOMAIN call
    /\ \E k \in Given(call) \ {Duration} : Bad(call, k)
    /\ \E done \in SUBSET {k \in Given(call) : ~Bad(call, k)} :
          flex' = Update(IF flex = None THEN <<>> ELSE flex, Restricted(call, done))
    /\ interrupted' = interrupted
    /\ UNCHANGED <<scaling, new_plant, unclipped, demand, elec>>

\* A version that is not stored: the whole entry is deleted.
AddFlexUnknownVersion(call) ==
    /\ Call
    /\ Required \subseteq DOMAIN call
    /\ \E k \in Given(call) \ {Duration} : Bad(call, k)
    /\ flex' = None
    /\ interrupted' = FALSE
    /\ UNCHANGED <<scaling, new_plant, unclipped, demand, elec>>

\* A duration that is not positive: the entry stays as it is at that moment.
AddFlexBadDuration(call, done) ==
    /\ Call
    /\ Required \subseteq DOMAIN call
    /\ Duration \in DOMAIN call /\ Bad(call, Duration)
    /\ done \subseteq {k \in Given(call) : ~Bad(call, k)}
    /\ flex' = Update(IF flex = None THEN <<>> ELSE flex, Restricted(call, done))
    /\ interrupted' = TRUE
    /\ UNCHANGED <<scaling, new_plant, unclipped, demand, elec>>

-----------------------------------------------------------------------------
\* clear("demand") and clear("demand_flexibility"); nothing but clear() removes
\* electrification.
ClearDemand ==
    /\ Call /\ demand # <<>>
    /\ demand' = <<>>
    /\ UNCHANGED <<scaling, new_plant, unclipped, elec, flex, interrupted>>

ClearFlex ==
    /\ Call /\ flex # None
    /\ flex' = None /\ interrupted' = FALSE
    /\ UNCHANGED <<scaling, new_plant, unclipped, demand, elec>>

\* clear()
ClearAll ==
    /\ ClearPlant
    /\ demand' = <<>> /\ elec' = None /\ flex' = None /\ interrupted' = FALSE

Next ==
    \/ PlantNext /\ UNCHANGED demandVars
    \/ \E c \in DemandCalls : ScaleDemand(c)
    \/ \E c \in ElecCalls : AddElectrification(c)
    \/ \E c \in FlexCalls :
          \/ AddFlexAccepted(c) \/ AddFlexUnknownVersion(c)
          \/ \E done \in SUBSET DOMAIN c : AddFlexBadDuration(c, done)
    \/ ClearDemand \/ ClearFlex \/ ClearAll

Spec == Init /\ [][Next]_vars

-----------------------------------------------------------------------------
(* Properties. *)

\* Every change table that was accepted can be prepared: the versions it names
\* are stored, and both limits of the flexibility are there, whichever calls
\* were refused, except when one was refused for its duration.
FlexIsComplete ==
    (flex # None /\ ~interrupted) =>
        /\ Required \subseteq DOMAIN flex
        /\ \A k \in DOMAIN flex : ~Bad(flex, k)

\* "The values in scale_factors must be nonnegative and sum to at most 1": no end
\* use is electrified by more than all of it, whatever calls were made before.
\* That holds for an end use that is given for the grid only, and in a zone that
\* gives all the technologies that occur.  A technology that the zone leaves out
\* comes in addition, with the factor of the grid, or whole.
AdoptionAtMostOne ==
    elec # None =>
        \A e \in EndUses, z \in Zones :
            (\/ \A y \in DOMAIN elec.zone : e \notin DOMAIN elec.zone[y]
             \/ \A p \in ElecProfiles : p[1] = e => <<z, e, p[2]>> \in P2Z)
            => AtMost(Adoption(e, z), One)
\* The entries for demand of a change table are sound after any calls, refused
\* ones included: those for flexibility can be prepared, and those for
\* electrification replace no more of an end use than there is.
DemandEntriesAreSound == FlexIsComplete /\ AdoptionAtMostOne
=============================================================================
