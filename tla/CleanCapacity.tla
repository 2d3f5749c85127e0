--------------------------- MODULE CleanCapacity ---------------------------
(***************************************************************************)
(* Planning of clean generation: calculate_clean_capacity_scaling, which   *)
(* takes the results of a reference scenario and a table of targets and    *)
(* computes capacities of solar and wind, create_change_table, which makes *)
(* them a change table with the help of mimic_generation_capacity, and the *)
(* next scenario, which is simulated and planned from again.               *)
(*                                                                         *)
(* Every function that adds columns to the table is a step; the columns    *)
(* are fields of a record for each target.                                 *)
(***************************************************************************)
EXTENDS Ratio, Sequences, TLC

CONSTANTS
    Plant,      \* the plants of the base grid: zone, type, pmax, and yield
    Zones,      \* the load zones of the grid
    References, \* reference grids: the capacity of each plant, new ones at the end
    Curtailed,  \* shares of the generation that a simulation curtails
    Demand,     \* the demand of each zone in an hour
    Lengths,    \* hours of the reference scenario
    Questions,  \* arguments of calculate_clean_capacity_scaling
    None,       \* an argument that is not given
    MaxRounds   \* bound: how often the next scenario becomes the reference

New == {"solar", "wind"}

ASSUME CleanCapacityAssumption ==
    /\ \A i \in DOMAIN Plant : Plant[i].zone \in Zones /\ Less(Zero, Plant[i].pmax)
    /\ {"hydro"} \cup New \subseteq {Plant[i].type : i \in DOMAIN Plant}
    /\ \A ref \in References : Len(ref) >= Len(Plant)
    /\ \A q \in Questions : q.method \in {"independent", "collaborative"}
    /\ MaxRounds \in Nat

VARIABLES
    stage,   \* the step that was taken last, or "raised"
    q,       \* the arguments: the areas of the targets and their columns
    ref,     \* the reference grid
    share,   \* what is left of the generation after curtailment
    length,  \* hours of the reference scenario
    targets, \* the table of targets
    ct,      \* the change table
    rounds

vars == <<stage, q, ref, share, length, targets, ct, rounds>>

NoTable == [zone |-> <<>>, id |-> <<>>]
Epsilon == Frac(1, 1000)

Init ==
    /\ stage = "asked"
    /\ q \in Questions
    /\ ref \in References
    /\ share \in {Minus(One, c) : c \in Curtailed}
    /\ length \in Lengths
    /\ targets = <<>> /\ ct = NoTable /\ rounds = 0

Targets == DOMAIN q.area

\* A sum of pandas leaves NaN out.
Sum(f(_), S) == SumOver(f, {x \in S : f(x) # NaN})

Raise == stage' = "raised" /\ UNCHANGED <<q, ref, share, length, targets, ct, rounds>>

Step(from, to) == stage = from /\ stage' = to /\ UNCHANGED <<q, ref, share, length, rounds>>

-----------------------------------------------------------------------------
\* _make_zonename2target: the areas are disjoint, and cover the grid.
MakeZonename2Target ==
    /\ \A s, t \in Targets : s # t => q.area[s] \cap q.area[t] = {}
    /\ Zones \subseteq UNION {q.area[t] : t \in Targets}

\* A plant that was added to the reference grid is like the first plant.
Like(i) == IF i \in DOMAIN Plant THEN Plant[i] ELSE Plant[1]

\* The rows of the plants of a target.
PlantsOf(t) == {i \in DOMAIN ref : Like(i).zone \in q.area[t]}
PlantsOfType(t, r) == {i \in PlantsOf(t) : Like(i).type = r}

Resources == {Plant[i].type : i \in DOMAIN Plant}

\* get_pg().sum()
Generation(i) == Times(Times(ref[i], Like(i).yield), Times(share, Whole(length)))

\* groupby(...).sum().unstack(fill_value=0): there is no row for a target without
\* plants.
GroupSum(column, t, r) ==
    IF PlantsOf(t) = {} THEN NaN ELSE SumOver(LAMBDA i : column[i], PlantsOfType(t, r))

PrevCapacity(t, r) == GroupSum(ref, t, r)
PrevGeneration(t, r) == GroupSum([i \in DOMAIN ref |-> Generation(i)], t, r)
CapFactor(t, r) == Over(PrevGeneration(t, r), Times(Whole(length), PrevCapacity(t, r)))

\* add_resource_data_to_targets
AddResourceData ==
    /\ MakeZonename2Target
    /\ Step("asked", "resources")
    /\ targets' = [t \in Targets |->
                     [capacity |-> [r \in Resources |-> PrevCapacity(t, r)],
                      generation |-> [r \in Resources |-> PrevGeneration(t, r)],
                      cap_factor |-> [r \in New |-> CapFactor(t, r)]]]
    /\ UNCHANGED ct

RaiseOnTargets == stage = "asked" /\ ~MakeZonename2Target /\ Raise

\* The scenario to plan for.
NextLength == IF q.next = None THEN length ELSE q.next

\* add_demand_to_targets
TotalDemand(t) ==
    IF q.area[t] \cap Zones = {} THEN NaN
    ELSE SumOver(LAMBDA z : Times(Demand[z], Whole(NextLength)), q.area[t] \cap Zones)

AddDemand ==
    /\ Step("resources", "demand")
    /\ targets' = [t \in Targets |-> targets[t] @@ [demand |-> TotalDemand(t)]]
    /\ UNCHANGED ct

Clip(x) == IF Less(x, Zero) THEN Zero ELSE x

\* A faulty variant: resources that are not allowed count.
CeGenerationOfAll(t) == SumOver(LAMBDA r : targets[t].generation[r], Resources)

\* add_shortfall_to_targets
CeGeneration(t) ==
    SumOver(LAMBDA r : IF r \in Resources THEN targets[t].generation[r] ELSE Zero, q.allowed[t])

RawShortfall(t) ==
    Minus(Times(targets[t].demand, q.fraction[t]), Plus(CeGeneration(t), q.external[t]))

AddShortfall ==
    /\ Step("demand", "shortfall")
    /\ targets' = [t \in Targets |->
                     targets[t] @@ [ce_target |-> Times(targets[t].demand, q.fraction[t]),
                                    shortfall |-> Clip(RawShortfall(t)),
                                    overgeneration |-> Clip(Minus(Zero, RawShortfall(t)))]]
    /\ UNCHANGED ct

\* calculate_overall_shortfall of the participating targets.
Participating == {t \in Targets : Less(Zero, targets[t].ce_target)}

OverallShortfall ==
    Minus(Sum(LAMBDA t : targets[t].shortfall, Participating),
          Sum(LAMBDA t : targets[t].overgeneration, Participating))

-----------------------------------------------------------------------------
(* The two strategies. *)

SolarPercentage(t) ==
    LET capacity == targets[t].capacity
    IN  IF q.solar[t] # None THEN q.solar[t]
        ELSE Over(capacity["solar"], Plus(capacity["solar"], capacity["wind"]))

AverageFactor(solar, wind, part) ==
    IF solar = NaN THEN Times(wind, Minus(One, part))
    ELSE IF wind = NaN THEN Times(solar, part)
    ELSE Plus(Times(solar, part), Times(wind, Minus(One, part)))

\* calculate_added_capacity
AddedCapacity(t) ==
    LET part == SolarPercentage(t)
        factor == AverageFactor(targets[t].cap_factor["solar"], targets[t].cap_factor["wind"], part)
        total == Over(targets[t].shortfall, Times(factor, Whole(NextLength)))
    IN  [r \in New |-> Times(total, IF r = "solar" THEN part ELSE Minus(One, part))]

\* add_new_capacities_independent
NextIndependent(t) ==
    [r \in New |-> Plus(targets[t].capacity[r], AddedCapacity(t)[r])]

\* add_new_capacities_collaborative.  The generation of the reference scenario is
\* divided by the hours of the next one.
JointCapacity(r) == Sum(LAMBDA t : targets[t].capacity[r], Participating)
JointGeneration(r) == Sum(LAMBDA t : targets[t].generation[r], Participating)

Expected(r) ==
    IF q.curtailment = None THEN One
    ELSE IF r \in DOMAIN q.curtailment THEN Minus(One, q.curtailment[r]) ELSE NaN

JointFactor(r) ==
    Times(Over(JointGeneration(r), Times(JointCapacity(r), Whole(NextLength))), Expected(r))

JointPart ==
    IF q.part # None THEN q.part
    ELSE Over(JointCapacity("solar"), Plus(JointCapacity("solar"), JointCapacity("wind")))

ScalingFactors ==
    LET part == JointPart
        factor == Plus(Times(JointFactor("solar"), part),
                       Times(JointFactor("wind"), Minus(One, part)))
        total == Over(OverallShortfall, Times(factor, Whole(NextLength)))
        added(r) == Times(total, IF r = "solar" THEN part ELSE Minus(One, part))
    IN  [r \in New |-> Plus(One, Over(added(r), JointCapacity(r)))]

NextCollaborative(t, factors) ==
    [r \in New |-> IF t \in Participating THEN Times(targets[t].capacity[r], factors[r])
                   ELSE targets[t].capacity[r]]

\* A resource without capacity in the grid has no columns (KeyError).  The columns
\* for additional curtailment are in the table since add_resource_data_to_targets,
\* and to join them again raises ValueError.
Calculable ==
    /\ \A r \in New : \E i \in DOMAIN ref : Like(i).type = r /\ Less(Zero, ref[i])
    /\ q.method = "independent" => q.curtailment = None

AddNewCapacitiesIndependent ==
    /\ q.method = "independent" /\ Calculable
    /\ Step("shortfall", "capacities")
    /\ targets' = [t \in Targets |-> targets[t] @@ [next |-> NextIndependent(t)]]
    /\ UNCHANGED ct

AddNewCapacitiesCollaborative ==
    /\ q.method = "collaborative" /\ Calculable
    /\ Step("shortfall", "capacities")
    /\ \E factors \in {ScalingFactors} :
          targets' = [t \in Targets |-> targets[t] @@ [next |-> NextCollaborative(t, factors)]]
    /\ UNCHANGED ct

RaiseOnCapacities == stage = "shortfall" /\ ~Calculable /\ Raise

-----------------------------------------------------------------------------
(* mimic_generation_capacity *)

\* A faulty variant: everything that is not close to one is written down, NaN too.
NotNearOne(x) == ~ (AtMost(Minus(x, One), Epsilon) /\ AtMost(Minus(One, x), Epsilon))

AwayFromOne(x) == Less(Epsilon, Minus(x, One)) \/ Less(Epsilon, Minus(One, x))

Scaling(i) == LET s == Over(ref[i], Plant[i].pmax) IN IF s = NaN THEN Zero ELSE s

Groups == {<<Plant[i].type, Plant[i].zone>> : i \in DOMAIN Plant}
InGroup(g) == {i \in DOMAIN Plant : <<Plant[i].type, Plant[i].zone>> = g}

\* The value that is the k-th one in the order of values, from 0.
Nth(f(_), S, k) ==
    f(CHOOSE i \in S : /\ Cardinality({j \in S : Less(f(j), f(i))}) <= k
                       /\ k < Cardinality({j \in S : AtMost(f(j), f(i))}))

Median(f(_), S) ==
    LET n == Cardinality(S)
    IN  Over(Plus(Nth(f, S, (n - 1) \div 2), Nth(f, S, n \div 2)), Whole(2))

\* The common factor of a group: zero, or the median of the factors that are not.
CommonFactor(g) ==
    LET positive == {i \in InGroup(g) : Less(Zero, Scaling(i))}
    IN  IF positive = {} THEN Zero ELSE Median(Scaling, positive)

\* What remains for the plant after the factor of its group, if there is one.
Remainder(i) ==
    LET common == CommonFactor(<<Plant[i].type, Plant[i].zone>>)
    IN  IF common = Zero THEN One
        ELSE IF AwayFromOne(common) THEN Over(Scaling(i), common) ELSE Scaling(i)

CalculateCommonZoneFactors ==
    [zone |-> [g \in {h \in Groups : AwayFromOne(CommonFactor(h))} |-> CommonFactor(g)],
     id |-> [i \in {j \in DOMAIN Plant : AwayFromOne(Remainder(j))} |-> Remainder(i)]]

-----------------------------------------------------------------------------
(* create_change_table *)

\* A faulty variant: the factor takes the place of the one that is there.
ApplyFactorOver(table, x, factor) ==
    [y \in DOMAIN table \cup {x} |-> IF y = x THEN factor ELSE table[y]]

\* _apply_zone_scale_factor_to_ct
ApplyZoneScaleFactor(table, x, factor) ==
    [y \in DOMAIN table \cup {x} |->
       IF y # x THEN table[y] ELSE IF x \in DOMAIN table THEN Times(table[x], factor) ELSE factor]

NextOverPrev(t, r) == Over(targets[t].next[r], targets[t].capacity[r])

\* The zones of the region with plants, of whatever type.  The type of the area is
\* not passed on, so that the region may be another one of the same name.
RegionZones(t) == {z \in q.region[t] : \E i \in DOMAIN Plant : Plant[i].zone = z}

\* The factors that are applied, in any order.
Scaled ==
    {x \in Targets \X New \X Zones :
        /\ x[3] \in RegionZones(x[1])
        /\ Less(Zero, targets[x[1]].capacity[x[2]])
        /\ AwayFromOne(NextOverPrev(x[1], x[2]))}

ZoneTable(common) ==
    FoldSet(LAMBDA x, table :
                ApplyZoneScaleFactor(table, <<x[2], x[3]>>, NextOverPrev(x[1], x[2])),
            common, Scaled)

\* A plant that is not in the base grid has no type there (KeyError).
CreateChangeTable ==
    /\ Len(ref) = Len(Plant)
    /\ Step("capacities", "planned")
    /\ \E common \in {CalculateCommonZoneFactors} :
          ct' = [zone |-> ZoneTable(common.zone), id |-> common.id]
    /\ UNCHANGED targets

RaiseOnTable == stage = "capacities" /\ Len(ref) > Len(Plant) /\ Raise

-----------------------------------------------------------------------------
(* The next scenario. *)

\* _scale_gen_by_zone looks for the plants of the type in the zone.
Applies == DOMAIN ct.zone \subseteq Groups

Factor(f, x) == IF x \in DOMAIN f THEN f[x] ELSE One

NewCapacity(i) ==
    Times(Plant[i].pmax, Times(Factor(ct.zone, <<Plant[i].type, Plant[i].zone>>), Factor(ct.id, i)))

\* The scenario is prepared and simulated, and is the reference of the next round.
Simulate ==
    /\ stage = "planned" /\ Applies /\ rounds < MaxRounds
    /\ \A i \in DOMAIN Plant : IsFinite(NewCapacity(i)) /\ AtMost(Zero, NewCapacity(i))
    /\ stage' = "asked" /\ rounds' = rounds + 1
    /\ ref' = [i \in DOMAIN Plant |-> NewCapacity(i)]
    /\ length' = NextLength
    /\ share' \in {Minus(One, c) : c \in Curtailed}
    /\ targets' = <<>> /\ ct' = NoTable
    /\ UNCHANGED q

RaiseOnGrid == stage = "planned" /\ ~Applies /\ Raise

Next ==
    \/ AddResourceData \/ AddDemand \/ AddShortfall
    \/ AddNewCapacitiesIndependent \/ AddNewCapacitiesCollaborative
    \/ CreateChangeTable \/ Simulate
    \/ RaiseOnTargets \/ RaiseOnCapacities \/ RaiseOnTable \/ RaiseOnGrid

Spec == Init /\ [][Next]_vars

-----------------------------------------------------------------------------
(* Properties. *)

\* The clean energy that a target gets in the next scenario, at the capacity
\* factors of the reference scenario: solar and wind with their new capacities, the
\* other allowed resources as before.
NextEnergy(t) ==
    Sum(LAMBDA r : IF r \in New
                   THEN Times(targets[t].next[r],
                              Times(targets[t].cap_factor[r], Whole(NextLength)))
                   ELSE targets[t].generation[r],
        q.allowed[t] \cap Resources)

Planned(t) == \A r \in New : IsFinite(targets[t].next[r])

Covers(S) ==
    AtMost(SumOver(LAMBDA t : targets[t].ce_target, S),
           SumOver(LAMBDA t : Plus(NextEnergy(t), q.external[t]), S))

\* "calculate capacities for a new scenario to meet the calculated shortfall": with
\* the capacities of the independent strategy every target that has plants gets the
\* clean energy it aims for, and with those of the collaborative strategy all
\* participating targets together do, surplus of some making up for others.  Solar
\* and wind must be allowed, and the next scenario at least as long as the
\* reference scenario, whose generation is set against the demand of the next one.
ShortfallIsMet ==
    (stage \in {"capacities", "planned"} /\ NextLength >= length) =>
        /\ q.method = "independent" =>
              \A t \in Targets : (New \subseteq q.allowed[t] /\ Planned(t)) => Covers({t})
        /\ (/\ q.method = "collaborative" /\ q.curtailment = None
            /\ \A t \in Participating : New \subseteq q.allowed[t] /\ Planned(t)) =>
              Covers(Participating)

Magnitude(x) == MaxOf(x, Minus(Zero, x))
Close(x, y) == AtMost(Magnitude(Minus(x, y)), Times(Magnitude(y), Frac(4, 1000)))

\* "factors such that the combination, when applied to the base grid, produces the
\* reference grid", "with the exception of wind and solar plants which are scaled
\* up": up to the tolerance of the code, the change table gives every target the
\* capacity of solar and wind that was calculated for it, and every other plant
\* what it had.  Regions are the areas of the targets, and what was calculated is
\* a number.
TableGivesCapacities ==
    stage = "planned" =>
        /\ \A i \in DOMAIN Plant : Plant[i].type \notin New => Close(NewCapacity(i), ref[i])
        /\ q.region = q.area =>
              \A t \in Targets, r \in New :
                  (IsFinite(targets[t].next[r]) /\ Less(Zero, targets[t].capacity[r])) =>
                      Close(SumOver(NewCapacity, PlantsOfType(t, r)), targets[t].next[r])

\* Whatever is undefined on the way (a target without plants, or without solar or
\* wind), no factor of the change table is NaN, and none is negative unless targets
\* collaborate and have a surplus altogether: then the table may ask for negative
\* capacities, which scale_plant_capacity would refuse.
FactorsAreNumbers ==
    stage = "planned" =>
        \A x \in DOMAIN ct.zone :
            /\ ct.zone[x] # NaN
            /\ Less(ct.zone[x], Zero) =>
                  q.method = "collaborative" /\ Less(OverallShortfall, Zero)

\* The change table of a plan can be applied, and gives the capacities planned.
PlannedTableIsSound == TableGivesCapacities /\ FactorsAreNumbers
=============================================================================
