---------------------------- MODULE ScenarioInfo ----------------------------
(***************************************************************************)
(* ScenarioInfo: what a user asks about a simulated scenario, by resource, *)
(* area and time range, to decide on the capacities of the next one.  Here *)
(* the scenario is the reference of CleanCapacity, which adds up the same  *)
(* tables in another way.                                                  *)
(*                                                                         *)
(* An area is its set of load zones.  Hours are counted from 0, and all    *)
(* hours of a scenario are alike, as in CleanCapacity.                     *)
(***************************************************************************)
EXTENDS CleanCapacity

\* _check_time_range: both ends are hours of the scenario, and belong to the range.
CheckTimeRange(start, end) == {start, end} \subseteq 0 .. length - 1 /\ start <= end

TotalHours(start, end) == end - start + 1

\* The hours of the slice start:end, of which both ends belong to it.
Sliced(start, end) == Whole(Cardinality(start .. end))

\* The rows of the plant table for a resource and an area.
InQuery(gentype, area) == {i \in DOMAIN ref : Like(i).type = gentype /\ Like(i).zone \in area}

\* pg and profile: the columns of a plant.
Pg(i) == Times(Times(ref[i], Like(i).yield), share)
Profile(i) == Times(ref[i], Like(i).yield)

\* round(x, 4): to the nearest of two neighbours, or to the even one.
Round(x) ==
    LET n == x[1] * 10000
        floor == n \div x[2]
        rest == 2 * (n - floor * x[2])
    IN  IF ~IsFinite(x) THEN x
        ELSE Frac(IF rest < x[2] \/ (rest = x[2] /\ floor % 2 = 0) THEN floor ELSE floor + 1, 10000)

GetAvailableResource(area) == {Like(i).type : i \in {j \in DOMAIN ref : Like(j).zone \in area}}

\* A load zone of the area that is not in the grid is KeyError.
HasDemand(area) == area \subseteq Zones

GetDemand(area, start, end) ==
    Times(SumOver(LAMBDA z : Demand[z], area), Sliced(start, end))

\* A faulty variant: the plant table of the base grid.
CapacityOfBase(gentype, area) == SumOver(LAMBDA i : Like(i).pmax, InQuery(gentype, area))

GetCapacity(gentype, area) == SumOver(LAMBDA i : ref[i], InQuery(gentype, area))

GetGeneration(gentype, area, start, end) ==
    Times(SumOver(Pg, InQuery(gentype, area)), Sliced(start, end))

\* A faulty variant: the columns of all plants of the area.
ResourceOfAll(gentype, area, start, end) ==
    Times(SumOver(Profile, {i \in DOMAIN ref : Like(i).zone \in area}), Sliced(start, end))

GetProfileResource(gentype, area, start, end) ==
    Times(SumOver(Profile, InQuery(gentype, area)), Sliced(start, end))

GetCurtailment(gentype, area, start, end) ==
    LET generation == GetGeneration(gentype, area, start, end)
        resource == GetProfileResource(gentype, area, start, end)
    IN  IF resource = Zero /\ generation = Zero THEN Zero
        ELSE Round(Minus(One, Over(generation, resource)))

\* Without capacity it is ZeroDivisionError.
HasCapacityFactor(gentype, area) == GetCapacity(gentype, area) # Zero

GetCapacityFactor(gentype, area, start, end) ==
    Round(Over(GetGeneration(gentype, area, start, end),
               Times(Whole(TotalHours(start, end)), GetCapacity(gentype, area))))

\* When everything is curtailed, it is ZeroDivisionError too.
GetNoCongestCapacityFactor(gentype, area, start, end) ==
    Round(Over(GetCapacityFactor(gentype, area, start, end),
               Minus(One, GetCurtailment(gentype, area, start, end))))

-----------------------------------------------------------------------------
(* Properties. *)

\* The table of targets and ScenarioInfo agree on a target that has plants: its
\* capacity and generation, by resource and altogether, its demand when the next
\* scenario is as long as the reference, and, up to the rounding, the capacity
\* factors, which are undefined for the one where the other raises.
TargetsMatchScenarioInfo ==
    stage = "demand" =>
        \A t \in {u \in Targets : PlantsOf(u) # {}} :
            LET area == q.area[t]
                all(f(_)) == Sum(f, GetAvailableResource(area))
            IN  /\ \A r \in Resources :
                      /\ targets[t].capacity[r] = GetCapacity(r, area)
                      /\ targets[t].generation[r] = GetGeneration(r, area, 0, length - 1)
                /\ SumOver(LAMBDA i : ref[i], PlantsOf(t)) = all(LAMBDA r : GetCapacity(r, area))
                /\ \A r \in New :
                      IF HasCapacityFactor(r, area)
                      THEN Round(targets[t].cap_factor[r]) = GetCapacityFactor(r, area, 0, length - 1)
                      ELSE targets[t].cap_factor[r] = NaN
                /\ (HasDemand(area) /\ NextLength = length) =>
                      targets[t].demand = GetDemand(area, 0, length - 1)

\* A rounded number, counted in its last digit.
Units(x) == x[1] * (10000 \div x[2])

\* What get_no_congest_capacity_factor computes from the generation, by dividing a
\* rounded capacity factor by what a rounded curtailment leaves, is the capacity
\* factor of the profiles, for every time range of the scenario in which something
\* was generated: the roundings are off by half a unit each, and the division makes
\* more of them the more is curtailed.  Twice the difference, in units:
NoCongestFactorIsOfProfiles ==
    stage = "resources" =>
        \A t \in Targets, r \in New : HasCapacityFactor(r, q.area[t]) =>
            \A factor \in {Over(SumOver(Profile, InQuery(r, q.area[t])), GetCapacity(r, q.area[t]))},
               start \in 0 .. length - 1, end \in 0 .. length - 1 :
                LET left == Units(Minus(One, GetCurtailment(r, q.area[t], start, end)))
                    computed == Units(GetNoCongestCapacityFactor(r, q.area[t], start, end))
                IN  (CheckTimeRange(start, end) /\ left # 0) =>
                        Abs(2 * computed * factor[2] - 20000 * factor[1])
                            <= factor[2] + ((10000 * (factor[1] + factor[2])) \div left) + 1

\* What ScenarioInfo reports of a scenario is what plans are made from, and what
\* the profiles of the scenario say.
ScenarioInfoAgrees == TargetsMatchScenarioInfo /\ NoCongestFactorIsOfProfiles
=============================================================================
