---------------------------- MODULE SupplyCurves ----------------------------
(***************************************************************************)
(* What is made of the plants of the transformed grid: the limits and the  *)
(* piecewise linear costs that Execute.prepare_simulation_input hands to   *)
(* the simulation (adjust_pmin, linearize_gencost), and the supply curves  *)
(* of an area (get_supply_data, build_supply_curve, ks_test).              *)
(*                                                                         *)
(* c0 is left out: only differences of costs are looked at.                *)
(***************************************************************************)
EXTENDS PlantProfiles, SequencesExt

CONSTANTS
    Share,    \* pmin_as_share_of_pmax, for the resources that have one
    Areas,    \* arguments of build_supply_curve: load zones and types
    Segments  \* arguments of build_supply_curve: the numbers of segments

ASSUME SupplyCurvesAssumption ==
    /\ \A r \in DOMAIN Share : AtMost(Zero, Share[r]) /\ AtMost(Share[r], One)
    /\ Segments \subseteq Nat \ {0}
    /\ \A i \in DOMAIN Plant : AtMost(Zero, Plant[i].c1) /\ AtMost(Zero, Plant[i].c2)

\* The plants of a grid with their ids, in the base grid and transformed.
BasePlants == {<<i, Plant[i]>> : i \in DOMAIN Plant}
TransformedPlants == {<<i, TransformedPlant(scaling, i)>> : i \in DOMAIN AllPlants}

\* A faulty variant: the share is one of the capacity in the base grid.
AdjustPminOfBase(i, p) ==
    IF HasProfile(p.type) THEN [p EXCEPT !.pmin = Zero]
    ELSE IF p.type \in DOMAIN Share
    THEN [p EXCEPT !.pmin = Times(Share[p.type], AllPlants[i].pmax)]
    ELSE p

\* adjust_pmin of a plant p with the id i: a share of Pmax, zero for plants with
\* profiles.  (All plants of the model are on.)
AdjustPmin(i, p) ==
    IF HasProfile(p.type) THEN [p EXCEPT !.pmin = Zero]
    ELSE IF p.type \in DOMAIN Share THEN [p EXCEPT !.pmin = Times(Share[p.type], p.pmax)]
    ELSE p

\* The plants that the simulation gets.
AdjustedPlants == {<<p[1], AdjustPmin(p[1], p[2])>> : p \in TransformedPlants}

-----------------------------------------------------------------------------
(* linearize_gencost *)

Dispatchable(p) == p.pmin # p.pmax

\* The k-th point of a curve of n segments, from 0 on.
CapacityPoint(p, n, k) ==
    Plus(p.pmin, Times(Over(Minus(p.pmax, p.pmin), Whole(n)), Whole(k)))

CostAt(p, x) == Plus(Times(p.c2, Times(x, x)), Times(p.c1, x))

\* p<k> and f<k> of a plant; fillna makes those of other plants zero.
LinearizeGencost(p, n) ==
    [k \in 0 .. n |->
       IF Dispatchable(p)
       THEN [capacity |-> CapacityPoint(p, n, k), price |-> CostAt(p, CapacityPoint(p, n, k))]
       ELSE [capacity |-> Zero, price |-> Zero]]

-----------------------------------------------------------------------------
(* Supply curves *)

\* get_supply_data: p_diff and slope of the k-th segment of a plant.
GetSupplyData(p, n, k) ==
    LET points == LinearizeGencost(p, n)
        p_diff == Minus(points[k].capacity, points[k - 1].capacity)
    IN  [p_diff |-> p_diff, slope |-> Over(Minus(points[k].price, points[k - 1].price), p_diff)]

\* Without dispatchable plants the columns are missing, and KeyError is raised;
\* so is ValueError for a type that the grid does not have.
HasSupplyCurve(plants, area) ==
    /\ \E p \in plants : Dispatchable(p[2])
    /\ \A r \in area.types : \E p \in plants : p[2].type = r

InArea(plants, area) ==
    {p \in plants : p[2].zone \in area.zones /\ p[2].type \in area.types}

\* The segments of the area's plants, each with its place in the table, but for
\* the plants without a slope.
SupplySegments(plants, n, area) ==
    {s \in {<<p[1], k, GetSupplyData(p[2], n, k)>> : p \in InArea(plants, area), k \in 1 .. n} :
       s[3].slope # NaN}

\* The members of S in a strict order.
InOrder(S, before(_, _)) ==
    [k \in 1 .. Cardinality(S) |->
       CHOOSE s \in S : Cardinality({t \in S : before(t, s)}) = k - 1]

InTable(s, t) == s[1] < t[1] \/ (s[1] = t[1] /\ s[2] < t[2])

\* A faulty variant: plants stay in the order of the table.
InTableOrder(segments) == InOrder(segments, InTable)

\* sort_values by slope; which of two equal slopes comes first does not matter.
SortBySlope(segments) ==
    InOrder(segments, LAMBDA s, t :
        Less(s[3].slope, t[3].slope) \/ (s[3].slope = t[3].slope /\ InTable(s, t)))

\* build_supply_curve: capacity_data and price_data, two points a segment.
BuildSupplyCurve(segments) ==
    LET Step(curve, s) ==
          LET to == Plus(s[3].p_diff, curve.sum)
          IN  [capacity |-> curve.capacity \o <<curve.sum, to>>,
               price |-> curve.price \o <<s[3].slope, s[3].slope>>,
               sum |-> to]
    IN  FoldLeft(Step, [capacity |-> <<>>, price |-> <<>>, sum |-> Zero], SortBySlope(segments))

\* lower_bound_index: the place before the first capacity above x.
LowerBoundIndex(x, data) == Min({i \in DOMAIN data : Less(x, data[i])}) - 1

KsPrice(curve, x) ==
    IF x = Last(curve.capacity) THEN Last(curve.price)
    ELSE curve.price[LowerBoundIndex(x, curve.capacity)]

Gap(x, y) == IF Less(x, y) THEN Minus(y, x) ELSE Minus(x, y)

\* The greatest of a set of numbers.
Greatest(S) == CHOOSE x \in S : \A y \in S : AtMost(y, x)

\* A faulty variant: only the steps of the first curve are looked at.
KsTestOfFirst(one, two) ==
    Greatest({Gap(KsPrice(one, x), KsPrice(two, x)) : x \in ToSet(one.capacity)})

\* ks_test, of curves that offer the same capacity.
KsTest(one, two) ==
    Greatest({Gap(KsPrice(one, x), KsPrice(two, x)) :
                x \in ToSet(one.capacity) \cup ToSet(two.capacity)})

-----------------------------------------------------------------------------
(* Properties. *)

\* Whatever was scaled, replaced and refused, a plant of the transformed grid, and
\* of the one that the simulation gets, can run between its limits: adjust_pmin
\* sets Pmin anew from the transformed Pmax, and undoes what scale_plant_pmin
\* failed to clip, but for the resources with neither a profile nor a share.
PlantsCanRun ==
    /\ PminAtMostPmax
    /\ \A p \in AdjustedPlants :
          (\/ HasProfile(p[2].type) \/ p[2].type \in DOMAIN Share
           \/ p[1] \notin unclipped) =>
              AtMost(Zero, p[2].pmin) /\ AtMost(p[2].pmin, p[2].pmax)

\* Curves are looked at where no plant has Pmin above Pmax.
Runnable(plants, area) ==
    /\ HasSupplyCurve(plants, area)
    /\ \A p \in InArea(plants, area) : AtMost(p[2].pmin, p[2].pmax)

\* The supply curve of the transformed grid climbs, offers what its plants can
\* give above Pmin, and has under it what the quadratic curves say that this
\* costs, for every number of segments: with capacity and cost scaled by zone
\* and by id, and plants added, nothing is lost between linearize_gencost and
\* the sorted curve.
SupplyCurveCostsTheRange ==
    \A area \in Areas, n \in Segments, plants \in {TransformedPlants} :
        Runnable(plants, area) =>
            \A curve \in {BuildSupplyCurve(SupplySegments(plants, n, area))} :
                LET steps == 1 .. Len(curve.capacity) \div 2
                    width(k) == Minus(curve.capacity[2 * k], curve.capacity[2 * k - 1])
                IN  /\ \A k \in 1 .. Len(curve.price) - 1 :
                          AtMost(curve.price[k], curve.price[k + 1])
                    /\ curve.sum = SumOver(LAMBDA p : Minus(p[2].pmax, p[2].pmin),
                                           InArea(plants, area))
                    /\ SumOver(LAMBDA k : Times(width(k), curve.price[2 * k]), steps)
                         = SumOver(LAMBDA p : Minus(CostAt(p[2], p[2].pmax),
                                                    CostAt(p[2], p[2].pmin)),
                                   InArea(plants, area))

\* The price at which the segments, cheapest first, offer more than x.
PriceAt(segments, x) ==
    LET offered(price) == SumOver(LAMBDA s : s[3].p_diff,
                                  {s \in segments : AtMost(s[3].slope, price)})
        enough == {s[3].slope : s \in {t \in segments : Less(x, offered(t[3].slope))}}
    IN  CHOOSE price \in enough : \A q \in enough : AtMost(price, q)

\* "returns the greatest difference in price between the two supply curves":
\* for the curves of the base grid and of the transformed one, where they offer
\* the same capacity, whatever the number of segments and where they step.
KsTestIsGreatestDifference ==
    \A area \in Areas, n \in Segments, m \in Segments, plants \in {TransformedPlants} :
        Runnable(BasePlants, area) /\ Runnable(plants, area) =>
            \A before \in {SupplySegments(BasePlants, n, area)},
               after \in {SupplySegments(plants, m, area)} :
                \A one \in {BuildSupplyCurve(before)}, two \in {BuildSupplyCurve(after)} :
                    one.sum = two.sum /\ one.sum # Zero =>
                        KsTest(one, two) =
                          Greatest({Gap(PriceAt(before, x), PriceAt(after, x)) :
                                      x \in {y \in ToSet(one.capacity) \cup ToSet(two.capacity) :
                                               Less(y, one.sum)}})
=============================================================================
