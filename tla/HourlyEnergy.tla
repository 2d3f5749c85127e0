---------------------------- MODULE HourlyEnergy ----------------------------
(***************************************************************************)
(* What is computed from demand and profiles hour by hour, with the change *)
(* table in them: the demand that the simulation could serve               *)
(* (Analyze.get_demand), and the least share of renewable energy that has  *)
(* to be curtailed (temporal_curtailment).                                 *)
(***************************************************************************)
EXTENDS Profiles, SupplyCurves

CONSTANTS
    Hours,            \* the number of hours of the scenario
    Interval,         \* the hours of an interval of the simulation
    BaseDemand,       \* the stored demand profile, by zone and hour
    Normal,           \* the stored profiles of the base plants, by hour
    Infeasibilities,  \* values of the field infeasibilities of ScenarioList.csv
    CurtailmentCalls  \* arguments of temporal_curtailment

Hour == 0 .. Hours - 1

ASSUME HourlyEnergyAssumption ==
    /\ Hours \in Nat \ {0} /\ Interval \in Nat \ {0}
    /\ DOMAIN BaseDemand = Zones \X Hour
    /\ DOMAIN Normal = {i \in DOMAIN Plant : HasProfile(Plant[i].type)} \X Hour
    /\ \A x \in DOMAIN Normal : AtMost(Zero, Normal[x]) /\ AtMost(Normal[x], One)

\* TransformProfile.get_profile: demand (without electrification, which raises
\* AttributeError here).
Demand(z, h) == Times(BaseDemand[<<z, h>>], DemandFactor(z))

SummedDemand(h) == SumOver(LAMBDA z : Demand(z, h), Zones)

\* all_profiles: the plants with profiles, the hours and the values.
AllProfiles ==
    UNION {LET profile == GetRenewableProfile(g)
           IN  {<<i, h, Times(Normal[<<profile[i].of, h>>], profile[i].times)>> :
                  i \in DOMAIN profile, h \in Hour} :
           g \in DOMAIN Group}

-----------------------------------------------------------------------------
(* Analyze.get_demand *)

\* _parse_infeasibilities: the field lists intervals and percentages.
ParseInfeasibilities(field) ==
    FoldLeft(LAMBDA d, entry : Put(d, entry[1], entry[2]), <<>>, field)

\* The number of dates; the interval of an entry that has no date is IndexError.
Dates == (Hours - 1) \div Interval + 1

\* A faulty variant: the slice ends where the next interval begins.
ReducedToNext(k, h) == k * Interval <= h /\ h <= k * Interval + Interval

\* demand[start:end]; both ends of a slice of dates belong to it.
Reduced(k, h) == k * Interval <= h /\ h <= k * Interval + Interval - 1

\* get_demand(original=False), for infeasibilities that are parsed.
GetDemand(infeasibilities, z, h) ==
    Times(Demand(z, h),
          ProductOver(LAMBDA k : Minus(One, Frac(infeasibilities[k], 100)),
                      {k \in DOMAIN infeasibilities : Reduced(k, h)}))

-----------------------------------------------------------------------------
(* temporal_curtailment *)

TypeOf(i) == AllPlants[i].type
Types == {TypeOf(i) : i \in DOMAIN AllPlants}

IsShare(v) == v = None \/ (AtMost(Zero, v) /\ AtMost(v, One))

\* The plants without an assumption of their own, and their types.
BasePlantIds(call) == DOMAIN AllPlants \ DOMAIN call.pmin_by_id
BaseTypes(call) == {TypeOf(i) : i \in BasePlantIds(call)}
OfType(call, r) == {i \in BasePlantIds(call) : TypeOf(i) = r}

\* What is checked.  A curtailable type of which no plant with a profile is left
\* has no column in summed_profiles: KeyError.
Curtails(call) ==
    /\ \A r \in DOMAIN call.pmin_by_type : r \in Types /\ IsShare(call.pmin_by_type[r])
    /\ \A i \in DOMAIN call.pmin_by_id : i \in DOMAIN AllPlants /\ IsShare(call.pmin_by_id[i])
    /\ \A r \in call.curtailable : r \in BaseTypes(call) /\ HasProfile(r)

\* Sums over plants, of a column of the plant table and of the profiles.
SumOf(plant, column, ids) ==
    SumOver(LAMBDA p : p[2][column], {p \in plant : p[1] \in ids})

SummedProfiles(profiles, ids, h) ==
    SumOver(LAMBDA x : x[3], {x \in profiles : x[1] \in ids /\ x[2] = h})

\* pmin_dict
PminOf(call, r) ==
    IF r \in DOMAIN call.pmin_by_type THEN call.pmin_by_type[r]
    ELSE IF r \in DOMAIN Share THEN Share[r] ELSE None

\* What plants of one type add to firm_generation under an assumption.
Firm(plant, profiles, r, ids, pmin, h) ==
    IF pmin # None THEN Times(pmin, SumOf(plant, "pmax", ids))
    ELSE IF HasProfile(r) THEN SummedProfiles(profiles, ids, h)
    ELSE SumOf(plant, "pmin", ids)

\* Types that are not curtailable, then plants with an assumption of their own.
FirmGeneration(call, plant, profiles, h) ==
    Plus(SumOver(LAMBDA r : Firm(plant, profiles, r, OfType(call, r), PminOf(call, r), h),
                 BaseTypes(call) \ call.curtailable),
         SumOver(LAMBDA i : Firm(plant, profiles, TypeOf(i), {i}, call.pmin_by_id[i], h),
                 DOMAIN call.pmin_by_id))

\* A faulty variant: plants with an assumption of their own are curtailed too.
TotalOfAllPlants(call, profiles, h) ==
    SummedProfiles(profiles, {i \in DOMAIN AllPlants : TypeOf(i) \in call.curtailable}, h)

TotalCurtailable(call, profiles, h) ==
    SumOver(LAMBDA r : SummedProfiles(profiles, OfType(call, r), h), call.curtailable)

TemporalCurtailment(call, plant, profiles) ==
    LET total == {<<h, TotalCurtailable(call, profiles, h)>> : h \in Hour}
        net(h) == Minus(SummedDemand(h), FirmGeneration(call, plant, profiles, h))
    IN  Minus(One, Over(SumOver(LAMBDA x : MinOf(net(x[1]), x[2]), total),
                        SumOver(LAMBDA x : x[2], total)))

-----------------------------------------------------------------------------
(* Properties. *)

\* "the decrease in percent (%) applied to the original demand profile": of the
\* energy of an interval, get_demand(original=False) takes the percentage that
\* the engine has reported for it, and nothing else, wherever the scenario ends
\* and however demand is scaled.
ReportedShareIsTaken ==
    \A infeasibilities \in {ParseInfeasibilities(field) : field \in Infeasibilities},
       k \in 0 .. Dates - 1, z \in Zones :
        LET percent == IF k \in DOMAIN infeasibilities THEN infeasibilities[k] ELSE 0
            hours == {h \in Hour : h \div Interval = k}
        IN  SumOver(LAMBDA h : Minus(Demand(z, h), GetDemand(infeasibilities, z, h)), hours)
              = Times(Frac(percent, 100), SumOver(LAMBDA h : Demand(z, h), hours))

\* What a plant runs at in any case.
MustRun(call, p, profiles, h) ==
    LET pmin == IF p[1] \in DOMAIN call.pmin_by_id THEN call.pmin_by_id[p[1]]
                ELSE IF p[2].type \in call.curtailable THEN Zero
                ELSE PminOf(call, p[2].type)
    IN  IF pmin # None THEN Times(pmin, p[2].pmax)
        ELSE IF HasProfile(p[2].type) THEN SummedProfiles(profiles, {p[1]}, h)
        ELSE p[2].pmin

\* "share of curtailable resources that will be curtailed": what is curtailed is
\* what exceeds the demand that is left, every plant counting once, as firm or as
\* curtailable, whether it is new or scaled, and has an assumption of its own or
\* that of its type.  The share is not negative, and greater than 1 only when
\* the plants that have to run exceed demand by themselves.
CurtailedIsSurplus ==
    \A plant \in {TransformedPlants}, profiles \in {AllProfiles} :
        \A call \in {c \in CurtailmentCalls : Curtails(c)} :
          LET free == {i \in BasePlantIds(call) : TypeOf(i) \in call.curtailable}
              hours == {[offered |-> SummedProfiles(profiles, free, h), hour |-> h,
                         left |-> Minus(SummedDemand(h),
                                        SumOver(LAMBDA p : MustRun(call, p, profiles, h), plant))] :
                        h \in Hour}
              all == SumOver(LAMBDA x : x.offered, hours)
              share == TemporalCurtailment(call, plant, profiles)
          IN  all # Zero =>
                /\ Times(share, all) =
                     SumOver(LAMBDA x : MaxOf(Zero, Minus(x.offered, x.left)), hours)
                /\ AtMost(Zero, share)
                /\ Less(One, share) => \E x \in hours : Less(x.left, Zero)
=============================================================================
