---------------------------- MODULE Transmission ----------------------------
(***************************************************************************)
(* The design of transmission upgrades: branches are scaled by hand, behind *)
(* renewable plants (scale_renewable_stubs) and where a scenario that was  *)
(* simulated is congested (scale_congested_mesh_branches), in one change   *)
(* table, generation after generation; the upgrades are then accounted for *)
(* by calculate_mw_miles and, against the base grid, by                    *)
(* calculate_branch_difference and calculate_ac_inv_costs.                 *)
(*                                                                         *)
(* The id of a branch is its place in the table and a new branch takes the *)
(* id after the last one, as in TransformGrid.  A congestion is what mean  *)
(* or quantile make of the shadow prices of the branches.                  *)
(***************************************************************************)
EXTENDS Ratio, SequencesExt

CONSTANTS
    Bus,         \* the zone of each bus
    State,       \* the state of each zone
    Branch,      \* the branches of the base grid: ends, rating, device, length
    Plant,       \* the plants that have profiles: bus, type and capacity
    Fuzz,        \* scale_renewable_stubs: extra capacity
    Increment,   \* scale_congested_mesh_branches: the increment
    BranchCalls, \* arguments of scale_branch_capacity
    PlantCalls,  \* arguments of scale_plant_capacity
    NewBranches, \* arguments of add_branch
    Removals,    \* arguments of remove_branch
    MeshCalls,   \* arguments of scale_congested_mesh_branches
    Congestions, \* the congestions of a simulation, by branch
    None,        \* a key that is not in the change table
    MaxCalls,    \* bound: the calls of a run
    MaxNew,      \* bound: the new branches of a change table
    MaxRefs      \* bound: the scenarios simulated

Types == {Plant[i].type : i \in DOMAIN Plant}
Devices == {"Line", "Transformer", "TransformerWinding"}

ASSUME TransmissionAssumption ==
    /\ Branch # <<>>
    /\ \A b \in DOMAIN Branch :
          /\ {Branch[b].from, Branch[b].to} \subseteq DOMAIN Bus
          /\ Branch[b].from # Branch[b].to
          /\ Branch[b].device \in Devices
    /\ \A i \in DOMAIN Plant : Plant[i].bus \in DOMAIN Bus
    /\ \A e \in DOMAIN Bus : Bus[e] \in DOMAIN State
    /\ Less(Zero, Fuzz) /\ Less(Zero, Increment)
    /\ MaxCalls \in Nat /\ MaxNew \in Nat /\ MaxRefs \in Nat

VARIABLES
    ct,    \* the change table: branch factors, new and removed branches
    gen,   \* the change table: capacity factors of the plants
    refs,  \* the scenarios in Analyze state: change table and congestion
    given, \* history: the largest factor given to a branch other than by meshes
    op,    \* history: the last call
    calls  \* the calls so far

vars == <<ct, gen, refs, given, op, calls>>

\* The key "branch" is in the table when "zone_id" or "branch_id" is.
EmptyTable == [zone |-> None, id |-> None, new_branch |-> <<>>, remove |-> {}]

Init ==
    /\ ct = EmptyTable
    /\ gen = [zone |-> <<>>, id |-> <<>>]
    /\ refs = <<>>
    /\ given = <<>>
    /\ op = "start"
    /\ calls = 0

Put(f, k, v) == [x \in DOMAIN f \cup {k} |-> IF x = k THEN v ELSE f[x]]
Factor(f, k) == IF k \in DOMAIN f THEN f[k] ELSE One

\* A table made with setdefault: one that is not there is empty.
Made(f) == IF f = None THEN <<>> ELSE f

-----------------------------------------------------------------------------
(* TransformGrid *)

AllBranches(t) == Branch \o t.new_branch

Ends(line) == {line.from, line.to}
Inside(line, z) == \A e \in Ends(line) : Bus[e] = z

\* _scale_branch_by_zone raises KeyError for a zone with no branch inside, and
\* _scale_branch_by_id for an id that is not in the table.
Applies(t) ==
    /\ \A z \in DOMAIN Made(t.zone) : \E b \in DOMAIN Branch : Inside(Branch[b], z)
    /\ DOMAIN Made(t.id) \subseteq DOMAIN AllBranches(t)

\* Factors by zone reach the base branches inside it, before branches are added.
ByZone(t, b) ==
    IF b \in DOMAIN Branch
    THEN ProductOver(LAMBDA z : IF Inside(Branch[b], z) THEN t.zone[z] ELSE One,
                     DOMAIN Made(t.zone))
    ELSE One

\* The ratings of the transformed grid; branches are removed last.
TransformedRate(t, b) ==
    Times(AllBranches(t)[b].rate, Times(ByZone(t, b), Factor(Made(t.id), b)))

TransformedIds(t) == DOMAIN AllBranches(t) \ t.remove

TransformedBranch(t) ==
    [b \in TransformedIds(t) |-> [AllBranches(t)[b] EXCEPT !.rate = TransformedRate(t, b)]]

-----------------------------------------------------------------------------
(* scale_renewable_stubs *)

FindBranchesConnectedToBus(bus) == {b \in DOMAIN Branch : bus \in Ends(Branch[b])}

FindFirstDegreeBranches(b) ==
    {c \in DOMAIN Branch : Ends(Branch[c]) \cap Ends(Branch[b]) # {}}

\* A faulty variant: a stub ends after one branch.
OneBranchStub(bus) ==
    LET connected == FindBranchesConnectedToBus(bus)
    IN  IF Cardinality(connected) = 1 THEN connected ELSE {}

\* _find_stub_degree: the branches of the stub; none, one or two.
FindStubDegree(bus) ==
    LET connected == FindBranchesConnectedToBus(bus)
        second == UNION {FindFirstDegreeBranches(b) : b \in connected}
    IN  IF Cardinality(connected) # 1 THEN {}
        ELSE IF Cardinality(second) = 2 THEN second
        ELSE connected

Stub == [e \in DOMAIN Bus |-> FindStubDegree(e)]

FindCapacityAtBus(bus, r) ==
    SumOver(LAMBDA i : Plant[i].pmax,
            {i \in DOMAIN Plant : Plant[i].bus = bus /\ Plant[i].type = r})

\* gen_scale_factor: zone times plant.
GenScaleFactor(i) ==
    Times(Factor(gen.zone, <<Plant[i].type, Bus[Plant[i].bus]>>),
          Factor(gen.id, <<Plant[i].type, i>>))

\* The entry for plant i replaces the one that branch b has.
ScaleStub(f, i) ==
    LET capacity == FindCapacityAtBus(Plant[i].bus, Plant[i].type)
        needed == Times(capacity, GenScaleFactor(i))
        short == {b \in Stub[Plant[i].bus] :
                    /\ Less(Zero, capacity) /\ Branch[b].rate # Zero
                    /\ Less(Branch[b].rate, needed)}
    IN  [b \in DOMAIN f \cup short |->
           IF b \in short THEN Over(Plus(needed, Fuzz), Branch[b].rate) ELSE f[b]]

\* The resources are a set, taken in any order, and the plants of each in the
\* order of the table.
PlantsOf(r) == SelectSeq([i \in DOMAIN Plant |-> i], LAMBDA i : Plant[i].type = r)

Orders == {s \in [1 .. Cardinality(Types) -> Types] : \A r \in Types : \E k \in DOMAIN s : s[k] = r}

ScaleStubs(f, order) ==
    FoldLeft(LAMBDA g, r : FoldLeft(ScaleStub, g, PlantsOf(r)), f, order)

Call(name) == calls < MaxCalls /\ calls' = calls + 1 /\ op' = name

\* The largest factors given so far, with those that f changes.
Given(f) ==
    LET changed == {b \in DOMAIN f : f[b] # Factor(Made(ct.id), b)}
    IN  [b \in DOMAIN given \cup changed |->
           IF b \in changed THEN MaxOf(Factor(given, b), f[b]) ELSE given[b]]

ScaleRenewableStubs(order) ==
    LET scaled == ScaleStubs(Made(ct.id), order)
    IN  /\ Call("stubs")
        /\ ct' = [ct EXCEPT !.id = scaled]
        /\ given' = Given(scaled)
        /\ UNCHANGED <<gen, refs>>

\* With inplace=False the copy is shallow: a table that has the key "branch"
\* shares its entry with the copy, and is changed all the same.
ScaleRenewableStubsCopy(order) ==
    LET shared == ct.zone # None \/ ct.id # None
        scaled == ScaleStubs(Made(ct.id), order)
    IN  /\ Call("copy")
        /\ ct' = IF shared THEN [ct EXCEPT !.id = scaled] ELSE ct
        /\ given' = IF shared THEN Given(scaled) ELSE given
        /\ UNCHANGED <<gen, refs>>

-----------------------------------------------------------------------------
(* scale_congested_mesh_branches *)

\* get_branches_by_area, with load zones as areas: a branch between two of them
\* is bridging.
GetBranchesByArea(areas, method) ==
    LET within(b, z) == Inside(Branch[b], z)
        across(b, z) == (Bus[Branch[b].from] = z) # (Bus[Branch[b].to] = z)
    IN  {b \in DOMAIN Branch : \E z \in areas :
           \/ method \in {"internal", "either"} /\ within(b, z)
           \/ method \in {"bridging", "either"} /\ across(b, z)}

\* A branch's length and zero_length_value.
Length(line) == IF line.length = 0 THEN One ELSE Whole(line.length)

\* _calculate_ac_inv_costs of one branch, at one price per MW and per MW-mile.
UpgradeCost(line) ==
    IF line.device = "Line" THEN Times(line.rate, Whole(line.length)) ELSE line.rate

\* The ratio by which branches are ranked.  Ratings are those of the reference
\* grid but for the factors by id; costs are those of the base grid, where a
\* branch that is new in the reference has none.
BranchMetric(ref, b, metric) ==
    LET line == AllBranches(ref.ct)[b]
        rating == Over(TransformedRate(ref.ct, b), Factor(Made(ref.ct.id), b))
        congestion == Whole(ref.congestion[b])
    IN  CASE metric = "branches" -> congestion
          [] metric = "MW" -> Over(congestion, rating)
          [] metric = "MWmiles" -> Over(congestion, Times(rating, Length(line)))
          [] metric = "cost" -> IF b \in DOMAIN Branch
                                THEN Over(congestion, UpgradeCost(Branch[b])) ELSE NaN

\* sort_values: NaN comes last, so that tail takes it first.
RanksBelow(x, y) == Less(x, y) \/ (x # NaN /\ y = NaN)

\* _construct_composite_allow_list raises for ids that have no shadow prices.
CongestedBranches(ref, call) ==
    {b \in DOMAIN ref.congestion :
        /\ ref.congestion[b] > 0
        /\ call.allow # None => b \in call.allow
        /\ call.deny # None => b \notin call.deny}

ListsAreValid(ref, call) ==
    /\ call.allow = None \/ call.deny = None
    /\ \A list \in {call.allow, call.deny} : list # None => list \subseteq DOMAIN ref.congestion

\* _identify_mesh_branch_upgrades: the n branches that rank highest, one of the
\* possible choices where branches tie.
IdentifyMeshBranchUpgrades(ref, call) ==
    LET m(b) == BranchMetric(ref, b, call.metric)
        congested == CongestedBranches(ref, call)
    IN  {s \in SUBSET congested :
           /\ Cardinality(s) = call.n
           /\ \A b \in s : \A c \in congested \ s : ~RanksBelow(m(b), m(c))}

\* Faulty variants: the increment goes on top of the table's own factors; the
\* reference's factors replace them.
IncrementOwn(f, ref, selected) ==
    [b \in DOMAIN f \cup selected |->
       IF b \in selected THEN Plus(Factor(f, b), Increment) ELSE f[b]]

IncrementOver(f, ref, selected) ==
    [b \in DOMAIN f \cup DOMAIN ref \cup selected |->
       IF b \in selected THEN Plus(Factor(ref, b), Increment)
       ELSE IF b \in DOMAIN ref THEN ref[b] ELSE f[b]]

\* _increment_branch_scaling: the reference's factors, those of the selected
\* branches incremented, unless the table's own are greater.
IncrementBranchScaling(f, ref, selected) ==
    LET scaled == [b \in DOMAIN ref \cup selected |->
                     IF b \in selected THEN Plus(Factor(ref, b), Increment) ELSE ref[b]]
    IN  [b \in DOMAIN f \cup DOMAIN scaled |->
           IF b \notin DOMAIN scaled THEN f[b]
           ELSE IF b \notin DOMAIN f THEN scaled[b]
           ELSE MaxOf(f[b], scaled[b])]

ScaleCongestedMeshBranches(k, call) ==
    /\ Call("mesh")
    /\ ListsAreValid(refs[k], call)
    /\ \E s \in IdentifyMeshBranchUpgrades(refs[k], call) :
          ct' = [ct EXCEPT !.id = IncrementBranchScaling(Made(@), Made(refs[k].ct.id), s)]
    /\ UNCHANGED <<gen, refs, given>>

\* ValueError: the lists are not valid, or too few branches are congested.
RaiseOnMesh(k, call) ==
    /\ Call("raise")
    /\ ~ListsAreValid(refs[k], call) \/ Cardinality(CongestedBranches(refs[k], call)) < call.n
    /\ UNCHANGED <<ct, gen, refs, given>>

-----------------------------------------------------------------------------
(* The change table by hand, and the simulation. *)

\* A zone without plants, or an id that is not in the transformed table.
Unknown(call) ==
    \/ call.zone # None /\ \A i \in DOMAIN Plant : Bus[Plant[i].bus] # call.zone
    \/ call.id # None /\ call.id \notin TransformedIds(ct)

\* scale_branch_capacity; what is unknown removes the entry "branch".
ScaleBranchCapacity(call) ==
    LET zones == IF call.zone = None THEN ct.zone ELSE Put(Made(ct.zone), call.zone, call.factor)
        ids == IF call.id = None THEN ct.id ELSE Put(Made(ct.id), call.id, call.factor)
    IN  /\ Call("branch")
        /\ Applies(ct)
        /\ ct' = IF Unknown(call) THEN [ct EXCEPT !.zone = None, !.id = None]
                 ELSE [ct EXCEPT !.zone = zones, !.id = ids]
        /\ given' = IF Unknown(call) \/ call.id = None THEN given ELSE Given(ids)
        /\ UNCHANGED <<gen, refs>>

\* scale_plant_capacity, with a zone and a plant that it accepts.
ScalePlantCapacity(call) ==
    /\ Call("plant")
    /\ gen' = [gen EXCEPT ![call.by] = Put(@, <<call.type, call.key>>, call.factor)]
    /\ UNCHANGED <<ct, refs, given>>

AddBranch(line) ==
    /\ Call("branch")
    /\ Applies(ct) /\ Len(ct.new_branch) < MaxNew
    /\ ct' = [ct EXCEPT !.new_branch = Append(@, line)]
    /\ UNCHANGED <<gen, refs, given>>

RemoveBranch(b) ==
    /\ Call("branch")
    /\ Applies(ct) /\ b \in DOMAIN AllBranches(ct) \ ct.remove
    /\ ct' = [ct EXCEPT !.remove = @ \cup {b}]
    /\ UNCHANGED <<gen, refs, given>>

\* The scenario with this change table is simulated; its shadow prices are
\* those of the branches in its grid.
Simulate(congestion) ==
    /\ Call("simulate")
    /\ Len(refs) < MaxRefs /\ Applies(ct)
    /\ refs' = Append(refs, [ct |-> ct, congestion |->
                 [b \in TransformedIds(ct) |-> congestion[b]]])
    /\ UNCHANGED <<ct, gen, given>>

\* The next scenario starts from an empty change table.
NewScenario ==
    /\ Call("new")
    /\ ct' = EmptyTable
    /\ gen' = [zone |-> <<>>, id |-> <<>>]
    /\ UNCHANGED <<refs, given>>

Next ==
    \/ \E order \in Orders : ScaleRenewableStubs(order) \/ ScaleRenewableStubsCopy(order)
    \/ \E k \in DOMAIN refs, call \in MeshCalls :
          ScaleCongestedMeshBranches(k, call) \/ RaiseOnMesh(k, call)
    \/ \E call \in BranchCalls : ScaleBranchCapacity(call)
    \/ \E call \in PlantCalls : ScalePlantCapacity(call)
    \/ \E line \in NewBranches : AddBranch(line)
    \/ \E b \in Removals : RemoveBranch(b)
    \/ \E c \in Congestions : Simulate(c)
    \/ NewScenario

Spec == Init /\ [][Next]_vars

-----------------------------------------------------------------------------
(* The accounts. *)

Upgrades(mw_miles, transformer_mw, number) ==
    [mw_miles |-> mw_miles, transformer_mw |-> transformer_mw, number |-> number]

LinesIn(t, ids) == {b \in ids : AllBranches(t)[b].device = "Line"}

\* What lines and transformers add up to, given the capacity upgraded at each.
AddUp(t, capacity) ==
    LET lines == LinesIn(t, DOMAIN capacity)
    IN  Upgrades(SumOver(LAMBDA b : Times(capacity[b], Whole(AllBranches(t)[b].length)), lines),
                 SumOver(LAMBDA b : capacity[b], DOMAIN capacity \ lines),
                 Cardinality(DOMAIN capacity))

\* A faulty variant: a factor of one counts as an upgrade.
UpgradedWhole(t, b) == TransformedRate(t, b)

UpgradedCapacity(t, b) ==
    LET rate == TransformedRate(t, b)
        scale == t.id[b]
    IN  IF b \in DOMAIN Branch THEN Times(Over(rate, scale), Minus(scale, One)) ELSE rate

\* _calculate_mw_miles; it raises KeyError when a branch with a factor is removed.
Countable(t) == Applies(t) /\ DOMAIN Made(t.id) \cap t.remove = {}

UpgradedIds(t) == DOMAIN t.id \cup (TransformedIds(t) \ DOMAIN Branch)

CalculateMwMiles(t) ==
    IF t.id = None THEN Upgrades(Zero, Zero, 0)
    ELSE AddUp(t, [b \in UpgradedIds(t) |-> UpgradedCapacity(t, b)])

\* _classify_interstate_intrastate: the branches with a factor, by their ends.
ClassifyInterstateIntrastate(t) ==
    LET ends(b) == {State[Bus[e]] : e \in Ends(AllBranches(t)[b])}
        intra == {b \in DOMAIN Made(t.id) : Cardinality(ends(b)) = 1}
    IN  [interstate |-> DOMAIN Made(t.id) \ intra, intrastate |-> intra]

\* calculate_branch_difference with the base grid: a branch that one of the two
\* tables does not have counts as zero there.
CalculateBranchDifference(t) ==
    [b \in DOMAIN Branch \cup TransformedIds(t) |->
       Minus(IF b \in TransformedIds(t) THEN TransformedRate(t, b) ELSE Zero,
             IF b \in DOMAIN Branch THEN Branch[b].rate ELSE Zero)]

\* calculate_ac_inv_costs puts the differences into the transformed table, which
\* must have as many rows: no base branch is removed.  Costs are at one price.
CanBePriced(t) == DOMAIN CalculateBranchDifference(t) = TransformedIds(t)

CalculateAcInvCosts(t) ==
    LET diff == CalculateBranchDifference(t)
    IN  AddUp(t, [b \in {c \in DOMAIN diff : diff[c] # Zero} |-> diff[b]])

\* A faulty variant: only zones at which a branch starts and one ends.
InterzoneOfBoth(table, z) ==
    LET between == {b \in DOMAIN table : Bus[table[b].from] # Bus[table[b].to]}
        from == {b \in between : Bus[table[b].from] = z}
        to == {b \in between : Bus[table[b].to] = z}
    IN  IF from = {} \/ to = {} THEN Zero
        ELSE SumOver(LAMBDA b : table[b].rate, from \cup to)

\* calculate_interzone_capacity, of zone z.
InterzoneCapacity(table, z) ==
    LET between == {b \in DOMAIN table : Bus[table[b].from] # Bus[table[b].to]}
        from == {b \in between : Bus[table[b].from] = z}
        to == {b \in between : Bus[table[b].to] = z}
        capacity(ids) == SumOver(LAMBDA b : table[b].rate, ids)
    IN  Plus(capacity(from), capacity(to))

-----------------------------------------------------------------------------
(* Properties. *)

\* The plants with capacity behind branch b: at a bus that, by itself or with
\* another one, has no other branch to the rest of the grid.
Behind ==
    [b \in DOMAIN Branch |->
       {i \in DOMAIN Plant :
          /\ Plant[i].pmax # Zero
          /\ \E e \in DOMAIN Bus :
                {c \in DOMAIN Branch : Cardinality(Ends(Branch[c]) \cap {Plant[i].bus, e}) = 1} = {b}}]

\* They are at one bus, of one type, and scaled alike.
Uniform(plants) ==
    \A i, j \in plants :
        /\ Plant[i].bus = Plant[j].bus /\ Plant[i].type = Plant[j].type
        /\ GenScaleFactor(i) = GenScaleFactor(j)

\* "scale up branch capacity ... to match generator capacity": once
\* scale_renewable_stubs has run, a stub carries the capacity of the plants
\* behind it in the transformed grid, whatever factors were given to branches
\* and plants before.  Not so when plants of several types or with several
\* factors share a stub, where each replaces the entry of the one before, and
\* when a factor of the branch that is below one stays.
StubsCarryTheirPlants ==
    op = "stubs" =>
        \A b \in DOMAIN Branch \ ct.remove :
            \/ Branch[b].rate = Zero \/ ~Uniform(Behind[b])
            \/ Less(ByZone(ct, b), One) \/ Less(Factor(ct.id, b), One)
            \/ AtMost(SumOver(LAMBDA i : Times(Plant[i].pmax, GenScaleFactor(i)), Behind[b]),
                      TransformedRate(ct, b))

\* A branch is upgraded at most once for each generation of simulations: the
\* increments are those of the reference and one more, so that calling
\* scale_congested_mesh_branches again for the same reference, or for an older
\* one, does not compound them.
OneIncrementPerGeneration ==
    \A b \in DOMAIN Made(ct.id) :
        AtMost(ct.id[b], Plus(MaxOf(One, Factor(given, b)), Times(Increment, Whole(Len(refs)))))

\* "unless original scaling is greater": an upgrade for congestion never takes
\* away capacity that the table or the reference gives; only the factor of a
\* reference for a branch that the table does not mention may.
MeshKeepsUpgrades ==
    [][op' = "mesh" =>
         \A b \in DOMAIN Made(ct.id) : AtMost(ct.id[b], ct'.id[b])]_vars

\* calculate_mw_miles counts what the comparison with the base grid shows and
\* what calculate_ac_inv_costs prices, for factors by id, which is all that it
\* supports, and once the table has the key "branch_id"; the classification by
\* state covers the same upgrades but for the new branches without a factor.
MilesAndCostsAgree ==
    (ct.id # None /\ Countable(ct) /\ CanBePriced(ct) /\ ct.zone = None) =>
        LET counted == CalculateMwMiles(ct)
            priced == CalculateAcInvCosts(ct)
            states == ClassifyInterstateIntrastate(ct)
            unscaled == TransformedIds(ct) \ (DOMAIN Branch \cup DOMAIN ct.id)
        IN  /\ counted.mw_miles = priced.mw_miles
            /\ counted.transformer_mw = priced.transformer_mw
            /\ counted.number = Cardinality(states.interstate \cup states.intrastate)
                                   + Cardinality(unscaled)

\* Of the base grid: the capacity between a zone and the others, and the branches.
BaseInterzone == [z \in DOMAIN State |-> InterzoneCapacity(Branch, z)]
Bridging == [z \in DOMAIN State |-> GetBranchesByArea({z}, "bridging")]

\* The capacity between a zone and the others changes by what the comparison
\* shows for the branches that bridge it, and by nothing else: factors by zone
\* never reach a branch that leaves the zone.
InterzoneChangesAtBridges ==
    Applies(ct) =>
        \A table \in {TransformedBranch(ct)}, diff \in {CalculateBranchDifference(ct)},
           z \in DOMAIN State :
            LET new == {b \in DOMAIN diff \ DOMAIN Branch :
                          /\ z \in {Bus[e] : e \in Ends(AllBranches(ct)[b])}
                          /\ ~Inside(AllBranches(ct)[b], z)}
            IN  Minus(InterzoneCapacity(table, z), BaseInterzone[z])
                  = SumOver(LAMBDA b : diff[b], Bridging[z] \cup new)

\* Every account of the upgrades of one change table tells of the same capacity.
UpgradeAccountsAgree == MilesAndCostsAgree /\ InterzoneChangesAtBridges
=============================================================================
