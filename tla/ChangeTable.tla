----------------------------- MODULE ChangeTable -----------------------------
(***************************************************************************)
(* A ChangeTable and the methods that users call on it, in any order.      *)
(*                                                                         *)
(* A method checks its arguments against the tables that the change table  *)
(* made so far would lead to (_get_transformed_df), which it gets from the *)
(* base grid, from a cache, or by applying the whole change table, which   *)
(* may raise.  The cache is keyed by a part of the change table.  Each     *)
(* call here has one element; a call with several is a sequence of those   *)
(* as far as the checks are concerned.                                     *)
(***************************************************************************)
EXTENDS TransformGrid

CONSTANTS
    NewBuses,   \* arguments of add_bus
    NewLines,   \* arguments of add_branch and add_dcline
    NewPlants,  \* arguments of add_plant
    Scalings,   \* factors of scale_plant_capacity
    Clearable,  \* arguments of clear
    MaxCalls    \* bound: the calls of a run

ASSUME ChangeTableAssumption ==
    /\ NewBuses \subseteq Buses
    /\ NewLines \subseteq Lines
    /\ NewPlants \subseteq Plants
    /\ Scalings \subseteq {0, 1}
    /\ Clearable \subseteq {"all", "branch", "bus", "dcline", "plant", "storage"}
    /\ MaxCalls \in Nat

VARIABLES
    ct,       \* self.ct
    known,    \* the keys of _new_element_caches, but for plants
    plants,   \* the cache of plant tables
    cleared,  \* history: buses or branches were cleared, and not everything since
    calls     \* the calls so far

vars == <<ct, known, plants, cleared, calls>>

Tables == {"bus", "branch", "dcline", "storage"}

\* Ids that a run can come to.
BusIds == 1 .. Len(Bus) + MaxCalls
BranchIds == 1 .. Len(Branch) + MaxCalls
DclineIds == 1 .. Len(Dcline) + MaxCalls
PlantIds == 1 .. Len(Plant) + MaxCalls

EmptyTable ==
    [new_bus |-> <<>>, new_branch |-> <<>>, new_dcline |-> <<>>,
     new_plant |-> <<>>, storage |-> <<>>,
     remove_bus |-> {}, remove_branch |-> {}, remove_dcline |-> {},
     remove_plant |-> {},
     branch |-> [zones |-> {}, ids |-> {}], dcline |-> "absent",
     resources |-> {}, zone |-> <<>>, plant |-> <<>>]

TypeOK ==
    /\ ct.new_bus \in Seq(NewBuses)
    /\ ct.new_branch \in Seq(NewLines)
    /\ ct.new_dcline \in Seq(NewLines)
    /\ ct.new_plant \in Seq(NewPlants)
    /\ ct.storage \in Seq(BusIds)
    /\ ct.remove_bus \subseteq DOMAIN AllBuses(ct)
    /\ ct.remove_branch \subseteq DOMAIN AllBranches(ct)
    /\ ct.remove_dcline \subseteq DclineIds
    /\ ct.remove_plant \subseteq PlantIds
    /\ ct.branch \in [zones : SUBSET Zones, ids : SUBSET BranchIds]
    /\ ct.dcline \in {"absent", "empty", "ids"}
    /\ ct.resources \subseteq Resources
    /\ DOMAIN ct.zone \subseteq Resources \X Zones
    /\ DOMAIN ct.plant \subseteq Resources \X PlantIds
    /\ cleared \in BOOLEAN
    /\ calls \in 0 .. MaxCalls

Init ==
    /\ ct = EmptyTable
    /\ known = [t \in Tables |-> {}]
    /\ plants = <<>>
    /\ cleared = FALSE
    /\ calls = 0

-----------------------------------------------------------------------------
\* A dictionary with one more entry, and without the entries of a resource.
Put(f, k, v) == [x \in DOMAIN f \cup {k} |-> IF x = k THEN v ELSE f[x]]
Without(f, r) == [x \in {y \in DOMAIN f : y[1] # r} |-> f[x]]

\* _get_transformed_df: the part of the change table that the cache looks at.
Key(t, c) ==
    CASE t = "bus" -> <<c.new_bus, c.remove_bus>>
      [] t = "branch" -> <<c.new_branch, c.remove_branch>>
      [] t = "dcline" -> <<c.new_dcline, c.remove_dcline>>
      [] t = "storage" -> <<c.storage, {}>>

Modified(t, c) == Key(t, c) # <<<<>>, {}>>

\* The table can be had: from the base grid, from the cache or by applying c.
Available(t, c) == ~Modified(t, c) \/ Key(t, c) \in known[t] \/ ~Fails(c)

\* The caches after the tables ts have been asked for.
Remember(ts, c) ==
    known' = [t \in Tables |->
                IF t \in ts /\ Modified(t, c) /\ ~Fails(c)
                THEN known[t] \cup {Key(t, c)} ELSE known[t]]

\* For plants the factors of all resources are part of the key, in the order of
\* the resources, but not which resource they are of.
\* (Those by zone come first here; in the code, those that were given first.)
Factors(c, r) ==
    LET zs == {z \in Zones : <<r, z>> \in DOMAIN c.zone}
        ps == {i \in PlantIds : <<r, i>> \in DOMAIN c.plant}
    IN  (IF zs = {} THEN <<>>
         ELSE << <<"zone_id", [z \in zs |-> c.zone[<<r, z>>]]>> >>)
        \o (IF ps = {} THEN <<>>
            ELSE << <<"plant_id", [i \in ps |-> c.plant[<<r, i>>]]>> >>)

AllFactors(c) ==
    LET upTo[k \in 0 .. Len(Types)] ==
          IF k = 0 THEN <<>> ELSE upTo[k - 1] \o Factors(c, Types[k])
    IN  upTo[Len(Types)]

PlantKey(c) == <<c.new_plant, AllFactors(c)>>

PlantsModified(c) == c.new_plant # <<>> \/ c.resources # {}

\* Building the key raises when plants are removed: a set has no items().
PlantsAvailable(c) ==
    /\ c.remove_plant = {}
    /\ ~PlantsModified(c) \/ PlantKey(c) \in DOMAIN plants \/ ~Fails(c)

PlantTable(c) ==
    IF PlantsModified(c) /\ PlantKey(c) \in DOMAIN plants
    THEN plants[PlantKey(c)] ELSE ScaledPlants(c)

RememberPlants(c) ==
    plants' = IF PlantsModified(c) /\ PlantsAvailable(c)
              THEN Put(plants, PlantKey(c), PlantTable(c)) ELSE plants

-----------------------------------------------------------------------------
\* A call leaves the change table c.  One that raises, or prints why and gives
\* up, often leaves the table it found, but not always.
Call(c) ==
    /\ calls < MaxCalls
    /\ calls' = calls + 1
    /\ ct' = c

AddBus(b) ==
    /\ Call([ct EXCEPT !.new_bus = Append(@, b)])
    /\ UNCHANGED <<known, plants, cleared>>

\* The buses at which an element can be put, if the table can be had.
BusTable == Drop(AllBuses(ct), ct.remove_bus)
HasBus(b) == Available("bus", ct) /\ b \in DOMAIN BusTable

\* _add_line: what is asked of a new line, and of a branch in addition.
ValidLine(line) ==
    /\ HasBus(line.from) /\ HasBus(line.to)
    /\ line.from # line.to
    /\ BusTable[line.from].place # BusTable[line.to].place

SameInterconnect(line) ==
    Interconnect[BusTable[line.from].zone] = Interconnect[BusTable[line.to].zone]

AddBranch(line) ==
    LET ok == ValidLine(line) /\ SameInterconnect(line)
    IN  /\ Call(IF ok THEN [ct EXCEPT !.new_branch = Append(@, line)] ELSE ct)
        /\ Remember({"bus"}, ct)
        /\ UNCHANGED <<plants, cleared>>

AddDcline(line) ==
    LET ok == ValidLine(line)
    IN  /\ Call(IF ok THEN [ct EXCEPT !.new_dcline = Append(@, line)] ELSE ct)
        /\ Remember({"bus"}, ct)
        /\ UNCHANGED <<plants, cleared>>

\* A faulty variant: the bus of a new plant is not looked up.
AddPlantAnywhere(p) ==
    /\ Call([ct EXCEPT !.new_plant = Append(@, p)])
    /\ UNCHANGED <<known, plants, cleared>>

AddPlant(p) ==
    LET ok == HasBus(p.bus)
    IN  /\ Call(IF ok THEN [ct EXCEPT !.new_plant = Append(@, p)] ELSE ct)
        /\ Remember({"bus"}, ct)
        /\ UNCHANGED <<plants, cleared>>

AddStorageCapacity(b) ==
    LET ok == HasBus(b)
    IN  /\ Call(IF ok THEN [ct EXCEPT !.storage = Append(@, b)] ELSE ct)
        /\ Remember({"bus"}, ct)
        /\ UNCHANGED <<plants, cleared>>

-----------------------------------------------------------------------------
\* A zone is known to _check_zone by the plants in it.
PlantsIn(z) == {i \in DOMAIN Plant : Bus[Plant[i].bus].zone = z}

PopResource(c, r) ==
    [c EXCEPT !.resources = @ \ {r}, !.zone = Without(@, r), !.plant = Without(@, r)]

\* scale_plant_capacity by zone.  An unknown zone drops the resource's entries;
\* so does a zone without its plants unless another zone is scaled.
ScalePlantsInZone(r, z, factor) ==
    LET has == \E i \in PlantsIn(z) : Plant[i].type = r
        other == \E y \in Zones : <<r, y>> \in DOMAIN ct.zone
        new == CASE has -> [ct EXCEPT !.resources = @ \cup {r},
                                      !.zone = Put(@, <<r, z>>, factor)]
                 [] ~has /\ PlantsIn(z) # {} /\ other -> ct
                 [] OTHER -> PopResource(ct, r)
    IN  /\ Call(new)
        /\ UNCHANGED <<known, plants, cleared>>

\* scale_plant_capacity by id.  The resource gets its key before the table is
\* asked for; an unknown id drops the resource's entries.
ScalePlant(r, i, factor) ==
    LET c == [ct EXCEPT !.resources = @ \cup {r}]
        found == PlantsAvailable(c) /\ i \in DOMAIN PlantTable(c)
        new == IF found THEN [c EXCEPT !.plant = Put(@, <<r, i>>, factor)]
               ELSE IF PlantsAvailable(c) THEN PopResource(c, r) ELSE c
    IN  /\ Call(new)
        /\ RememberPlants(c)
        /\ UNCHANGED <<known, cleared>>

\* scale_branch_capacity by zone: an unknown zone drops all branch factors.
ScaleBranchesInZone(z) ==
    LET new == IF ~Available("branch", ct) THEN ct
               ELSE IF PlantsIn(z) # {} THEN [ct EXCEPT !.branch.zones = @ \cup {z}]
               ELSE [ct EXCEPT !.branch = EmptyTable.branch]
    IN  /\ Call(new)
        /\ Remember({"branch"}, ct)
        /\ UNCHANGED <<plants, cleared>>

BranchTable == Drop(AllBranches(ct), ct.remove_branch)
HasBranch(i) == Available("branch", ct) /\ i \in DOMAIN BranchTable

\* scale_branch_capacity by id: an unknown id drops all branch factors.
ScaleBranch(i) ==
    LET new == IF ~Available("branch", ct) THEN ct
               ELSE IF HasBranch(i) THEN [ct EXCEPT !.branch.ids = @ \cup {i}]
               ELSE [ct EXCEPT !.branch = EmptyTable.branch]
    IN  /\ Call(new)
        /\ Remember({"branch"}, ct)
        /\ UNCHANGED <<plants, cleared>>

\* A faulty variant: new DC lines are left out.
BaseDclines(c) == Dcline

AllDclines(c) == Dcline \o c.new_dcline

\* scale_dcline_capacity: the key is there, without its "dcline_id", before the
\* table is asked for.
ScaleDcline(i) ==
    LET c == [ct EXCEPT !.dcline = IF @ = "absent" THEN "empty" ELSE @]
        found == Available("dcline", c) /\ i \in DOMAIN AllDclines(c)
        new == IF found THEN [c EXCEPT !.dcline = "ids"]
               ELSE IF Available("dcline", c) THEN [c EXCEPT !.dcline = "absent"]
               ELSE c
    IN  /\ Call(new)
        /\ Remember({"dcline"}, c)
        /\ UNCHANGED <<plants, cleared>>
-----------------------------------------------------------------------------
\* A faulty variant: the id is not looked up.
RemoveAnyBranch(i) ==
    /\ Call([ct EXCEPT !.remove_branch = @ \cup {i}])
    /\ Remember({"bus"}, ct)
    /\ UNCHANGED <<plants, cleared>>

\* remove_branch: the branch is added to the set before the bus table is asked
\* for (_check_for_islanded_load_buses, which only warns); neither the key of that
\* table nor whether it can be computed depends on the set.
RemoveBranch(i) ==
    LET ok == HasBranch(i)
        c == IF ok THEN [ct EXCEPT !.remove_branch = @ \cup {i}] ELSE ct
    IN  /\ Call(c)
        /\ Remember({"branch"} \cup (IF ok THEN {"bus"} ELSE {}), ct)
        /\ UNCHANGED <<plants, cleared>>

RemoveDcline(i) ==
    LET ok == Available("dcline", ct) /\ i \in DOMAIN AllDclines(ct)
    IN  /\ Call(IF ok THEN [ct EXCEPT !.remove_dcline = @ \cup {i}] ELSE ct)
        /\ Remember({"dcline"}, ct)
        /\ UNCHANGED <<plants, cleared>>

RemovePlant(i) ==
    LET ok == PlantsAvailable(ct) /\ i \in DOMAIN PlantTable(ct)
    IN  /\ Call(IF ok THEN [ct EXCEPT !.remove_plant = @ \cup {i}] ELSE ct)
        /\ RememberPlants(ct)
        /\ UNCHANGED <<known, cleared>>

\* remove_bus checks five tables, in this order, up to the first objection.
Checks == <<"bus", "plant", "storage", "branch", "dcline">>

\* A faulty variant: only the plants of the base grid are looked at.
NoBasePlants(b) ==
    /\ PlantsAvailable(ct)
    /\ \A i \in DOMAIN Plant :
          PlantTable(ct)[i].pmax > 0 => PlantTable(ct)[i].bus # b

NoRunningPlants(b) ==
    /\ PlantsAvailable(ct)
    /\ \A i \in DOMAIN PlantTable(ct) :
          PlantTable(ct)[i].pmax > 0 => PlantTable(ct)[i].bus # b

NoObjection(t, b) ==
    CASE t = "bus" -> HasBus(b)
      [] t = "plant" -> NoRunningPlants(b)
      [] t = "storage" ->
            /\ Available("storage", ct)
            /\ \A i \in DOMAIN Storage : Storage[i] # b
            /\ \A i \in DOMAIN ct.storage : ct.storage[i] # b
      [] t = "branch" -> Available("branch", ct) /\ b \notin EndsOf(BranchTable)
      [] t = "dcline" -> Available("dcline", ct) /\ b \notin EndsOf(AllDclines(ct))

RemoveBus(b) ==
    LET asked == {Checks[k] : k \in {n \in DOMAIN Checks :
                     \A m \in 1 .. n - 1 : NoObjection(Checks[m], b)}}
        ok == \A k \in DOMAIN Checks : NoObjection(Checks[k], b)
    IN  /\ Call(IF ok THEN [ct EXCEPT !.remove_bus = @ \cup {b}] ELSE ct)
        /\ Remember(asked, ct)
        /\ IF "plant" \in asked THEN RememberPlants(ct) ELSE UNCHANGED plants
        /\ UNCHANGED cleared

-----------------------------------------------------------------------------
\* clear: what is left of the change table.
Cleared(which) ==
    CASE which = "all" -> EmptyTable
      [] which = "branch" ->
            [ct EXCEPT !.branch = EmptyTable.branch, !.new_branch = <<>>,
                       !.remove_branch = {}]
      [] which = "dcline" ->
            [ct EXCEPT !.dcline = "absent", !.new_dcline = <<>>,
                       !.remove_dcline = {}]
      [] which = "bus" -> [ct EXCEPT !.new_bus = <<>>, !.remove_bus = {}]
      [] which = "plant" ->
            [ct EXCEPT !.new_plant = <<>>, !.remove_plant = {}, !.resources = {},
                       !.zone = <<>>, !.plant = <<>>]
      [] which = "storage" -> [ct EXCEPT !.storage = <<>>]

\* The caches stay.  Clearing storage that was not added raises KeyError, and
\* changes nothing.
Clear(which) ==
    /\ Call(Cleared(which))
    /\ cleared' = (which # "all" /\ (cleared \/ which \in {"bus", "branch"}))
    /\ UNCHANGED <<known, plants>>

\* Calls name any id there is, and one that there is not.
IdsOf(table) == 1 .. Len(table) + 1

Next ==
    \/ \E b \in NewBuses : AddBus(b)
    \/ \E line \in NewLines : AddBranch(line) \/ AddDcline(line)
    \/ \E p \in NewPlants : AddPlant(p)
    \/ \E b \in IdsOf(AllBuses(ct)) : AddStorageCapacity(b) \/ RemoveBus(b)
    \/ \E r \in Resources, f \in Scalings :
          \/ \E z \in Zones : ScalePlantsInZone(r, z, f)
          \/ \E i \in IdsOf(AllPlants(ct)) : ScalePlant(r, i, f)
    \/ \E z \in Zones : ScaleBranchesInZone(z)
    \/ \E i \in IdsOf(AllBranches(ct)) : ScaleBranch(i) \/ RemoveBranch(i)
    \/ \E i \in IdsOf(AllDclines(ct)) : ScaleDcline(i) \/ RemoveDcline(i)
    \/ \E i \in IdsOf(AllPlants(ct)) : RemovePlant(i)
    \/ \E which \in Clearable : Clear(which)

Spec == Init /\ [][Next]_vars

-----------------------------------------------------------------------------
(***************************************************************************)
(* Unless buses or branches are cleared on their own, the grid that the    *)
(* change table leads to passes check_grid's tests on lines: their ends    *)
(* are buses of the grid, and the ends of a branch are two buses of one    *)
(* interconnect; storage units are at buses of the grid too.  Each method  *)
(* checks its own element against a table that may come from the cache,    *)
(* and no method looks at all of the change table.                         *)
(***************************************************************************)
NothingDangles ==
    ~cleared =>
        LET g == GetGrid(ct)
        IN  /\ CheckForUndescribedBuses(g)
            /\ CheckAcInterconnects(g)
            /\ CheckForLoopBranches(g)
            /\ \A i \in DOMAIN g.storage : g.storage[i] \in DOMAIN g.bus

\* check_grid has nothing to say of the base grid.
BaseIsSound == CheckGrid(GetGrid(EmptyTable)) = {}

(***************************************************************************)
(* Unless buses or branches are cleared on their own, what check_grid      *)
(* finds wrong with a single element of the grid of a change table that    *)
(* started from a sound one was bound to happen: a bus is islanded only if *)
(* it is new or has had a branch removed, a line connects two voltages     *)
(* only if it is new, and the table bus2sub has too many buses only if     *)
(* some were removed.  The checks that are not named here pass.            *)
(***************************************************************************)
ElementComplaintsAreExplained ==
    (~cleared /\ ~Fails(ct) /\ BaseIsSound) =>
        LET g == GetGrid(ct)
            found == CheckGrid(g)
            lines == EndsOf(g.branch) \cup EndsOf(g.dcline)
            lost == UNION {Ends(AllBranches(ct)[i]) : i \in ct.remove_branch}
        IN  /\ found \subseteq {"islanded", "voltages", "bus2sub", "components"}
            /\ "islanded" \in found =>
                  DOMAIN g.bus \ lines \subseteq (DOMAIN AllBuses(ct) \ DOMAIN Bus) \cup lost
            /\ "voltages" \in found =>
                  \E i \in DOMAIN ct.new_branch :
                     Cardinality({AllBuses(ct)[b].kv : b \in Ends(ct.new_branch[i])}) = 2
            /\ "bus2sub" \in found => ct.remove_bus # {}

(***************************************************************************)
(* Whatever check_grid finds wrong was bound to happen: the above, and the *)
(* number of connected parts is wrong only if branches were removed or a   *)
(* new one touches a bus that no base branch reaches.                      *)
(***************************************************************************)
ComplaintsAreExplained ==
    /\ ElementComplaintsAreExplained
    /\ (~cleared /\ ~Fails(ct) /\ BaseIsSound /\ "components" \in CheckGrid(GetGrid(ct))) =>
          \/ ct.remove_branch # {}
          \/ \E i \in DOMAIN ct.new_branch :
                ~(Ends(ct.new_branch[i]) \subseteq EndsOf(Branch))

(***************************************************************************)
(* Unless buses or branches are cleared on their own, there are just four  *)
(* ways for accepted calls to make a change table that TransformGrid       *)
(* cannot apply: branches are scaled in a zone without any inside, a new   *)
(* branch is put at a voltage that no base branch has, a DC line is added  *)
(* to a grid without any, and the capacity of a DC line is scaled after DC *)
(* lines were added or removed, which leaves an empty entry.               *)
(***************************************************************************)
FailsInFourWays ==
    Fails(ct) /\ ~cleared =>
        \/ \E z \in ct.branch.zones : ~ZoneHasLine(z)
        \/ \E i \in DOMAIN ct.new_branch : ~KnownVoltage(ct, ct.new_branch[i])
        \/ ct.new_dcline # <<>> /\ Dcline = <<>>
        \/ ct.dcline = "empty" /\ Modified("dcline", ct)

BusesOf(c) == Drop(AllBuses(c), c.remove_bus)
BranchesOf(c) == Drop(AllBranches(c), c.remove_branch)

SameRows(f, g) == \A i \in DOMAIN f \cap DOMAIN g : f[i] = g[i]

(***************************************************************************)
(* An id that a user has of a bus or a branch means the same element after *)
(* any call but clear, whatever is added or removed: ids are not reused    *)
(* and tables are not renumbered.                                          *)
(***************************************************************************)
IdsKeepTheirMeaning ==
    [][\/ /\ SameRows(BusesOf(ct), BusesOf(ct'))
          /\ SameRows(BranchesOf(ct), BranchesOf(ct'))
          /\ DOMAIN BusesOf(ct') \ DOMAIN BusesOf(ct) \subseteq {Len(AllBuses(ct)) + 1}
       \/ \E which \in Clearable : Clear(which)]_vars

\* The plant table in the cache is that of another change table.
CachedForOther ==
    /\ PlantsModified(ct)
    /\ PlantKey(ct) \in DOMAIN plants
    /\ plants[PlantKey(ct)] # ScaledPlants(ct)

(***************************************************************************)
(* "Check whether there exist any plants with non-zero capacity at these   *)
(* buses": remove_bus accepts a bus only if the change table leads to none *)
(* there, unless the plant table comes from the cache and is another one's *)
(* (the key leaves out which resource is scaled).                          *)
(***************************************************************************)
RemovedBusHasNoPlants ==
    [][~CachedForOther =>
         \A b \in ct'.remove_bus \ ct.remove_bus :
            \A i \in DOMAIN ScaledPlants(ct) :
               ScaledPlants(ct)[i].bus = b => ScaledPlants(ct)[i].pmax = 0]_vars
=============================================================================
