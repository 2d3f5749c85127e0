---------------------------- MODULE TransformGrid ----------------------------
(***************************************************************************)
(* What TransformGrid makes of a grid and a change table, and the checks   *)
(* of check_grid that the tables modelled here are subject to.             *)
(*                                                                         *)
(* The tables of a grid are sequences: the id of a bus, a branch, a DC     *)
(* line or a plant is its place in the table, and a new element takes the  *)
(* id after the last one.  Removing elements leaves a function on the ids  *)
(* that are left.  Of an element the model keeps what the code's checks    *)
(* look at: the zone, place and voltage of a bus, the ends of a line, the  *)
(* bus, type and Pmax of a plant, the bus of a storage unit.               *)
(***************************************************************************)
EXTENDS Naturals, Sequences, FiniteSetsExt

CONSTANTS
    Zones,        \* the load zones
    Interconnect, \* the interconnect of each zone
    Types,        \* the resources, in the order of their names
    Bus,          \* the tables of the base grid
    Branch,
    Dcline,
    Plant,
    Storage

Resources == {Types[k] : k \in DOMAIN Types}

Buses == [zone : Zones, place : Nat, kv : Nat]
Lines == [from : Nat, to : Nat]
\* Pmax is 0 or positive, and so is a scaling factor: 1 stands for any positive one.
Plants == [bus : Nat, type : Resources, pmax : {0, 1}]

Ends(line) == {line.from, line.to}

EndsOf(lines) == UNION {Ends(lines[i]) : i \in DOMAIN lines}

ASSUME BaseGridAssumption ==
    /\ DOMAIN Interconnect = Zones
    /\ Bus \in Seq(Buses)
    /\ \A z \in Zones : \E b \in DOMAIN Bus : Bus[b].zone = z
    /\ Branch \in Seq(Lines) /\ EndsOf(Branch) \subseteq DOMAIN Bus
    /\ Dcline \in Seq(Lines) /\ EndsOf(Dcline) \subseteq DOMAIN Bus
    /\ Plant \in Seq(Plants) /\ \A i \in DOMAIN Plant : Plant[i].bus \in DOMAIN Bus
    /\ Storage \in Seq(DOMAIN Bus)
    /\ Branch # <<>> /\ Plant # <<>>
    /\ \A i \in DOMAIN Branch :
          /\ Branch[i].from # Branch[i].to
          /\ Bus[Branch[i].from].place # Bus[Branch[i].to].place
             => Bus[Branch[i].from].kv = Bus[Branch[i].to].kv
          /\ Interconnect[Bus[Branch[i].from].zone]
                = Interconnect[Bus[Branch[i].to].zone]

\* A change table is a record with the fields
\*   new_bus, new_branch, new_dcline, new_plant, storage   sequences to append
\*   remove_bus, remove_branch, remove_dcline, remove_plant   sets of ids
\*   branch      the zones and the ids of branches that are scaled
\*   dcline      "absent", "empty" (the key without "dcline_id") or "ids"
\*   resources   the resources that have an entry, be it empty
\*   zone        factor of a resource in a zone, for the pairs that have one
\*   plant       factor of a plant under a resource, for the pairs that have one
AllBuses(ct) == Bus \o ct.new_bus
AllBranches(ct) == Branch \o ct.new_branch
AllPlants(ct) == Plant \o ct.new_plant

\* A faulty variant: the table is renumbered.
DropRenumbered(table, removed) ==
    [i \in 1 .. Cardinality(DOMAIN table \ removed) |->
       LET rank(j) == Cardinality({k \in DOMAIN table \ removed : k <= j})
       IN  table[CHOOSE j \in DOMAIN table \ removed : rank(j) = i]]

\* _remove_branch and _remove_bus: the rows whose index is not in the set.
Drop(table, removed) == [i \in DOMAIN table \ removed |-> table[i]]

-----------------------------------------------------------------------------
\* voltage_to_x_per_distance: the voltages at which a base line of non-zero
\* length starts.  (A transformer is inside one place, and is not counted.)
Voltages ==
    {Bus[Branch[i].from].kv : i \in {j \in DOMAIN Branch :
        Bus[Branch[j].from].place # Bus[Branch[j].to].place}}

\* _scale_branch_by_zone: get_group raises for a zone with no line inside.
ZoneHasLine(z) ==
    \E i \in DOMAIN Branch : \A b \in Ends(Branch[i]) : Bus[b].zone = z

\* A line of the change table whose ends can be looked up.
Described(ct, line) == Ends(line) \subseteq DOMAIN AllBuses(ct)

\* _add_branch looks both voltages up among those of the base grid.
KnownVoltage(ct, line) == \A b \in Ends(line) : AllBuses(ct)[b].kv \in Voltages

\* _apply_change_table raises KeyError, or IndexError where the id of the first
\* new DC line should follow that of the last one.
Fails(ct) ==
    \/ \E z \in ct.branch.zones : ~ZoneHasLine(z)
    \/ \E i \in DOMAIN ct.new_branch :
          ~(Described(ct, ct.new_branch[i]) /\ KnownVoltage(ct, ct.new_branch[i]))
    \/ ct.new_dcline # <<>> /\ Dcline = <<>>
    \/ \E i \in DOMAIN ct.new_dcline : ~Described(ct, ct.new_dcline[i])
    \/ \E i \in DOMAIN ct.new_plant : ct.new_plant[i].bus \notin DOMAIN AllBuses(ct)
    \/ ct.dcline = "empty"

-----------------------------------------------------------------------------
\* Zone factors reach the plants of the base grid only, of their own resource;
\* factors by id reach the plant whatever its resource.
ZoneFactor(ct, i) ==
    LET k == <<Plant[i].type, Bus[Plant[i].bus].zone>>
    IN  IF i \in DOMAIN Plant /\ k \in DOMAIN ct.zone THEN ct.zone[k] ELSE 1

IdFactor(ct, i) ==
    IF \E r \in Resources : <<r, i>> \in DOMAIN ct.plant /\ ct.plant[<<r, i>>] = 0
    THEN 0 ELSE 1

ScaledPlants(ct) ==
    [i \in DOMAIN AllPlants(ct) |->
       [AllPlants(ct)[i] EXCEPT
          !.pmax = @ * (IF i \in DOMAIN Plant THEN ZoneFactor(ct, i) ELSE 1)
                     * IdFactor(ct, i)]]

\* A faulty variant: new plants get no cost curve.
BaseGencostIds(ct) == DOMAIN Plant

\* _add_gencost: the plants that have a cost curve.
GencostIds(ct) == DOMAIN Plant \cup {Len(Plant) + k : k \in DOMAIN ct.new_plant}

\* get_grid: zones are scaled, elements added, ids scaled, elements removed.
\* _remove_dcline and _remove_plant are not called.  A substation is a place;
\* the bus2sub table keeps the buses that _remove_bus takes away.
GetGrid(ct) ==
    [bus     |-> Drop(AllBuses(ct), ct.remove_bus),
     bus2sub |-> [b \in DOMAIN AllBuses(ct) |-> AllBuses(ct)[b].place],
     branch  |-> Drop(AllBranches(ct), ct.remove_branch),
     dcline  |-> Dcline \o ct.new_dcline,
     plant   |-> ScaledPlants(ct),
     gencost |-> GencostIds(ct),
     storage |-> Storage \o ct.storage]

-----------------------------------------------------------------------------
\* Checks of check_grid, each of which collects its own message.
CheckForIslandedBuses(g) ==
    LET connected == EndsOf(g.branch) \cup EndsOf(g.dcline)
    IN  connected = {} \/ DOMAIN g.bus \subseteq connected

CheckForUndescribedBuses(g) ==
    EndsOf(g.branch) \cup EndsOf(g.dcline) \subseteq DOMAIN g.bus

CheckBusAgainstBus2sub(g) == DOMAIN g.bus = DOMAIN g.bus2sub

\* A column of the bus table is the same at both ends of the branches; an end that
\* is not in the table maps to NaN, which is not equal to anything.
SameAtEnds(g, ids, column) ==
    \A i \in ids : Ends(g.branch[i]) \subseteq DOMAIN g.bus
                   /\ column[g.branch[i].from] = column[g.branch[i].to]

CheckAcInterconnects(g) ==
    SameAtEnds(g, DOMAIN g.branch, [b \in DOMAIN g.bus |-> Interconnect[g.bus[b].zone]])

\* Base branches within a place are transformers; all others are lines.
Transformers(g) ==
    {i \in DOMAIN g.branch \cap DOMAIN Branch :
        g.bus2sub[Branch[i].from] = g.bus2sub[Branch[i].to]}

CheckLineVoltages(g) ==
    SameAtEnds(g, DOMAIN g.branch \ Transformers(g), [b \in DOMAIN g.bus |-> g.bus[b].kv])

CheckPlantAgainstGencost(g) == DOMAIN g.plant = g.gencost

\* The sets of buses that branches connect.
Merge(line, sets) ==
    LET hit == {s \in sets : Ends(line) \cap s # {}} IN (sets \ hit) \cup {UNION hit}

Components(lines) ==
    FoldSet(LAMBDA i, sets : Merge(lines[i], sets), {{b} : b \in EndsOf(lines)}, DOMAIN lines)

CheckConnectedComponents(g) ==
    Cardinality(Components(g.branch)) = Cardinality({Interconnect[z] : z \in Zones})

CheckForLoopBranches(g) ==
    \A i \in DOMAIN g.branch : g.branch[i].from # g.branch[i].to

\* check_grid: what it complains of.
CheckGrid(g) ==
    {c \in {"islanded", "undescribed", "bus2sub", "interconnects", "voltages",
            "gencost", "components", "loops"} :
        CASE c = "islanded" -> ~CheckForIslandedBuses(g)
          [] c = "undescribed" -> ~CheckForUndescribedBuses(g)
          [] c = "bus2sub" -> ~CheckBusAgainstBus2sub(g)
          [] c = "interconnects" -> ~CheckAcInterconnects(g)
          [] c = "voltages" -> ~CheckLineVoltages(g)
          [] c = "gencost" -> ~CheckPlantAgainstGencost(g)
          [] c = "components" -> ~CheckConnectedComponents(g)
          [] c = "loops" -> ~CheckForLoopBranches(g)}
=============================================================================
