-------------------------- MODULE ChangeTableProofs --------------------------
(***************************************************************************)
(* TLAPS proofs about ChangeTable, for every base grid, set of arguments   *)
(* and number of calls.                                                    *)
(***************************************************************************)
EXTENDS ChangeTable, FiniteSetTheorems, TLAPS

\* Most leaves are first-order; those that need arithmetic, functions or records say SMT.
USE Zenon

-----------------------------------------------------------------------------
(* Sequences and tables *)

\* The rows of a table with new elements after those of the base grid.
LEMMA ConcatRows ==
  ASSUME NEW S, NEW s \in Seq(S), NEW t \in Seq(S)
  PROVE  /\ s \o t \in Seq(S) /\ Len(s \o t) = Len(s) + Len(t)
         /\ DOMAIN (s \o t) = 1 .. Len(s) + Len(t)
         /\ \A i \in 1 .. Len(s) : (s \o t)[i] = s[i]
         /\ \A i \in 1 .. Len(t) : (s \o t)[Len(s) + i] = t[i]
  BY SMT

\* One more new element takes the id after the last one, and changes no other row.
LEMMA ConcatAppend ==
  ASSUME NEW S, NEW s \in Seq(S), NEW t \in Seq(S), NEW e \in S
  PROVE  /\ Append(t, e) \in Seq(S) /\ Len(Append(t, e)) = Len(t) + 1
         /\ Append(t, e)[Len(t) + 1] = e
         /\ \A i \in 1 .. Len(t) : Append(t, e)[i] = t[i]
         /\ DOMAIN (s \o Append(t, e)) = 1 .. Len(s) + Len(t) + 1
         /\ \A i \in 1 .. Len(s) + Len(t) : (s \o Append(t, e))[i] = (s \o t)[i]
         /\ (s \o Append(t, e))[Len(s) + Len(t) + 1] = e
  BY SMT

\* The ids of a table with k new elements are among those with m.
LEMMA IdRange ==
  ASSUME NEW a \in Nat, NEW m \in Nat, NEW n \in 0 .. m, NEW k \in 0 .. n
  PROVE  1 .. a + k \subseteq 1 .. a + m
  BY SMT

-----------------------------------------------------------------------------
(* Types *)

Fields == {"new_bus", "new_branch", "new_dcline", "new_plant", "storage", "remove_bus",
           "remove_branch", "remove_dcline", "remove_plant", "branch", "dcline",
           "resources", "zone", "plant"}

\* The new elements of a change table, which n calls at most have added.
AddedOK(c) ==
    /\ c.new_bus \in Seq(NewBuses)
    /\ c.new_branch \in Seq(NewLines)
    /\ c.new_dcline \in Seq(NewLines)
    /\ c.new_plant \in Seq(NewPlants)
    /\ c.storage \in Seq(BusIds)

CountsOK(c, n) ==
    /\ Len(c.new_bus) \in 0 .. n /\ Len(c.new_branch) \in 0 .. n
    /\ Len(c.new_dcline) \in 0 .. n /\ Len(c.new_plant) \in 0 .. n

RemovedOK(c) ==
    /\ c.remove_bus \subseteq 1 .. Len(Bus) + Len(c.new_bus)
    /\ c.remove_branch \subseteq 1 .. Len(Branch) + Len(c.new_branch)
    /\ c.remove_dcline \subseteq DclineIds
    /\ c.remove_plant \subseteq PlantIds

ScaledOK(c) ==
    /\ c.branch \in [zones : SUBSET Zones, ids : SUBSET BranchIds]
    /\ c.dcline \in {"absent", "empty", "ids"}
    /\ c.resources \subseteq Resources
    /\ DOMAIN c.zone \subseteq Resources \X Zones
    /\ \A x \in DOMAIN c.zone : c.zone[x] \in {0, 1}
    /\ DOMAIN c.plant \subseteq Resources \X PlantIds

TableOK(c, n) ==
    /\ DOMAIN c = Fields
    /\ AddedOK(c) /\ CountsOK(c, n) /\ RemovedOK(c) /\ ScaledOK(c)

\* A cached plant table has the plants of the change table that it was made for.
CacheOK == \A k \in DOMAIN plants : DOMAIN plants[k] = 1 .. Len(Plant) + Len(k[1])

TypeInv ==
    /\ TableOK(ct, calls)
    /\ CacheOK
    /\ cleared \in BOOLEAN
    /\ calls \in 0 .. MaxCalls

\* The ids of a table that is n calls old at most.
LEMMA TableIds ==
  ASSUME NEW n \in 0 .. MaxCalls, NEW c, TableOK(c, n)
  PROVE  /\ AllBuses(c) \in Seq(Buses) /\ AllBranches(c) \in Seq(Lines)
         /\ AllDclines(c) \in Seq(Lines) /\ AllPlants(c) \in Seq(Plants)
         /\ DOMAIN AllBuses(c) = 1 .. Len(Bus) + Len(c.new_bus)
         /\ DOMAIN AllBranches(c) = 1 .. Len(Branch) + Len(c.new_branch)
         /\ DOMAIN AllDclines(c) = 1 .. Len(Dcline) + Len(c.new_dcline)
         /\ DOMAIN AllPlants(c) = 1 .. Len(Plant) + Len(c.new_plant)
         /\ DOMAIN AllBuses(c) \subseteq BusIds /\ DOMAIN AllBranches(c) \subseteq BranchIds
         /\ DOMAIN AllDclines(c) \subseteq DclineIds
         /\ DOMAIN AllPlants(c) \subseteq PlantIds
<1>1. /\ c.new_bus \in Seq(Buses) /\ c.new_branch \in Seq(Lines)
      /\ c.new_dcline \in Seq(Lines) /\ c.new_plant \in Seq(Plants)
  BY ChangeTableAssumption, SMT DEF TableOK, AddedOK
<1>2. /\ Bus \in Seq(Buses) /\ Branch \in Seq(Lines)
      /\ Dcline \in Seq(Lines) /\ Plant \in Seq(Plants)
  BY BaseGridAssumption
<1>3. MaxCalls \in Nat
  BY ChangeTableAssumption
<1> HIDE DEF Buses, Lines, Plants
<1>4. /\ AllBuses(c) \in Seq(Buses) /\ AllBranches(c) \in Seq(Lines)
      /\ AllDclines(c) \in Seq(Lines) /\ AllPlants(c) \in Seq(Plants)
  BY <1>1, <1>2, ConcatRows DEF AllBuses, AllBranches, AllDclines, AllPlants
<1>5. /\ DOMAIN AllBuses(c) = 1 .. Len(Bus) + Len(c.new_bus)
      /\ DOMAIN AllBranches(c) = 1 .. Len(Branch) + Len(c.new_branch)
      /\ DOMAIN AllDclines(c) = 1 .. Len(Dcline) + Len(c.new_dcline)
      /\ DOMAIN AllPlants(c) = 1 .. Len(Plant) + Len(c.new_plant)
  BY <1>1, <1>2, ConcatRows, SMT DEF AllBuses, AllBranches, AllDclines, AllPlants
<1>6. /\ DOMAIN AllBuses(c) \subseteq BusIds /\ DOMAIN AllBranches(c) \subseteq BranchIds
      /\ DOMAIN AllDclines(c) \subseteq DclineIds /\ DOMAIN AllPlants(c) \subseteq PlantIds
  <2>1. /\ Len(Bus) \in Nat /\ Len(Branch) \in Nat
        /\ Len(Dcline) \in Nat /\ Len(Plant) \in Nat
    BY <1>2, SMT
  <2>2. CountsOK(c, n)
    BY DEF TableOK
  <2> QED  BY <1>3, <1>5, <2>1, <2>2, IdRange, ZenonT(30)
              DEF CountsOK, BusIds, BranchIds, DclineIds, PlantIds
<1> QED  BY <1>4, <1>5, <1>6

\* Two change tables that differ in some fields only.
Differ(c, d, fields) ==
    /\ DOMAIN c = Fields /\ DOMAIN d = Fields
    /\ \A f \in Fields \ fields : d[f] = c[f]

\* Another value for one field.
LEMMA PutField ==
  ASSUME NEW c, DOMAIN c = Fields, NEW f \in Fields, NEW v
  PROVE  Differ(c, [c EXCEPT ![f] = v], {f}) /\ [c EXCEPT ![f] = v][f] = v
  BY DEF Differ

\* What a call may do to the types: the fields that it leaves alone stay what they
\* are, and the bound on the new elements grows.
LEMMA SameAdded ==
  ASSUME NEW c, NEW d, NEW F, Differ(c, d, F), AddedOK(c),
         F \cap {"new_bus", "new_branch", "new_dcline", "new_plant", "storage"} = {}
  PROVE  AddedOK(d)
  BY DEF Differ, AddedOK, Fields

\* The bound on the new elements grows with the calls.
LEMMA SameCounts ==
  ASSUME NEW c, NEW d, NEW F, Differ(c, d, F), NEW n \in Nat, CountsOK(c, n),
         F \cap {"new_bus", "new_branch", "new_dcline", "new_plant"} = {}
  PROVE  CountsOK(d, n + 1)
<1>1. /\ d.new_bus = c.new_bus /\ d.new_branch = c.new_branch
      /\ d.new_dcline = c.new_dcline /\ d.new_plant = c.new_plant
  BY DEF Differ, Fields
<1> QED  BY <1>1, SMT DEF CountsOK

\* Removed ids, of elements that are as many as before.
LEMMA SameRemoved ==
  ASSUME NEW c, NEW d, NEW F, Differ(c, d, F), RemovedOK(c),
         F \cap {"new_bus", "new_branch", "remove_bus", "remove_branch", "remove_dcline",
                 "remove_plant"} = {}
  PROVE  RemovedOK(d)
<1>1. /\ d.new_bus = c.new_bus /\ d.new_branch = c.new_branch
      /\ d.remove_bus = c.remove_bus /\ d.remove_branch = c.remove_branch
      /\ d.remove_dcline = c.remove_dcline /\ d.remove_plant = c.remove_plant
  BY DEF Differ, Fields
<1> QED  BY <1>1 DEF RemovedOK

\* Factors.
LEMMA SameScaled ==
  ASSUME NEW c, NEW d, NEW F, Differ(c, d, F), ScaledOK(c),
         F \cap {"branch", "dcline", "resources", "zone", "plant"} = {}
  PROVE  ScaledOK(d)
<1>1. /\ d.branch = c.branch /\ d.dcline = c.dcline /\ d.resources = c.resources
      /\ d.zone = c.zone /\ d.plant = c.plant
  BY DEF Differ, Fields
<1> QED  BY <1>1 DEF ScaledOK

\* A call that leaves the change table alone.
LEMMA IdleType ==
  ASSUME NEW n \in Nat, NEW c, TableOK(c, n)
  PROVE  TableOK(c, n + 1)
  BY SMT DEF TableOK, CountsOK

\* add_bus and the other methods that add elements.
LEMMA AddBusType ==
  ASSUME NEW n \in Nat, NEW c, TableOK(c, n), NEW b \in NewBuses
  PROVE  TableOK([c EXCEPT !.new_bus = Append(@, b)], n + 1)
<1> DEFINE d == [c EXCEPT !.new_bus = Append(@, b)]
<1>1. Differ(c, d, {"new_bus"}) /\ d.new_bus = Append(c.new_bus, b)
  BY PutField DEF TableOK, Fields
<1> HIDE DEF d
<1>2. /\ Append(c.new_bus, b) \in Seq(NewBuses)
      /\ Len(Append(c.new_bus, b)) = Len(c.new_bus) + 1 /\ Len(c.new_bus) \in Nat
      /\ Len(Bus) \in Nat
  BY ConcatAppend, BaseGridAssumption, SMT DEF TableOK, AddedOK
<1>3. AddedOK(d)
  BY <1>1, <1>2 DEF TableOK, AddedOK, Differ, Fields
<1>4. CountsOK(d, n + 1) /\ RemovedOK(d)
  <2>1. /\ d.new_branch = c.new_branch /\ d.new_dcline = c.new_dcline
        /\ d.new_plant = c.new_plant /\ d.remove_bus = c.remove_bus
        /\ d.remove_branch = c.remove_branch
        /\ d.remove_dcline = c.remove_dcline /\ d.remove_plant = c.remove_plant
    BY <1>1 DEF Differ, Fields
  <2>2. Len(d.new_bus) = Len(c.new_bus) + 1
    BY <1>1, <1>2
  <2>3. CountsOK(d, n + 1)
    BY <2>1, <2>2, SMTT(20) DEF TableOK, CountsOK
  <2>4. RemovedOK(d)
    BY <1>2, <2>1, <2>2, SMT DEF TableOK, RemovedOK
  <2> QED  BY <2>3, <2>4
<1>5. ScaledOK(d)
  BY <1>1, SameScaled DEF TableOK
<1> QED  BY <1>1, <1>3, <1>4, <1>5 DEF TableOK, Differ, d

\* add_branch.
LEMMA AddBranchType ==
  ASSUME NEW n \in Nat, NEW c, TableOK(c, n), NEW e \in NewLines
  PROVE  TableOK([c EXCEPT !.new_branch = Append(@, e)], n + 1)
<1> DEFINE d == [c EXCEPT !.new_branch = Append(@, e)]
<1>1. Differ(c, d, {"new_branch"}) /\ d.new_branch = Append(c.new_branch, e)
  BY PutField DEF TableOK, Fields
<1> HIDE DEF d
<1>2. /\ Append(c.new_branch, e) \in Seq(NewLines)
      /\ Len(Append(c.new_branch, e)) = Len(c.new_branch) + 1 /\ Len(c.new_branch) \in Nat
      /\ Len(Branch) \in Nat
  BY ConcatAppend, BaseGridAssumption, SMT DEF TableOK, AddedOK
<1>3. AddedOK(d)
  BY <1>1, <1>2 DEF TableOK, AddedOK, Differ, Fields
<1>4. CountsOK(d, n + 1) /\ RemovedOK(d)
  <2>1. /\ d.new_bus = c.new_bus /\ d.new_dcline = c.new_dcline
        /\ d.new_plant = c.new_plant /\ d.remove_bus = c.remove_bus
        /\ d.remove_branch = c.remove_branch
        /\ d.remove_dcline = c.remove_dcline /\ d.remove_plant = c.remove_plant
    BY <1>1 DEF Differ, Fields
  <2>2. Len(d.new_branch) = Len(c.new_branch) + 1
    BY <1>1, <1>2
  <2>3. CountsOK(d, n + 1)
    BY <2>1, <2>2, SMT DEF TableOK, CountsOK
  <2>4. RemovedOK(d)
    BY <1>2, <2>1, <2>2, SMT DEF TableOK, RemovedOK
  <2> QED  BY <2>3, <2>4
<1>5. ScaledOK(d)
  BY <1>1, SameScaled DEF TableOK
<1> QED  BY <1>1, <1>3, <1>4, <1>5 DEF TableOK, Differ, d

\* add_dcline.
LEMMA AddDclineType ==
  ASSUME NEW n \in Nat, NEW c, TableOK(c, n), NEW e \in NewLines
  PROVE  TableOK([c EXCEPT !.new_dcline = Append(@, e)], n + 1)
<1> DEFINE d == [c EXCEPT !.new_dcline = Append(@, e)]
<1>1. Differ(c, d, {"new_dcline"}) /\ d.new_dcline = Append(c.new_dcline, e)
  BY PutField DEF TableOK, Fields
<1> HIDE DEF d
<1>2. /\ Append(c.new_dcline, e) \in Seq(NewLines)
      /\ Len(Append(c.new_dcline, e)) = Len(c.new_dcline) + 1
  BY ConcatAppend, SMT DEF TableOK, AddedOK
<1>3. AddedOK(d)
  BY <1>1, <1>2 DEF TableOK, AddedOK, Differ, Fields
<1>4. CountsOK(d, n + 1)
  <2>1. /\ d.new_bus = c.new_bus /\ d.new_branch = c.new_branch
        /\ d.new_plant = c.new_plant
    BY <1>1 DEF Differ, Fields
  <2>2. Len(d.new_dcline) = Len(c.new_dcline) + 1
    BY <1>1, <1>2
  <2> QED  BY <2>1, <2>2, SMT DEF TableOK, CountsOK
<1>5. RemovedOK(d) /\ ScaledOK(d)
  BY <1>1, SameRemoved, SameScaled DEF TableOK
<1> QED  BY <1>1, <1>3, <1>4, <1>5 DEF TableOK, Differ, d

\* add_plant.
LEMMA AddPlantType ==
  ASSUME NEW n \in Nat, NEW c, TableOK(c, n), NEW e \in NewPlants
  PROVE  TableOK([c EXCEPT !.new_plant = Append(@, e)], n + 1)
<1> DEFINE d == [c EXCEPT !.new_plant = Append(@, e)]
<1>1. Differ(c, d, {"new_plant"}) /\ d.new_plant = Append(c.new_plant, e)
  BY PutField DEF TableOK, Fields
<1> HIDE DEF d
<1>2. /\ Append(c.new_plant, e) \in Seq(NewPlants)
      /\ Len(Append(c.new_plant, e)) = Len(c.new_plant) + 1
  BY ConcatAppend, SMT DEF TableOK, AddedOK
<1>3. AddedOK(d)
  BY <1>1, <1>2 DEF TableOK, AddedOK, Differ, Fields
<1>4. CountsOK(d, n + 1)
  <2>1. /\ d.new_bus = c.new_bus /\ d.new_branch = c.new_branch
        /\ d.new_dcline = c.new_dcline
    BY <1>1 DEF Differ, Fields
  <2>2. Len(d.new_plant) = Len(c.new_plant) + 1
    BY <1>1, <1>2
  <2> QED  BY <2>1, <2>2, SMT DEF TableOK, CountsOK
<1>5. RemovedOK(d) /\ ScaledOK(d)
  BY <1>1, SameRemoved, SameScaled DEF TableOK
<1> QED  BY <1>1, <1>3, <1>4, <1>5 DEF TableOK, Differ, d

\* add_storage_capacity.
LEMMA AddStorageType ==
  ASSUME NEW n \in Nat, NEW c, TableOK(c, n), NEW e \in BusIds
  PROVE  TableOK([c EXCEPT !.storage = Append(@, e)], n + 1)
<1> DEFINE d == [c EXCEPT !.storage = Append(@, e)]
<1>1. Differ(c, d, {"storage"}) /\ d.storage = Append(c.storage, e)
  BY PutField DEF TableOK, Fields
<1> HIDE DEF d
<1>2. AddedOK(d)
  <2>1. Append(c.storage, e) \in Seq(BusIds)
    BY ConcatAppend DEF TableOK, AddedOK
  <2> QED  BY <1>1, <2>1 DEF TableOK, AddedOK, Differ, Fields
<1>3. CountsOK(d, n + 1) /\ RemovedOK(d) /\ ScaledOK(d)
  BY <1>1, SameCounts, SameRemoved, SameScaled, SMT DEF TableOK
<1> QED  BY <1>1, <1>2, <1>3 DEF TableOK, Differ, d

\* remove_bus, remove_branch, remove_dcline and remove_plant.
LEMMA RemoveType ==
  ASSUME NEW n \in Nat, NEW c, TableOK(c, n)
  PROVE  /\ \A b \in 1 .. Len(Bus) + Len(c.new_bus) :
               TableOK([c EXCEPT !.remove_bus = @ \cup {b}], n + 1)
         /\ \A b \in 1 .. Len(Branch) + Len(c.new_branch) :
               TableOK([c EXCEPT !.remove_branch = @ \cup {b}], n + 1)
         /\ \A b \in DclineIds : TableOK([c EXCEPT !.remove_dcline = @ \cup {b}], n + 1)
         /\ \A b \in PlantIds : TableOK([c EXCEPT !.remove_plant = @ \cup {b}], n + 1)
<1>1. ASSUME NEW f \in {"remove_bus", "remove_branch", "remove_dcline", "remove_plant"},
             NEW b, \/ f = "remove_bus" /\ b \in 1 .. Len(Bus) + Len(c.new_bus)
                    \/ f = "remove_branch" /\ b \in 1 .. Len(Branch) + Len(c.new_branch)
                    \/ f = "remove_dcline" /\ b \in DclineIds
                    \/ f = "remove_plant" /\ b \in PlantIds
      PROVE  TableOK([c EXCEPT ![f] = @ \cup {b}], n + 1)
  <2> DEFINE d == [c EXCEPT ![f] = @ \cup {b}]
  <2>1. Differ(c, d, {f}) /\ d[f] = c[f] \cup {b}
    BY PutField DEF TableOK, Fields
  <2> HIDE DEF d
  <2>2. RemovedOK(d)
    BY <1>1, <2>1 DEF TableOK, RemovedOK, Differ, Fields
  <2>3. AddedOK(d) /\ CountsOK(d, n + 1) /\ ScaledOK(d)
    BY <2>1, SameAdded, SameCounts, SameScaled, SMT DEF TableOK
  <2> QED  BY <2>1, <2>2, <2>3 DEF TableOK, Differ, d
<1> QED  BY <1>1

\* The methods that scale, and drop entries when they refuse.
LEMMA ScaleType ==
  ASSUME NEW n \in Nat, NEW c, TableOK(c, n), NEW d,
         Differ(c, d, {"branch", "dcline", "resources", "zone", "plant"}), ScaledOK(d)
  PROVE  TableOK(d, n + 1)
<1>1. AddedOK(d) /\ CountsOK(d, n + 1) /\ RemovedOK(d)
  <2>1. AddedOK(d)
    BY SameAdded, SMT DEF TableOK
  <2>2. CountsOK(d, n + 1)
    BY SameCounts, SMT DEF TableOK
  <2>3. RemovedOK(d)
    BY SameRemoved, SMT DEF TableOK
  <2> QED  BY <2>1, <2>2, <2>3
<1> QED  BY <1>1 DEF TableOK, Differ

\* scale_plant_capacity: an entry for a resource, and none of its factors.
LEMMA AddResourceType ==
  ASSUME NEW n \in Nat, NEW c, TableOK(c, n), NEW r \in Resources
  PROVE  /\ ScaledOK([c EXCEPT !.resources = @ \cup {r}])
         /\ Differ(c, [c EXCEPT !.resources = @ \cup {r}], {"resources"})
<1> DEFINE d == [c EXCEPT !.resources = @ \cup {r}]
<1>1. Differ(c, d, {"resources"}) /\ d.resources = c.resources \cup {r}
  BY PutField DEF TableOK, Fields
<1> HIDE DEF d
<1>2. ScaledOK(d)
  BY <1>1 DEF TableOK, ScaledOK, Differ, Fields
<1> QED  BY <1>1, <1>2 DEF d

\* A factor for a resource in a zone, and for a plant.
LEMMA PutFactorType ==
  ASSUME NEW n \in Nat, NEW c, TableOK(c, n), NEW r \in Resources, NEW v \in {0, 1}
  PROVE  /\ \A z \in Zones :
               TableOK([c EXCEPT !.resources = @ \cup {r},
                                 !.zone = Put(@, <<r, z>>, v)], n + 1)
         /\ \A i \in PlantIds :
               TableOK([[c EXCEPT !.resources = @ \cup {r}]
                          EXCEPT !.plant = Put(@, <<r, i>>, v)], n + 1)
<1>1. ASSUME NEW z \in Zones
      PROVE  TableOK([c EXCEPT !.resources = @ \cup {r},
                               !.zone = Put(@, <<r, z>>, v)], n + 1)
  <2> DEFINE d == [c EXCEPT !.resources = @ \cup {r}, !.zone = Put(@, <<r, z>>, v)]
  <2>1. /\ Differ(c, d, {"branch", "dcline", "resources", "zone", "plant"})
        /\ d.branch = c.branch /\ d.dcline = c.dcline /\ d.plant = c.plant
        /\ d.resources = c.resources \cup {r} /\ d.zone = Put(c.zone, <<r, z>>, v)
    BY DEF TableOK, Differ, Fields
  <2> HIDE DEF d
  <2>2. ScaledOK(d)
    BY <2>1, SMT DEF TableOK, ScaledOK, Put
  <2> QED  BY <2>1, <2>2, ScaleType DEF d
<1>2. ASSUME NEW i \in PlantIds
      PROVE  TableOK([[c EXCEPT !.resources = @ \cup {r}]
                        EXCEPT !.plant = Put(@, <<r, i>>, v)], n + 1)
  <2> DEFINE d == [[c EXCEPT !.resources = @ \cup {r}] EXCEPT !.plant = Put(@, <<r, i>>, v)]
  <2>1. /\ Differ(c, d, {"branch", "dcline", "resources", "zone", "plant"})
        /\ d.branch = c.branch /\ d.dcline = c.dcline /\ d.zone = c.zone
        /\ d.resources = c.resources \cup {r} /\ d.plant = Put(c.plant, <<r, i>>, v)
    BY DEF TableOK, Differ, Fields
  <2> HIDE DEF d
  <2>2. ScaledOK(d)
    BY <2>1, SMT DEF TableOK, ScaledOK, Put
  <2> QED  BY <2>1, <2>2, ScaleType DEF d
<1> QED  BY <1>1, <1>2

\* scale_branch_capacity and scale_dcline_capacity.
LEMMA ScaleLineType ==
  ASSUME NEW n \in Nat, NEW c, TableOK(c, n)
  PROVE  /\ \A z \in Zones : TableOK([c EXCEPT !.branch.zones = @ \cup {z}], n + 1)
         /\ \A i \in BranchIds : TableOK([c EXCEPT !.branch.ids = @ \cup {i}], n + 1)
         /\ TableOK([c EXCEPT !.branch = EmptyTable.branch], n + 1)
         /\ \A v \in {"absent", "empty", "ids"} : TableOK([c EXCEPT !.dcline = v], n + 1)
<1>1. ASSUME NEW v, NEW f \in {"branch", "dcline"},
             \/ f = "branch" /\ v \in [zones : SUBSET Zones, ids : SUBSET BranchIds]
             \/ f = "dcline" /\ v \in {"absent", "empty", "ids"}
      PROVE  TableOK([c EXCEPT ![f] = v], n + 1)
  <2> DEFINE d == [c EXCEPT ![f] = v]
  <2>1. Differ(c, d, {f}) /\ d[f] = v
    BY PutField DEF TableOK, Fields
  <2> HIDE DEF d
  <2>2. ScaledOK(d) /\ Differ(c, d, {"branch", "dcline", "resources", "zone", "plant"})
    BY <1>1, <2>1 DEF TableOK, ScaledOK, Differ, Fields
  <2> QED  BY <2>2, ScaleType DEF d
<1>2. c.branch \in [zones : SUBSET Zones, ids : SUBSET BranchIds]
  BY DEF TableOK, ScaledOK
<1>3. ASSUME NEW z \in Zones  PROVE TableOK([c EXCEPT !.branch.zones = @ \cup {z}], n + 1)
  <2>1. [c.branch EXCEPT !.zones = @ \cup {z}]
          \in [zones : SUBSET Zones, ids : SUBSET BranchIds]
    BY <1>2
  <2> QED  BY <1>1, <2>1
<1>4. ASSUME NEW i \in BranchIds
      PROVE  TableOK([c EXCEPT !.branch.ids = @ \cup {i}], n + 1)
  <2>1. [c.branch EXCEPT !.ids = @ \cup {i}]
          \in [zones : SUBSET Zones, ids : SUBSET BranchIds]
    BY <1>2
  <2> QED  BY <1>1, <2>1
<1>5. EmptyTable.branch \in [zones : SUBSET Zones, ids : SUBSET BranchIds]
  BY DEF EmptyTable
<1> QED  BY <1>1, <1>3, <1>4, <1>5

\* The empty change table, which is the first one.
LEMMA EmptyType == \A n \in Nat : TableOK(EmptyTable, n)
<1> SUFFICES ASSUME NEW n \in Nat  PROVE TableOK(EmptyTable, n)
  OBVIOUS
<1>1. DOMAIN EmptyTable = Fields
  BY DEF EmptyTable, Fields
<1>2. /\ EmptyTable.new_bus = <<>> /\ EmptyTable.new_branch = <<>>
      /\ EmptyTable.new_dcline = <<>> /\ EmptyTable.new_plant = <<>>
      /\ EmptyTable.storage = <<>> /\ EmptyTable.remove_bus = {}
      /\ EmptyTable.remove_branch = {} /\ EmptyTable.remove_dcline = {}
      /\ EmptyTable.remove_plant = {}
  BY DEF EmptyTable
<1>3. AddedOK(EmptyTable)
  BY <1>2, SMT DEF AddedOK
<1>4. CountsOK(EmptyTable, n)
  BY <1>2, SMT DEF CountsOK
<1>5. RemovedOK(EmptyTable)
  BY <1>2 DEF RemovedOK
<1>6. ScaledOK(EmptyTable)
  BY SMT DEF EmptyTable, ScaledOK
<1> QED  BY <1>1, <1>3, <1>4, <1>5, <1>6 DEF TableOK

\* clear: some fields are emptied, removed ids together with what they count from.
LEMMA PartlyEmptyType ==
  ASSUME NEW n \in Nat, NEW c, TableOK(c, n), NEW d, DOMAIN d = Fields,
         \A f \in Fields : d[f] = c[f] \/ d[f] = EmptyTable[f],
         d.new_bus = c.new_bus \/ d.remove_bus = {},
         d.new_branch = c.new_branch \/ d.remove_branch = {}
  PROVE  TableOK(d, n + 1)
<1>1. TableOK(EmptyTable, n)
  BY EmptyType
<1>2. AddedOK(d)
  BY <1>1 DEF TableOK, AddedOK, Fields
<1>3. CountsOK(d, n + 1)
  <2>1. /\ d.new_bus = c.new_bus \/ d.new_bus = EmptyTable.new_bus
        /\ d.new_branch = c.new_branch \/ d.new_branch = EmptyTable.new_branch
        /\ d.new_dcline = c.new_dcline \/ d.new_dcline = EmptyTable.new_dcline
        /\ d.new_plant = c.new_plant \/ d.new_plant = EmptyTable.new_plant
    BY DEF Fields
  <2>2. CountsOK(c, n) /\ CountsOK(EmptyTable, n)
    BY <1>1 DEF TableOK
  <2>3. 0 .. n \subseteq 0 .. n + 1
    BY SMT
  <2>4. /\ Len(d.new_bus) \in 0 .. n /\ Len(d.new_branch) \in 0 .. n
        /\ Len(d.new_dcline) \in 0 .. n /\ Len(d.new_plant) \in 0 .. n
    BY <2>1, <2>2 DEF CountsOK
  <2> QED  BY <2>3, <2>4 DEF CountsOK
<1>4. RemovedOK(d)
  <2>1. /\ d.remove_bus = c.remove_bus \/ d.remove_bus = EmptyTable.remove_bus
        /\ d.remove_branch = c.remove_branch \/ d.remove_branch = EmptyTable.remove_branch
        /\ d.remove_dcline = c.remove_dcline \/ d.remove_dcline = EmptyTable.remove_dcline
        /\ d.remove_plant = c.remove_plant \/ d.remove_plant = EmptyTable.remove_plant
        /\ EmptyTable.remove_bus = {} /\ EmptyTable.remove_branch = {}
    BY DEF Fields, EmptyTable
  <2> QED  BY <1>1, <2>1 DEF TableOK, RemovedOK
<1>5. ScaledOK(d)
  <2>1. /\ d.branch = c.branch \/ d.branch = EmptyTable.branch
        /\ d.dcline = c.dcline \/ d.dcline = EmptyTable.dcline
        /\ d.resources = c.resources \/ d.resources = EmptyTable.resources
        /\ d.zone = c.zone \/ d.zone = EmptyTable.zone
        /\ d.plant = c.plant \/ d.plant = EmptyTable.plant
    BY DEF Fields
  <2> QED  BY <1>1, <2>1 DEF TableOK, ScaledOK
<1> QED  BY <1>2, <1>3, <1>4, <1>5 DEF TableOK

\* The fields that clear empties.
ClearedFields(which) ==
    CASE which = "all" -> Fields
      [] which = "branch" -> {"branch", "new_branch", "remove_branch"}
      [] which = "dcline" -> {"dcline", "new_dcline", "remove_dcline"}
      [] which = "bus" -> {"new_bus", "remove_bus"}
      [] which = "plant" -> {"new_plant", "remove_plant", "resources", "zone", "plant"}
      [] which = "storage" -> {"storage"}

\* What clear leaves of a change table.
LEMMA ClearedTable ==
  ASSUME DOMAIN ct = Fields, NEW which \in Clearable
  PROVE  /\ Differ(ct, Cleared(which), ClearedFields(which))
         /\ \A f \in ClearedFields(which) : Cleared(which)[f] = EmptyTable[f]
<1>1. /\ EmptyTable.new_bus = <<>> /\ EmptyTable.new_branch = <<>>
      /\ EmptyTable.new_dcline = <<>> /\ EmptyTable.new_plant = <<>>
      /\ EmptyTable.storage = <<>> /\ EmptyTable.remove_bus = {}
      /\ EmptyTable.remove_branch = {} /\ EmptyTable.remove_dcline = {}
      /\ EmptyTable.remove_plant = {} /\ EmptyTable.dcline = "absent"
      /\ EmptyTable.resources = {} /\ EmptyTable.zone = <<>> /\ EmptyTable.plant = <<>>
  BY DEF EmptyTable
<1>2. which \in {"all", "branch", "bus", "dcline", "plant", "storage"}
  BY ChangeTableAssumption
<1>3. CASE which = "all"
  BY <1>3 DEF Cleared, ClearedFields, EmptyTable, Fields, Differ
<1>4. CASE which = "branch"
  <2>1. /\ Cleared(which) = [ct EXCEPT !.branch = EmptyTable.branch, !.new_branch = <<>>,
                                          !.remove_branch = {}]
        /\ ClearedFields(which) = {"branch", "new_branch", "remove_branch"}
    BY <1>4 DEF Cleared, ClearedFields
  <2> QED  BY <1>1, <2>1, ZenonT(30) DEF Fields, Differ
<1>5. CASE which = "dcline"
  <2>1. /\ Cleared(which) = [ct EXCEPT !.dcline = "absent", !.new_dcline = <<>>,
                                          !.remove_dcline = {}]
        /\ ClearedFields(which) = {"dcline", "new_dcline", "remove_dcline"}
    BY <1>5 DEF Cleared, ClearedFields
  <2> QED  BY <1>1, <2>1 DEF Fields, Differ
<1>6. CASE which = "bus"
  <2>1. /\ Cleared(which) = [ct EXCEPT !.new_bus = <<>>, !.remove_bus = {}]
        /\ ClearedFields(which) = {"new_bus", "remove_bus"}
    BY <1>6 DEF Cleared, ClearedFields
  <2> QED  BY <1>1, <2>1 DEF Fields, Differ
<1>7. CASE which = "plant"
  <2>1. /\ Cleared(which) = [ct EXCEPT !.new_plant = <<>>, !.remove_plant = {},
                                          !.resources = {}, !.zone = <<>>, !.plant = <<>>]
        /\ ClearedFields(which)
             = {"new_plant", "remove_plant", "resources", "zone", "plant"}
    BY <1>7 DEF Cleared, ClearedFields
  <2> QED  BY <1>1, <2>1, ZenonT(30) DEF Fields, Differ
<1>8. CASE which = "storage"
  <2>1. /\ Cleared(which) = [ct EXCEPT !.storage = <<>>]
        /\ ClearedFields(which) = {"storage"}
    BY <1>8 DEF Cleared, ClearedFields
  <2> QED  BY <1>1, <2>1 DEF Fields, Differ
<1> QED  BY <1>2, <1>3, <1>4, <1>5, <1>6, <1>7, <1>8

-----------------------------------------------------------------------------
(* What is attached to what *)

\* The buses of the grid that a change table leads to.
GridBuses(c) == DOMAIN AllBuses(c) \ c.remove_bus

\* Both ends of a branch are in the grid, are two and are of one interconnect.
GoodBranch(c, line) ==
    /\ Ends(line) \subseteq GridBuses(c)
    /\ line.from # line.to
    /\ Interconnect[AllBuses(c)[line.from].zone] = Interconnect[AllBuses(c)[line.to].zone]

\* Branches that are not removed; those that are removed still have to be described.
BranchesOK(c) ==
    /\ \A i \in DOMAIN Branch \ c.remove_branch : GoodBranch(c, Branch[i])
    /\ \A k \in DOMAIN c.new_branch :
          /\ Ends(c.new_branch[k]) \subseteq DOMAIN AllBuses(c)
          /\ Len(Branch) + k \notin c.remove_branch => GoodBranch(c, c.new_branch[k])

\* DC lines, which are never removed.
DclinesOK(c) ==
    /\ \A i \in DOMAIN Dcline : Ends(Dcline[i]) \subseteq GridBuses(c)
    /\ \A k \in DOMAIN c.new_dcline : Ends(c.new_dcline[k]) \subseteq GridBuses(c)

\* The bus of a new plant may be removed, once the plant is scaled to nothing.
PlantsOK(c) == \A k \in DOMAIN c.new_plant : c.new_plant[k].bus \in DOMAIN AllBuses(c)

StorageOK(c) ==
    /\ \A i \in DOMAIN Storage : Storage[i] \in GridBuses(c)
    /\ \A k \in DOMAIN c.storage : c.storage[k] \in GridBuses(c)

\* An entry for DC lines without ids is only left where the table had to be made.
DclineKeyOK(c) == c.dcline = "empty" => Modified("dcline", c)

Attached(c) ==
    /\ BranchesOK(c) /\ DclinesOK(c) /\ PlantsOK(c) /\ StorageOK(c) /\ DclineKeyOK(c)

AttachInv == TypeInv /\ (~cleared => Attached(ct))

\* What a call other than clear makes of a change table, and under which condition.
Outcome(c, d) ==
    \/ d = c
    \/ \E b \in NewBuses : d = [c EXCEPT !.new_bus = Append(@, b)]
    \/ \E line \in NewLines :
          GoodBranch(c, line) /\ d = [c EXCEPT !.new_branch = Append(@, line)]
    \/ \E line \in NewLines :
          Ends(line) \subseteq GridBuses(c) /\ d = [c EXCEPT !.new_dcline = Append(@, line)]
    \/ \E p \in NewPlants :
          p.bus \in GridBuses(c) /\ d = [c EXCEPT !.new_plant = Append(@, p)]
    \/ \E b \in GridBuses(c) : d = [c EXCEPT !.storage = Append(@, b)]
    \/ \E b \in GridBuses(c) :
          /\ b \notin EndsOf(Drop(AllBranches(c), c.remove_branch))
          /\ b \notin EndsOf(AllDclines(c))
          /\ \A i \in DOMAIN Storage : Storage[i] # b
          /\ \A i \in DOMAIN c.storage : c.storage[i] # b
          /\ d = [c EXCEPT !.remove_bus = @ \cup {b}]
    \/ \E i \in DOMAIN AllBranches(c) : d = [c EXCEPT !.remove_branch = @ \cup {i}]
    \/ \E i \in DOMAIN AllDclines(c) : d = [c EXCEPT !.remove_dcline = @ \cup {i}]
    \/ \E i \in PlantIds : d = [c EXCEPT !.remove_plant = @ \cup {i}]
    \/ \E v \in {"absent", "empty", "ids"} :
          (v = "empty" => Modified("dcline", c)) /\ d = [c EXCEPT !.dcline = v]
    \/ Differ(c, d, {"branch", "resources", "zone", "plant"}) /\ ScaledOK(d)

\* The types of what it makes.
LEMMA OutcomeType ==
  ASSUME NEW n \in Nat, n < MaxCalls, NEW c, TableOK(c, n), NEW d, Outcome(c, d)
  PROVE  TableOK(d, n + 1)
<1>1. n \in 0 .. MaxCalls
  BY ChangeTableAssumption, SMT
<1>2. CASE d = c
  BY <1>2, IdleType
<1>3. ASSUME NEW b \in NewBuses, d = [c EXCEPT !.new_bus = Append(@, b)]
      PROVE  TableOK(d, n + 1)
  BY <1>3, AddBusType
<1>4. ASSUME NEW line \in NewLines,
             \/ d = [c EXCEPT !.new_branch = Append(@, line)]
             \/ d = [c EXCEPT !.new_dcline = Append(@, line)]
      PROVE  TableOK(d, n + 1)
  <2>1. CASE d = [c EXCEPT !.new_branch = Append(@, line)]
    BY <2>1, AddBranchType
  <2>2. CASE d = [c EXCEPT !.new_dcline = Append(@, line)]
    BY <2>2, AddDclineType
  <2> QED  BY <1>4, <2>1, <2>2
<1>5. ASSUME NEW p \in NewPlants, d = [c EXCEPT !.new_plant = Append(@, p)]
      PROVE  TableOK(d, n + 1)
  BY <1>5, AddPlantType
<1>6. ASSUME NEW b \in GridBuses(c),
             \/ d = [c EXCEPT !.storage = Append(@, b)]
             \/ d = [c EXCEPT !.remove_bus = @ \cup {b}]
      PROVE  TableOK(d, n + 1)
  <2>1. b \in BusIds /\ b \in 1 .. Len(Bus) + Len(c.new_bus)
    BY <1>1, TableIds DEF GridBuses
  <2>2. CASE d = [c EXCEPT !.storage = Append(@, b)]
    BY <2>1, <2>2, AddStorageType
  <2>3. CASE d = [c EXCEPT !.remove_bus = @ \cup {b}]
    BY <2>1, <2>3, RemoveType
  <2> QED  BY <1>6, <2>2, <2>3
<1>7. ASSUME NEW i \in DOMAIN AllBranches(c), d = [c EXCEPT !.remove_branch = @ \cup {i}]
      PROVE  TableOK(d, n + 1)
  <2>1. i \in 1 .. Len(Branch) + Len(c.new_branch)
    BY <1>1, TableIds
  <2> QED  BY <1>7, <2>1, RemoveType
<1>8. ASSUME NEW i \in DOMAIN AllDclines(c), d = [c EXCEPT !.remove_dcline = @ \cup {i}]
      PROVE  TableOK(d, n + 1)
  <2>1. i \in DclineIds
    BY <1>1, TableIds
  <2> QED  BY <1>8, <2>1, RemoveType
<1>9. ASSUME NEW i \in PlantIds, d = [c EXCEPT !.remove_plant = @ \cup {i}]
      PROVE  TableOK(d, n + 1)
  BY <1>9, RemoveType
<1>10. ASSUME NEW v \in {"absent", "empty", "ids"}, d = [c EXCEPT !.dcline = v]
      PROVE  TableOK(d, n + 1)
  BY <1>10, ScaleLineType
<1>11. CASE Differ(c, d, {"branch", "resources", "zone", "plant"}) /\ ScaledOK(d)
  <2>1. Differ(c, d, {"branch", "dcline", "resources", "zone", "plant"})
    BY <1>11 DEF Differ
  <2> QED  BY <1>11, <2>1, ScaleType
<1> QED  BY <1>2, <1>3, <1>4, <1>5, <1>6, <1>7, <1>8, <1>9, <1>10, <1>11 DEF Outcome

-----------------------------------------------------------------------------
(* What the calls do *)

\* The plants of a table that was made or found, and those of the cache after it.
LEMMA PlantRows ==
  ASSUME CacheOK, NEW n \in 0 .. MaxCalls, NEW c, TableOK(c, n)
  PROVE  /\ DOMAIN PlantTable(c) = 1 .. Len(Plant) + Len(c.new_plant)
         /\ DOMAIN PlantTable(c) \subseteq PlantIds
<1>1. /\ DOMAIN AllPlants(c) = 1 .. Len(Plant) + Len(c.new_plant)
      /\ DOMAIN AllPlants(c) \subseteq PlantIds
  BY TableIds
<1>2. CASE PlantsModified(c) /\ PlantKey(c) \in DOMAIN plants
  <2>1. PlantKey(c)[1] = c.new_plant
    BY DEF PlantKey
  <2> QED  BY <1>1, <1>2, <2>1 DEF PlantTable, CacheOK
<1>3. CASE ~ (PlantsModified(c) /\ PlantKey(c) \in DOMAIN plants)
  BY <1>1, <1>3 DEF PlantTable, ScaledPlants
<1> QED  BY <1>2, <1>3

\* The table that is put in the cache has the plants of its key.
LEMMA RememberPlantsType ==
  ASSUME CacheOK, NEW n \in 0 .. MaxCalls, NEW c, TableOK(c, n), RememberPlants(c)
  PROVE  CacheOK'
<1>1. DOMAIN PlantTable(c) = 1 .. Len(Plant) + Len(c.new_plant)
  BY PlantRows
<1>2. PlantKey(c)[1] = c.new_plant
  BY DEF PlantKey
<1>3. plants' = plants \/ plants' = Put(plants, PlantKey(c), PlantTable(c))
  BY DEF RememberPlants
<1>4. ASSUME NEW k, NEW v, plants' = Put(plants, k, v),
             DOMAIN v = 1 .. Len(Plant) + Len(k[1])
      PROVE  CacheOK'
  BY <1>4 DEF CacheOK, Put
<1> QED  BY <1>1, <1>2, <1>3, <1>4 DEF CacheOK

\* The buses that can be named, and what _add_line makes sure of.
LEMMA KnownBus ==
  ASSUME NEW b, HasBus(b)
  PROVE  b \in GridBuses(ct)
  BY DEF HasBus, BusTable, Drop, GridBuses

\* A line that _add_line accepts is between two buses of the grid.
LEMMA KnownEnds ==
  ASSUME NEW line, ValidLine(line)
  PROVE  /\ Ends(line) \subseteq GridBuses(ct)
         /\ SameInterconnect(line) => GoodBranch(ct, line)
<1>1. line.from \in GridBuses(ct) /\ line.to \in GridBuses(ct) /\ line.from # line.to
  BY KnownBus DEF ValidLine
<1>2. \A b \in GridBuses(ct) : BusTable[b] = AllBuses(ct)[b]
  BY DEF BusTable, Drop, GridBuses
<1> QED  BY <1>1, <1>2 DEF Ends, GoodBranch, SameInterconnect

\* One lemma for the methods that add, that scale and that remove.
LEMMA AddOutcome ==
  ASSUME TypeInv,
         \/ \E b \in NewBuses : AddBus(b)
         \/ \E line \in NewLines : AddBranch(line) \/ AddDcline(line)
         \/ \E p \in NewPlants : AddPlant(p)
         \/ \E b \in IdsOf(AllBuses(ct)) : AddStorageCapacity(b)
  PROVE  /\ calls < MaxCalls /\ calls' = calls + 1
         /\ Outcome(ct, ct') /\ cleared' = cleared /\ CacheOK'
<1>1. ASSUME NEW b \in NewBuses, AddBus(b)
      PROVE  Outcome(ct, ct') /\ UNCHANGED <<plants, cleared>>
             /\ calls < MaxCalls /\ calls' = calls + 1
  BY <1>1 DEF AddBus, Call, Outcome
<1>2. ASSUME NEW line \in NewLines, AddBranch(line)
      PROVE  Outcome(ct, ct') /\ UNCHANGED <<plants, cleared>>
             /\ calls < MaxCalls /\ calls' = calls + 1
  BY <1>2, KnownEnds DEF AddBranch, Call, Outcome
<1>3. ASSUME NEW line \in NewLines, AddDcline(line)
      PROVE  Outcome(ct, ct') /\ UNCHANGED <<plants, cleared>>
             /\ calls < MaxCalls /\ calls' = calls + 1
  BY <1>3, KnownEnds DEF AddDcline, Call, Outcome
<1>4. ASSUME NEW p \in NewPlants, AddPlant(p)
      PROVE  Outcome(ct, ct') /\ UNCHANGED <<plants, cleared>>
             /\ calls < MaxCalls /\ calls' = calls + 1
  BY <1>4, KnownBus DEF AddPlant, Call, Outcome
<1>5. ASSUME NEW b, AddStorageCapacity(b)
      PROVE  Outcome(ct, ct') /\ UNCHANGED <<plants, cleared>>
             /\ calls < MaxCalls /\ calls' = calls + 1
  BY <1>5, KnownBus DEF AddStorageCapacity, Call, Outcome
<1> QED  BY <1>1, <1>2, <1>3, <1>4, <1>5 DEF TypeInv, CacheOK

\* A refused call takes the entries of its resource with it, and no others.
LEMMA Popped ==
  ASSUME NEW c, DOMAIN c = Fields, ScaledOK(c), NEW r
  PROVE  /\ ScaledOK(PopResource(c, r))
         /\ Differ(c, PopResource(c, r), {"branch", "resources", "zone", "plant"})
<1> DEFINE d == PopResource(c, r)
<1>1. /\ Differ(c, d, {"branch", "resources", "zone", "plant"})
      /\ d.branch = c.branch /\ d.dcline = c.dcline /\ d.resources = c.resources \ {r}
      /\ d.zone = Without(c.zone, r) /\ d.plant = Without(c.plant, r)
  BY DEF Differ, Fields, PopResource
<1> HIDE DEF d
<1>2. ScaledOK(d)
  BY <1>1 DEF ScaledOK, Without
<1> QED  BY <1>1, <1>2 DEF d

\* scale_dcline_capacity: the entry is empty only where the table could not be had.
LEMMA ScaleDclineOutcome ==
  ASSUME DOMAIN ct = Fields, ScaledOK(ct), CacheOK, NEW i, ScaleDcline(i)
  PROVE  /\ calls < MaxCalls /\ calls' = calls + 1
         /\ Outcome(ct, ct') /\ cleared' = cleared /\ CacheOK'
<1> DEFINE c == [ct EXCEPT !.dcline = IF @ = "absent" THEN "empty" ELSE @]
<1>1. /\ calls < MaxCalls /\ calls' = calls + 1 /\ UNCHANGED <<plants, cleared>>
      /\ \/ ct' = [c EXCEPT !.dcline = "ids"] \/ ct' = [c EXCEPT !.dcline = "absent"]
         \/ ct' = c /\ ~Available("dcline", c)
  BY DEF ScaleDcline, Call
<1>2. /\ DOMAIN c = Fields /\ c.dcline \in {"empty", "ids"}
      /\ \A v : [c EXCEPT !.dcline = v] = [ct EXCEPT !.dcline = v]
      /\ c = [ct EXCEPT !.dcline = c.dcline]
      /\ c.new_dcline = ct.new_dcline /\ c.remove_dcline = ct.remove_dcline
  BY DEF Fields, ScaledOK
<1> HIDE DEF c
<1>3. ~Available("dcline", c) => Modified("dcline", ct)
  BY <1>2 DEF Available, Modified, Key
<1> QED  BY <1>1, <1>2, <1>3 DEF Outcome, CacheOK

\* scale_plant_capacity, scale_branch_capacity and scale_dcline_capacity.
LEMMA ScaleOutcome ==
  ASSUME TypeInv,
         \/ \E r \in Resources, f \in Scalings :
               \/ \E z \in Zones : ScalePlantsInZone(r, z, f)
               \/ \E i \in IdsOf(AllPlants(ct)) : ScalePlant(r, i, f)
         \/ \E z \in Zones : ScaleBranchesInZone(z)
         \/ \E i \in IdsOf(AllBranches(ct)) : ScaleBranch(i)
         \/ \E i \in IdsOf(AllDclines(ct)) : ScaleDcline(i)
  PROVE  /\ calls < MaxCalls /\ calls' = calls + 1
         /\ Outcome(ct, ct') /\ cleared' = cleared /\ CacheOK'
<1> DEFINE S == {"branch", "resources", "zone", "plant"}
<1>1. /\ calls \in Nat /\ calls \in 0 .. MaxCalls /\ TableOK(ct, calls) /\ CacheOK
      /\ ScaledOK(ct) /\ DOMAIN ct = Fields
      /\ Scalings \subseteq {0, 1}
  BY ChangeTableAssumption, SMT DEF TypeInv, TableOK
<1>2. ASSUME NEW r \in Resources, NEW f \in Scalings, NEW z \in Zones,
             ScalePlantsInZone(r, z, f)
      PROVE  /\ calls < MaxCalls /\ calls' = calls + 1
             /\ Outcome(ct, ct') /\ cleared' = cleared /\ CacheOK'
  <2> DEFINE c == [ct EXCEPT !.resources = @ \cup {r}, !.zone = Put(@, <<r, z>>, f)]
  <2>1. /\ calls < MaxCalls /\ calls' = calls + 1 /\ UNCHANGED <<plants, cleared>>
        /\ ct' = c \/ ct' = ct \/ ct' = PopResource(ct, r)
    BY <1>2 DEF ScalePlantsInZone, Call
  <2>2. ScaledOK(c) /\ Differ(ct, c, S)
    <3>1. TableOK(c, calls + 1)
      BY <1>1, PutFactorType
    <3> QED  BY <1>1, <3>1 DEF TableOK, Differ, Fields
  <2>3. ScaledOK(PopResource(ct, r)) /\ Differ(ct, PopResource(ct, r), S)
    BY <1>1, Popped
  <2> HIDE DEF c
  <2> QED  BY <1>1, <2>1, <2>2, <2>3 DEF Outcome, CacheOK
<1>3. ASSUME NEW r \in Resources, NEW f \in Scalings, NEW i, ScalePlant(r, i, f)
      PROVE  /\ calls < MaxCalls /\ calls' = calls + 1
             /\ Outcome(ct, ct') /\ cleared' = cleared /\ CacheOK'
  <2> DEFINE c == [ct EXCEPT !.resources = @ \cup {r}]
             d == [c EXCEPT !.plant = Put(@, <<r, i>>, f)]
  <2>1. /\ calls < MaxCalls /\ calls' = calls + 1 /\ cleared' = cleared
        /\ RememberPlants(c)
        /\ \/ ct' = c \/ ct' = PopResource(c, r)
           \/ ct' = d /\ i \in DOMAIN PlantTable(c)
    BY <1>3 DEF ScalePlant, Call
  <2>2. /\ ScaledOK(c) /\ Differ(ct, c, S) /\ TableOK(c, calls + 1) /\ DOMAIN c = Fields
    <3>1. ScaledOK(c) /\ Differ(ct, c, {"resources"})
      BY <1>1, AddResourceType
    <3>2. /\ Differ(ct, c, {"branch", "dcline", "resources", "zone", "plant"})
          /\ Differ(ct, c, S)
      BY <3>1 DEF Differ
    <3>3. TableOK(c, calls + 1)
      BY <1>1, <3>1, <3>2, ScaleType
    <3> QED  BY <3>1, <3>2, <3>3 DEF Differ
  <2>3. calls + 1 \in 0 .. MaxCalls
    BY <1>1, <2>1, ChangeTableAssumption, SMT
  <2>4. CacheOK'
    BY <1>1, <2>1, <2>2, <2>3, RememberPlantsType
  <2>5. ASSUME i \in DOMAIN PlantTable(c)
        PROVE  ScaledOK(d) /\ Differ(ct, d, S)
    <3>1. i \in PlantIds
      BY <1>1, <2>2, <2>3, <2>5, PlantRows
    <3>2. TableOK(d, calls + 1)
      BY <1>1, <3>1, PutFactorType
    <3> QED  BY <1>1, <3>2 DEF TableOK, Differ, Fields
  <2>6. ScaledOK(PopResource(c, r)) /\ Differ(ct, PopResource(c, r), S)
    <3>1. ScaledOK(PopResource(c, r)) /\ Differ(c, PopResource(c, r), S)
      BY <2>2, Popped
    <3> QED  BY <2>2, <3>1 DEF Differ
  <2> HIDE DEF c, d
  <2> QED  BY <2>1, <2>2, <2>4, <2>5, <2>6 DEF Outcome
<1>4. ASSUME NEW z \in Zones, ScaleBranchesInZone(z)
      PROVE  /\ calls < MaxCalls /\ calls' = calls + 1
             /\ Outcome(ct, ct') /\ cleared' = cleared /\ CacheOK'
  <2>1. /\ calls < MaxCalls /\ calls' = calls + 1 /\ UNCHANGED <<plants, cleared>>
        /\ \/ ct' = ct \/ ct' = [ct EXCEPT !.branch = EmptyTable.branch]
           \/ ct' = [ct EXCEPT !.branch.zones = @ \cup {z}]
    BY <1>4 DEF ScaleBranchesInZone, Call
  <2>2. TableOK(ct', calls + 1)
    BY <1>1, <2>1, ScaleLineType, IdleType
  <2>3. Differ(ct, ct', S)
    BY <1>1, <2>1 DEF Differ, Fields
  <2> QED  BY <1>1, <2>1, <2>2, <2>3 DEF Outcome, CacheOK, TableOK
<1>5. ASSUME NEW i, ScaleBranch(i)
      PROVE  /\ calls < MaxCalls /\ calls' = calls + 1
             /\ Outcome(ct, ct') /\ cleared' = cleared /\ CacheOK'
  <2>1. /\ calls < MaxCalls /\ calls' = calls + 1 /\ UNCHANGED <<plants, cleared>>
        /\ \/ ct' = ct \/ ct' = [ct EXCEPT !.branch = EmptyTable.branch]
           \/ ct' = [ct EXCEPT !.branch.ids = @ \cup {i}] /\ HasBranch(i)
    BY <1>5 DEF ScaleBranch, Call
  <2>2. HasBranch(i) => i \in BranchIds
    BY <1>1, TableIds DEF HasBranch, BranchTable, Drop
  <2>3. TableOK(ct', calls + 1)
    BY <1>1, <2>1, <2>2, ScaleLineType, IdleType
  <2>4. Differ(ct, ct', S)
    BY <1>1, <2>1 DEF Differ, Fields
  <2> QED  BY <1>1, <2>1, <2>3, <2>4 DEF Outcome, CacheOK, TableOK
<1>6. ASSUME NEW i, ScaleDcline(i)
      PROVE  /\ calls < MaxCalls /\ calls' = calls + 1
             /\ Outcome(ct, ct') /\ cleared' = cleared /\ CacheOK'
  BY <1>6, <1>1, ScaleDclineOutcome
<1> QED  BY <1>2, <1>3, <1>4, <1>5, <1>6

\* remove_bus accepts a bus that nothing is left at.
LEMMA AcceptedBus ==
  ASSUME NEW b, \A k \in DOMAIN Checks : NoObjection(Checks[k], b)
  PROVE  /\ b \in GridBuses(ct) /\ NoRunningPlants(b)
         /\ b \notin EndsOf(Drop(AllBranches(ct), ct.remove_branch))
         /\ b \notin EndsOf(AllDclines(ct))
         /\ \A i \in DOMAIN Storage : Storage[i] # b
         /\ \A i \in DOMAIN ct.storage : ct.storage[i] # b
<1>1. /\ NoObjection("bus", b) /\ NoObjection("plant", b) /\ NoObjection("storage", b)
      /\ NoObjection("branch", b) /\ NoObjection("dcline", b)
  BY SMT DEF Checks
<1>2. HasBus(b) /\ NoRunningPlants(b)
  BY <1>1 DEF NoObjection
<1>3. /\ \A i \in DOMAIN Storage : Storage[i] # b
      /\ \A i \in DOMAIN ct.storage : ct.storage[i] # b
  BY <1>1 DEF NoObjection
<1>4. b \notin EndsOf(BranchTable) /\ b \notin EndsOf(AllDclines(ct))
  BY <1>1 DEF NoObjection
<1> QED  BY <1>2, <1>3, <1>4, KnownBus DEF BranchTable

\* remove_bus, remove_branch, remove_dcline and remove_plant.
LEMMA RemoveOutcome ==
  ASSUME TypeInv,
         \/ \E b \in IdsOf(AllBuses(ct)) : RemoveBus(b)
         \/ \E i \in IdsOf(AllBranches(ct)) : RemoveBranch(i)
         \/ \E i \in IdsOf(AllDclines(ct)) : RemoveDcline(i)
         \/ \E i \in IdsOf(AllPlants(ct)) : RemovePlant(i)
  PROVE  /\ calls < MaxCalls /\ calls' = calls + 1
         /\ Outcome(ct, ct') /\ cleared' = cleared /\ CacheOK'
<1>1. calls \in 0 .. MaxCalls /\ TableOK(ct, calls) /\ CacheOK
  BY DEF TypeInv
<1>2. ASSUME NEW b, RemoveBus(b)
      PROVE  /\ calls < MaxCalls /\ calls' = calls + 1
             /\ Outcome(ct, ct') /\ cleared' = cleared /\ CacheOK'
  <2>1. /\ calls < MaxCalls /\ calls' = calls + 1 /\ cleared' = cleared
        /\ RememberPlants(ct) \/ UNCHANGED plants
    BY <1>2 DEF RemoveBus, Call
  <2>2. \/ ct' = ct
        \/ /\ \A k \in DOMAIN Checks : NoObjection(Checks[k], b)
           /\ ct' = [ct EXCEPT !.remove_bus = @ \cup {b}]
    BY <1>2 DEF RemoveBus, Call
  <2>3. Outcome(ct, ct')
    BY <2>2, AcceptedBus DEF Outcome
  <2>4. CacheOK'
    BY <1>1, <2>1, RememberPlantsType DEF CacheOK
  <2> QED  BY <2>1, <2>3, <2>4
<1>3. ASSUME NEW i, RemoveBranch(i)
      PROVE  /\ calls < MaxCalls /\ calls' = calls + 1
             /\ Outcome(ct, ct') /\ cleared' = cleared /\ CacheOK'
  <2>1. /\ calls < MaxCalls /\ calls' = calls + 1 /\ UNCHANGED <<plants, cleared>>
        /\ \/ ct' = ct
           \/ i \in DOMAIN AllBranches(ct) /\ ct' = [ct EXCEPT !.remove_branch = @ \cup {i}]
    BY <1>3 DEF RemoveBranch, Call, HasBranch, BranchTable, Drop
  <2> QED  BY <1>1, <2>1 DEF Outcome, CacheOK
<1>4. ASSUME NEW i, RemoveDcline(i)
      PROVE  /\ calls < MaxCalls /\ calls' = calls + 1
             /\ Outcome(ct, ct') /\ cleared' = cleared /\ CacheOK'
  <2>1. /\ calls < MaxCalls /\ calls' = calls + 1 /\ UNCHANGED <<plants, cleared>>
        /\ \/ ct' = ct
           \/ i \in DOMAIN AllDclines(ct) /\ ct' = [ct EXCEPT !.remove_dcline = @ \cup {i}]
    BY <1>4 DEF RemoveDcline, Call
  <2> QED  BY <1>1, <2>1 DEF Outcome, CacheOK
<1>5. ASSUME NEW i, RemovePlant(i)
      PROVE  /\ calls < MaxCalls /\ calls' = calls + 1
             /\ Outcome(ct, ct') /\ cleared' = cleared /\ CacheOK'
  <2>1. /\ calls < MaxCalls /\ calls' = calls + 1 /\ cleared' = cleared
        /\ RememberPlants(ct)
        /\ \/ ct' = ct
           \/ /\ i \in DOMAIN PlantTable(ct)
              /\ ct' = [ct EXCEPT !.remove_plant = @ \cup {i}]
    BY <1>5 DEF RemovePlant, Call
  <2>2. DOMAIN PlantTable(ct) \subseteq PlantIds
    BY <1>1, PlantRows
  <2>3. Outcome(ct, ct')
    BY <2>1, <2>2 DEF Outcome
  <2>4. CacheOK'
    BY <1>1, <2>1, RememberPlantsType
  <2> QED  BY <2>1, <2>3, <2>4
<1> QED  BY <1>2, <1>3, <1>4, <1>5

\* Every step is a call, and one that clears or has an outcome of the above.
LEMMA NextOutcome ==
  ASSUME TypeInv, Next
  PROVE  /\ calls < MaxCalls /\ calls' = calls + 1 /\ CacheOK'
         /\ \/ Outcome(ct, ct') /\ cleared' = cleared
            \/ \E which \in Clearable : Clear(which)
<1>1. CASE \E which \in Clearable : Clear(which)
  BY <1>1 DEF Clear, Call, TypeInv, CacheOK
<1>2. CASE ~ \E which \in Clearable : Clear(which)
  BY <1>2, AddOutcome, ScaleOutcome, RemoveOutcome DEF Next
<1> QED  BY <1>1, <1>2

-----------------------------------------------------------------------------
(* Type correctness *)

\* clear empties removed ids together with what they count from.
LEMMA ClearType ==
  ASSUME TypeInv, NEW which \in Clearable
  PROVE  TableOK(Cleared(which), calls + 1)
<1> DEFINE d == Cleared(which)
<1>1. TableOK(ct, calls) /\ DOMAIN ct = Fields /\ calls \in Nat
  BY ChangeTableAssumption, SMT DEF TypeInv, TableOK
<1>2. /\ Differ(ct, d, ClearedFields(which))
      /\ \A f \in ClearedFields(which) : d[f] = EmptyTable[f]
  BY <1>1, ClearedTable
<1>3. /\ "new_bus" \in ClearedFields(which) => "remove_bus" \in ClearedFields(which)
      /\ "new_branch" \in ClearedFields(which) => "remove_branch" \in ClearedFields(which)
  <2>1. which \in {"all", "branch", "bus", "dcline", "plant", "storage"}
    BY ChangeTableAssumption
  <2> QED  BY <2>1 DEF ClearedFields, Fields
<1> HIDE DEF d
<1>4. /\ d.new_bus = ct.new_bus \/ d.remove_bus = {}
      /\ d.new_branch = ct.new_branch \/ d.remove_branch = {}
  BY <1>2, <1>3 DEF Differ, Fields, EmptyTable
<1>5. DOMAIN d = Fields /\ \A f \in Fields : d[f] = ct[f] \/ d[f] = EmptyTable[f]
  BY <1>2 DEF Differ
<1>6. TableOK(d, calls + 1)
  BY <1>1, <1>4, <1>5, PartlyEmptyType
<1> QED  BY <1>6 DEF d

\* The first change table is empty, and so is the cache.
LEMMA InitType == Init => TypeInv
<1> SUFFICES ASSUME Init  PROVE TypeInv
  OBVIOUS
<1>1. TableOK(ct, 0)
  BY EmptyType DEF Init
<1>2. CacheOK
  BY SMT DEF Init, CacheOK
<1>3. calls = 0 /\ 0 \in 0 .. MaxCalls
  BY ChangeTableAssumption, SMT DEF Init
<1>4. cleared \in BOOLEAN
  BY DEF Init
<1> QED  BY <1>1, <1>2, <1>3, <1>4 DEF TypeInv

\* Every call keeps the types.
LEMMA NextType == TypeInv /\ [Next]_vars => TypeInv'
<1>1. ASSUME TypeInv, Next  PROVE TypeInv'
  <2>1. /\ calls < MaxCalls /\ calls' = calls + 1 /\ CacheOK'
        /\ \/ Outcome(ct, ct') /\ cleared' = cleared
           \/ \E which \in Clearable : Clear(which)
    BY <1>1, NextOutcome
  <2>2. /\ calls \in Nat /\ calls' \in 0 .. MaxCalls
        /\ TableOK(ct, calls) /\ cleared \in BOOLEAN
    BY <1>1, <2>1, ChangeTableAssumption, SMT DEF TypeInv
  <2>3. CASE Outcome(ct, ct') /\ cleared' = cleared
    BY <2>1, <2>2, <2>3, OutcomeType DEF TypeInv
  <2>4. CASE \E which \in Clearable : Clear(which)
    <3> PICK which \in Clearable : Clear(which)
      BY <2>4
    <3>1. ct' = Cleared(which) /\ cleared' \in BOOLEAN
      BY <2>2 DEF Clear, Call
    <3>2. TableOK(ct', calls + 1)
      BY <1>1, <3>1, ClearType
    <3> QED  BY <2>1, <2>2, <3>1, <3>2 DEF TypeInv
  <2> QED  BY <2>1, <2>3, <2>4
<1>2. ASSUME TypeInv, UNCHANGED vars  PROVE TypeInv'
  BY <1>2 DEF vars, TypeInv, CacheOK
<1> QED  BY <1>1, <1>2

(***************************************************************************)
(* The change table that any calls lead to holds new elements, removed ids *)
(* and factors of the right kinds, and every bus and branch that it        *)
(* removes is one that the tables with the new elements have.              *)
(***************************************************************************)
THEOREM TypeCorrect == Spec => []TypeOK
<1>1. TypeInv => TypeOK
  <2> SUFFICES ASSUME TypeInv  PROVE TypeOK
    OBVIOUS
  <2>1. /\ DOMAIN AllBuses(ct) = 1 .. Len(Bus) + Len(ct.new_bus)
        /\ DOMAIN AllBranches(ct) = 1 .. Len(Branch) + Len(ct.new_branch)
    BY TableIds DEF TypeInv
  <2> QED  BY <2>1 DEF TypeInv, TypeOK, TableOK, AddedOK, RemovedOK, ScaledOK
<1> QED  BY <1>1, InitType, NextType, PTL DEF Spec

-----------------------------------------------------------------------------
(* Nothing dangles *)

\* No bus of the grid is lost, and none changes.
Wider(c, d) ==
    /\ DOMAIN AllBuses(c) \subseteq DOMAIN AllBuses(d)
    /\ GridBuses(c) \subseteq GridBuses(d)
    /\ \A b \in DOMAIN AllBuses(c) : AllBuses(d)[b] = AllBuses(c)[b]

\* The buses are the same.
LEMMA SameWider ==
  ASSUME NEW c, NEW d, d.new_bus = c.new_bus, d.remove_bus = c.remove_bus
  PROVE  Wider(c, d)
  BY DEF Wider, GridBuses, AllBuses

\* A new bus is added after the others.
LEMMA AddBusWider ==
  ASSUME NEW n \in Nat, NEW c, TableOK(c, n), NEW b \in NewBuses,
         NEW d, d.new_bus = Append(c.new_bus, b), d.remove_bus = c.remove_bus
  PROVE  Wider(c, d)
<1>1. Bus \in Seq(Buses) /\ c.new_bus \in Seq(Buses) /\ b \in Buses
  BY BaseGridAssumption, ChangeTableAssumption, SMT DEF TableOK, AddedOK
<1> HIDE DEF Buses
<1>2. /\ DOMAIN (Bus \o c.new_bus) = 1 .. Len(Bus) + Len(c.new_bus)
      /\ DOMAIN (Bus \o Append(c.new_bus, b)) = 1 .. Len(Bus) + Len(c.new_bus) + 1
      /\ \A i \in 1 .. Len(Bus) + Len(c.new_bus) :
            (Bus \o Append(c.new_bus, b))[i] = (Bus \o c.new_bus)[i]
      /\ Len(Bus) \in Nat /\ Len(c.new_bus) \in Nat
  BY <1>1, ConcatRows, ConcatAppend, SMTT(20)
<1>3. 1 .. Len(Bus) + Len(c.new_bus) \subseteq 1 .. Len(Bus) + Len(c.new_bus) + 1
  BY <1>2, SMT
<1> QED  BY <1>2, <1>3 DEF Wider, GridBuses, AllBuses

\* A good branch stays one in a wider grid.
LEMMA WiderBranch ==
  ASSUME NEW c, NEW d, Wider(c, d), NEW line, GoodBranch(c, line)
  PROVE  GoodBranch(d, line)
  BY DEF Wider, GoodBranch, GridBuses, Ends

\* A wider grid, with the same elements.
LEMMA WiderAttached ==
  ASSUME NEW c, NEW d, Wider(c, d), Attached(c),
         d.new_branch = c.new_branch, c.remove_branch \subseteq d.remove_branch,
         d.new_dcline = c.new_dcline, d.new_plant = c.new_plant,
         d.storage = c.storage, DclineKeyOK(d)
  PROVE  Attached(d)
<1>1. BranchesOK(d)
  <2>1. \A line : GoodBranch(c, line) => GoodBranch(d, line)
    BY WiderBranch
  <2> QED  BY <2>1 DEF Attached, BranchesOK, Wider
<1>2. DclinesOK(d)
  BY DEF Attached, DclinesOK, Wider
<1>3. PlantsOK(d)
  BY DEF Attached, PlantsOK, Wider
<1>4. StorageOK(d)
  BY DEF Attached, StorageOK, Wider
<1> QED  BY <1>1, <1>2, <1>3, <1>4 DEF Attached

\* The base grid is attached, by the assumption on it.
LEMMA EmptyAttached == Attached(EmptyTable)
<1>1. /\ EmptyTable.new_bus = <<>> /\ EmptyTable.new_branch = <<>>
      /\ EmptyTable.new_dcline = <<>> /\ EmptyTable.new_plant = <<>>
      /\ EmptyTable.storage = <<>> /\ EmptyTable.remove_bus = {}
      /\ EmptyTable.dcline = "absent"
  BY DEF EmptyTable
<1>2. AllBuses(EmptyTable) = Bus /\ GridBuses(EmptyTable) = DOMAIN Bus
  BY <1>1, BaseGridAssumption, SMT DEF AllBuses, GridBuses
<1>3. BranchesOK(EmptyTable)
  <2>1. \A i \in DOMAIN Branch : Ends(Branch[i]) \subseteq DOMAIN Bus
    BY BaseGridAssumption DEF EndsOf
  <2>2. \A i \in DOMAIN Branch : GoodBranch(EmptyTable, Branch[i])
    BY <1>2, <2>1, BaseGridAssumption DEF GoodBranch
  <2> QED  BY <1>1, <2>2, SMT DEF BranchesOK
<1>4. DclinesOK(EmptyTable)
  BY <1>1, <1>2, BaseGridAssumption, SMT DEF DclinesOK, EndsOf
<1>5. PlantsOK(EmptyTable)
  BY <1>1, SMT DEF PlantsOK
<1>6. StorageOK(EmptyTable)
  BY <1>1, <1>2, BaseGridAssumption, SMT DEF StorageOK
<1> QED  BY <1>1, <1>3, <1>4, <1>5, <1>6 DEF Attached, DclineKeyOK

\* The rows of a table with removed rows.
LEMMA BranchRows ==
  ASSUME NEW n \in Nat, NEW c, TableOK(c, n)
  PROVE  /\ DOMAIN Branch = 1 .. Len(Branch) /\ Len(Branch) \in Nat
         /\ DOMAIN c.new_branch = 1 .. Len(c.new_branch) /\ Len(c.new_branch) \in Nat
         /\ DOMAIN AllBranches(c) = 1 .. Len(Branch) + Len(c.new_branch)
         /\ \A i \in DOMAIN Branch :
               i \in DOMAIN AllBranches(c) /\ AllBranches(c)[i] = Branch[i]
         /\ \A k \in DOMAIN c.new_branch :
               /\ Len(Branch) + k \in DOMAIN AllBranches(c)
               /\ AllBranches(c)[Len(Branch) + k] = c.new_branch[k]
         /\ \A i \in DOMAIN AllBranches(c) :
               i \in DOMAIN Branch \/ i - Len(Branch) \in DOMAIN c.new_branch
<1>1. Branch \in Seq(Lines) /\ c.new_branch \in Seq(Lines)
  BY BaseGridAssumption, ChangeTableAssumption, SMT DEF TableOK, AddedOK
<1> HIDE DEF Lines
<1>2. /\ DOMAIN Branch = 1 .. Len(Branch) /\ Len(Branch) \in Nat
      /\ DOMAIN c.new_branch = 1 .. Len(c.new_branch) /\ Len(c.new_branch) \in Nat
  BY <1>1, SMT
<1>3. /\ DOMAIN AllBranches(c) = 1 .. Len(Branch) + Len(c.new_branch)
      /\ \A i \in 1 .. Len(Branch) : AllBranches(c)[i] = Branch[i]
      /\ \A k \in 1 .. Len(c.new_branch) : AllBranches(c)[Len(Branch) + k] = c.new_branch[k]
  BY <1>1, ConcatRows, SMT DEF AllBranches
<1> QED  BY <1>2, <1>3, SMTT(20)

\* The rows of the table of DC lines.
LEMMA DclineRows ==
  ASSUME NEW n \in Nat, NEW c, TableOK(c, n)
  PROVE  /\ DOMAIN Dcline = 1 .. Len(Dcline) /\ Len(Dcline) \in Nat
         /\ DOMAIN c.new_dcline = 1 .. Len(c.new_dcline) /\ Len(c.new_dcline) \in Nat
         /\ \A i \in DOMAIN Dcline :
               i \in DOMAIN AllDclines(c) /\ AllDclines(c)[i] = Dcline[i]
         /\ \A k \in DOMAIN c.new_dcline :
               /\ Len(Dcline) + k \in DOMAIN AllDclines(c)
               /\ AllDclines(c)[Len(Dcline) + k] = c.new_dcline[k]
         /\ \A i \in DOMAIN AllDclines(c) :
               i \in DOMAIN Dcline \/ i - Len(Dcline) \in DOMAIN c.new_dcline
<1>1. Dcline \in Seq(Lines) /\ c.new_dcline \in Seq(Lines)
  BY BaseGridAssumption, ChangeTableAssumption, SMT DEF TableOK, AddedOK
<1> HIDE DEF Lines
<1>2. /\ DOMAIN Dcline = 1 .. Len(Dcline) /\ Len(Dcline) \in Nat
      /\ DOMAIN c.new_dcline = 1 .. Len(c.new_dcline) /\ Len(c.new_dcline) \in Nat
  BY <1>1, SMT
<1>3. /\ DOMAIN AllDclines(c) = 1 .. Len(Dcline) + Len(c.new_dcline)
      /\ \A i \in 1 .. Len(Dcline) : AllDclines(c)[i] = Dcline[i]
      /\ \A k \in 1 .. Len(c.new_dcline) : AllDclines(c)[Len(Dcline) + k] = c.new_dcline[k]
  BY <1>1, ConcatRows, SMT DEF AllDclines
<1> QED  BY <1>2, <1>3, SMTT(20)

\* Where the buses are the same, what is attached to them stays attached.
LEMMA SameBuses ==
  ASSUME NEW c, NEW d, GridBuses(d) = GridBuses(c), AllBuses(d) = AllBuses(c)
  PROVE  /\ BranchesOK(c) /\ d.new_branch = c.new_branch
               /\ d.remove_branch = c.remove_branch => BranchesOK(d)
         /\ DclinesOK(c) /\ d.new_dcline = c.new_dcline => DclinesOK(d)
         /\ PlantsOK(c) /\ d.new_plant = c.new_plant => PlantsOK(d)
         /\ StorageOK(c) /\ d.storage = c.storage => StorageOK(d)
<1>1. \A l : GoodBranch(d, l) <=> GoodBranch(c, l)
  BY DEF GoodBranch
<1>2. ASSUME BranchesOK(c), d.new_branch = c.new_branch, d.remove_branch = c.remove_branch
      PROVE  BranchesOK(d)
  BY <1>1, <1>2 DEF BranchesOK
<1>3. DclinesOK(c) /\ d.new_dcline = c.new_dcline => DclinesOK(d)
  BY DEF DclinesOK
<1>4. PlantsOK(c) /\ d.new_plant = c.new_plant => PlantsOK(d)
  BY DEF PlantsOK
<1>5. StorageOK(c) /\ d.storage = c.storage => StorageOK(d)
  BY DEF StorageOK
<1> QED  BY <1>2, <1>3, <1>4, <1>5

\* add_branch, add_dcline, add_plant and add_storage_capacity attach what they add.
LEMMA AddAttached ==
  ASSUME NEW n \in Nat, NEW c, TableOK(c, n), Attached(c)
  PROVE  /\ \A line \in NewLines : GoodBranch(c, line) =>
               Attached([c EXCEPT !.new_branch = Append(@, line)])
         /\ \A line \in NewLines : Ends(line) \subseteq GridBuses(c) =>
               Attached([c EXCEPT !.new_dcline = Append(@, line)])
         /\ \A p \in NewPlants : p.bus \in GridBuses(c) =>
               Attached([c EXCEPT !.new_plant = Append(@, p)])
         /\ \A b \in GridBuses(c) : Attached([c EXCEPT !.storage = Append(@, b)])
<1>1. GridBuses(c) \subseteq DOMAIN AllBuses(c) /\ DOMAIN c = Fields
  BY DEF GridBuses, TableOK
<1>2. BranchesOK(c) /\ DclinesOK(c) /\ PlantsOK(c) /\ StorageOK(c)
  BY DEF Attached
<1>3. ASSUME NEW S, NEW t \in Seq(S), NEW e
      PROVE  /\ Append(t, e) # <<>>
             /\ \A k \in DOMAIN Append(t, e) :
                   \/ Append(t, e)[k] = e
                   \/ k \in DOMAIN t /\ Append(t, e)[k] = t[k]
  BY SMT
<1>4. ASSUME NEW line \in NewLines, GoodBranch(c, line)
      PROVE  Attached([c EXCEPT !.new_branch = Append(@, line)])
  <2> DEFINE d == [c EXCEPT !.new_branch = Append(@, line)]
  <2>1. Differ(c, d, {"new_branch"}) /\ d.new_branch = Append(c.new_branch, line)
    BY <1>1, PutField DEF Fields
  <2> HIDE DEF d
  <2>2. /\ d.new_bus = c.new_bus /\ d.remove_bus = c.remove_bus
        /\ d.new_dcline = c.new_dcline /\ d.remove_dcline = c.remove_dcline
        /\ d.new_plant = c.new_plant /\ d.storage = c.storage /\ d.dcline = c.dcline
        /\ d.remove_branch = c.remove_branch
    BY <2>1 DEF Differ, Fields
  <2>3. \A k \in DOMAIN d.new_branch :
           \/ d.new_branch[k] = line
           \/ k \in DOMAIN c.new_branch /\ d.new_branch[k] = c.new_branch[k]
    BY <1>3, <2>1, SMT DEF TableOK, AddedOK
  <2>4. GridBuses(d) = GridBuses(c) /\ AllBuses(d) = AllBuses(c)
    BY <2>2 DEF GridBuses, AllBuses
  <2>5. BranchesOK(d)
    <3>1. \A l : GoodBranch(d, l) <=> GoodBranch(c, l)
      BY <2>4 DEF GoodBranch
    <3>2. Ends(line) \subseteq DOMAIN AllBuses(c)
      BY <1>1, <1>4 DEF GoodBranch
    <3> QED  BY <1>2, <1>4, <2>2, <2>3, <2>4, <3>1, <3>2 DEF BranchesOK
  <2>6. DclinesOK(d) /\ PlantsOK(d) /\ StorageOK(d)
    BY <1>2, <2>2, <2>4, SameBuses
  <2>7. DclineKeyOK(d)
    BY <2>2 DEF Attached, DclineKeyOK, Modified, Key
  <2> QED  BY <2>5, <2>6, <2>7 DEF Attached, d
<1>5. ASSUME NEW line \in NewLines, Ends(line) \subseteq GridBuses(c)
      PROVE  Attached([c EXCEPT !.new_dcline = Append(@, line)])
  <2> DEFINE d == [c EXCEPT !.new_dcline = Append(@, line)]
  <2>1. Differ(c, d, {"new_dcline"}) /\ d.new_dcline = Append(c.new_dcline, line)
    BY <1>1, PutField DEF Fields
  <2> HIDE DEF d
  <2>2. /\ d.new_bus = c.new_bus /\ d.remove_bus = c.remove_bus
        /\ d.new_branch = c.new_branch /\ d.remove_branch = c.remove_branch
        /\ d.new_plant = c.new_plant /\ d.storage = c.storage
    BY <2>1 DEF Differ, Fields
  <2>3. \A k \in DOMAIN d.new_dcline :
           \/ d.new_dcline[k] = line
           \/ k \in DOMAIN c.new_dcline /\ d.new_dcline[k] = c.new_dcline[k]
    BY <1>3, <2>1, SMT DEF TableOK, AddedOK
  <2>4. GridBuses(d) = GridBuses(c) /\ AllBuses(d) = AllBuses(c)
    BY <2>2 DEF GridBuses, AllBuses
  <2>5. DclinesOK(d)
    BY <1>2, <1>5, <2>3, <2>4 DEF DclinesOK
  <2>6. BranchesOK(d) /\ PlantsOK(d) /\ StorageOK(d)
    BY <1>2, <2>2, <2>4, SameBuses
  <2>7. DclineKeyOK(d)
    <3>1. d.new_dcline # <<>>
      BY <1>3, <2>1 DEF TableOK, AddedOK
    <3> QED  BY <3>1 DEF DclineKeyOK, Modified, Key
  <2> QED  BY <2>5, <2>6, <2>7 DEF Attached, d
<1>6. ASSUME NEW p \in NewPlants, p.bus \in GridBuses(c)
      PROVE  Attached([c EXCEPT !.new_plant = Append(@, p)])
  <2> DEFINE d == [c EXCEPT !.new_plant = Append(@, p)]
  <2>1. Differ(c, d, {"new_plant"}) /\ d.new_plant = Append(c.new_plant, p)
    BY <1>1, PutField DEF Fields
  <2> HIDE DEF d
  <2>2. /\ d.new_bus = c.new_bus /\ d.remove_bus = c.remove_bus
        /\ d.new_branch = c.new_branch /\ d.remove_branch = c.remove_branch
        /\ d.new_dcline = c.new_dcline /\ d.remove_dcline = c.remove_dcline
        /\ d.storage = c.storage /\ d.dcline = c.dcline
    BY <2>1 DEF Differ, Fields
  <2>3. \A k \in DOMAIN d.new_plant :
           \/ d.new_plant[k] = p
           \/ k \in DOMAIN c.new_plant /\ d.new_plant[k] = c.new_plant[k]
    BY <1>3, <2>1, SMT DEF TableOK, AddedOK
  <2>4. GridBuses(d) = GridBuses(c) /\ AllBuses(d) = AllBuses(c)
    BY <2>2 DEF GridBuses, AllBuses
  <2>5. PlantsOK(d)
    BY <1>1, <1>2, <1>6, <2>3, <2>4 DEF PlantsOK
  <2>6. BranchesOK(d) /\ DclinesOK(d) /\ StorageOK(d)
    BY <1>2, <2>2, <2>4, SameBuses
  <2>7. DclineKeyOK(d)
    BY <2>2 DEF Attached, DclineKeyOK, Modified, Key
  <2> QED  BY <2>5, <2>6, <2>7 DEF Attached, d
<1>7. ASSUME NEW b \in GridBuses(c)
      PROVE  Attached([c EXCEPT !.storage = Append(@, b)])
  <2> DEFINE d == [c EXCEPT !.storage = Append(@, b)]
  <2>1. Differ(c, d, {"storage"}) /\ d.storage = Append(c.storage, b)
    BY <1>1, PutField DEF Fields
  <2> HIDE DEF d
  <2>2. /\ d.new_bus = c.new_bus /\ d.remove_bus = c.remove_bus
        /\ d.new_branch = c.new_branch /\ d.remove_branch = c.remove_branch
        /\ d.new_dcline = c.new_dcline /\ d.remove_dcline = c.remove_dcline
        /\ d.new_plant = c.new_plant /\ d.dcline = c.dcline
    BY <2>1 DEF Differ, Fields
  <2>3. \A k \in DOMAIN d.storage :
           \/ d.storage[k] = b
           \/ k \in DOMAIN c.storage /\ d.storage[k] = c.storage[k]
    BY <1>3, <2>1, SMT DEF TableOK, AddedOK
  <2>4. GridBuses(d) = GridBuses(c) /\ AllBuses(d) = AllBuses(c)
    BY <2>2 DEF GridBuses, AllBuses
  <2>5. StorageOK(d)
    BY <1>2, <2>3, <2>4 DEF StorageOK
  <2>6. BranchesOK(d) /\ DclinesOK(d) /\ PlantsOK(d)
    BY <1>2, <2>2, <2>4, SameBuses
  <2>7. DclineKeyOK(d)
    BY <2>2 DEF Attached, DclineKeyOK, Modified, Key
  <2> QED  BY <2>5, <2>6, <2>7 DEF Attached, d
<1> QED  BY <1>4, <1>5, <1>6, <1>7

\* remove_bus takes a bus away that is no end of what stays, and has no storage.
LEMMA RemoveBusAttached ==
  ASSUME NEW n \in Nat, NEW c, TableOK(c, n), Attached(c), NEW b \in GridBuses(c),
         b \notin EndsOf(Drop(AllBranches(c), c.remove_branch)),
         b \notin EndsOf(AllDclines(c)),
         \A i \in DOMAIN Storage : Storage[i] # b,
         \A i \in DOMAIN c.storage : c.storage[i] # b
  PROVE  Attached([c EXCEPT !.remove_bus = @ \cup {b}])
<1> DEFINE d == [c EXCEPT !.remove_bus = @ \cup {b}]
<1>1. Differ(c, d, {"remove_bus"}) /\ d.remove_bus = c.remove_bus \cup {b}
  BY PutField DEF TableOK, Fields
<1> HIDE DEF d
<1>2. /\ d.new_bus = c.new_bus /\ d.new_branch = c.new_branch
      /\ d.remove_branch = c.remove_branch /\ d.new_dcline = c.new_dcline
      /\ d.remove_dcline = c.remove_dcline /\ d.new_plant = c.new_plant
      /\ d.storage = c.storage /\ d.dcline = c.dcline
  BY <1>1 DEF Differ, Fields
<1>3. AllBuses(d) = AllBuses(c) /\ GridBuses(d) = GridBuses(c) \ {b}
  BY <1>1, <1>2 DEF AllBuses, GridBuses
<1>4. \A line : GoodBranch(c, line) /\ b \notin Ends(line) => GoodBranch(d, line)
  BY <1>3 DEF GoodBranch
<1>5. \A i \in DOMAIN AllBranches(c) \ c.remove_branch : b \notin Ends(AllBranches(c)[i])
  BY DEF EndsOf, Drop
<1>6. BranchesOK(d)
  <2>1. \A i \in DOMAIN Branch :
          i \in DOMAIN AllBranches(c) /\ AllBranches(c)[i] = Branch[i]
    BY BranchRows, SMT
  <2>2. \A k \in DOMAIN c.new_branch :
           /\ Len(Branch) + k \in DOMAIN AllBranches(c)
           /\ AllBranches(c)[Len(Branch) + k] = c.new_branch[k]
    BY BranchRows, SMT
  <2>3. \A i \in DOMAIN Branch \ c.remove_branch : GoodBranch(d, Branch[i])
    BY <1>4, <1>5, <2>1 DEF Attached, BranchesOK
  <2>4. \A k \in DOMAIN c.new_branch :
           Len(Branch) + k \notin c.remove_branch => GoodBranch(d, c.new_branch[k])
    <3> SUFFICES ASSUME NEW k \in DOMAIN c.new_branch,
                        Len(Branch) + k \notin c.remove_branch
                 PROVE  GoodBranch(d, c.new_branch[k])
      OBVIOUS
    <3>1. b \notin Ends(c.new_branch[k])
      BY <1>5, <2>2
    <3> QED  BY <1>4, <3>1 DEF Attached, BranchesOK
  <2> QED  BY <1>2, <1>3, <2>3, <2>4 DEF Attached, BranchesOK
<1>7. DclinesOK(d)
  <2>1. \A i \in DOMAIN AllDclines(c) : b \notin Ends(AllDclines(c)[i])
    BY DEF EndsOf
  <2>2. \A i \in DOMAIN Dcline : b \notin Ends(Dcline[i])
    BY <2>1, DclineRows, SMT
  <2>3. \A k \in DOMAIN c.new_dcline : b \notin Ends(c.new_dcline[k])
    BY <2>1, DclineRows, SMT
  <2> QED  BY <1>2, <1>3, <2>2, <2>3 DEF Attached, DclinesOK
<1>8. PlantsOK(d) /\ StorageOK(d) /\ DclineKeyOK(d)
  BY <1>2, <1>3 DEF Attached, PlantsOK, StorageOK, DclineKeyOK, Modified, Key
<1> QED  BY <1>6, <1>7, <1>8 DEF Attached, d

\* Whatever a call does that does not clear, what was attached stays so.
LEMMA OutcomeAttached ==
  ASSUME NEW n \in Nat, NEW c, TableOK(c, n), Attached(c), NEW d, Outcome(c, d)
  PROVE  Attached(d)
<1>1. DOMAIN c = Fields /\ DclineKeyOK(c)
  BY DEF TableOK, Attached
<1>2. ASSUME NEW b \in NewBuses, d = [c EXCEPT !.new_bus = Append(@, b)]
      PROVE  Attached(d)
  <2>1. Differ(c, d, {"new_bus"}) /\ d.new_bus = Append(c.new_bus, b)
    BY <1>1, <1>2, PutField DEF Fields
  <2>2. /\ d.remove_bus = c.remove_bus /\ d.new_branch = c.new_branch
        /\ d.remove_branch = c.remove_branch /\ d.new_dcline = c.new_dcline
        /\ d.remove_dcline = c.remove_dcline /\ d.new_plant = c.new_plant
        /\ d.storage = c.storage /\ d.dcline = c.dcline
    BY <2>1 DEF Differ, Fields
  <2>3. Wider(c, d)
    BY <2>1, <2>2, AddBusWider
  <2>4. DclineKeyOK(d)
    BY <1>1, <2>2 DEF DclineKeyOK, Modified, Key
  <2> QED  BY <2>2, <2>3, <2>4, WiderAttached
<1>3. ASSUME Differ(c, d, {"branch", "resources", "zone", "plant", "remove_branch",
                           "remove_dcline", "remove_plant", "dcline"}),
             c.remove_branch \subseteq d.remove_branch, DclineKeyOK(d)
      PROVE  Attached(d)
  <2>1. /\ d.new_bus = c.new_bus /\ d.remove_bus = c.remove_bus
        /\ d.new_branch = c.new_branch /\ d.new_dcline = c.new_dcline
        /\ d.new_plant = c.new_plant /\ d.storage = c.storage
    BY <1>3 DEF Differ, Fields
  <2> QED  BY <1>3, <2>1, SameWider, WiderAttached
<1>4. ASSUME NEW i, d = [c EXCEPT !.remove_branch = @ \cup {i}]
      PROVE  Attached(d)
  <2>1. Differ(c, d, {"remove_branch"}) /\ d.remove_branch = c.remove_branch \cup {i}
    BY <1>1, <1>4, PutField DEF Fields
  <2>2. DclineKeyOK(d)
    BY <1>1, <2>1 DEF DclineKeyOK, Modified, Key, Differ, Fields
  <2> QED  BY <1>3, <2>1, <2>2 DEF Differ
<1>5. ASSUME NEW i, d = [c EXCEPT !.remove_dcline = @ \cup {i}]
      PROVE  Attached(d)
  <2>1. Differ(c, d, {"remove_dcline"}) /\ d.remove_dcline = c.remove_dcline \cup {i}
    BY <1>1, <1>5, PutField DEF Fields
  <2>2. DclineKeyOK(d) /\ d.remove_branch = c.remove_branch
    BY <1>1, <2>1 DEF DclineKeyOK, Modified, Key, Differ, Fields
  <2> QED  BY <1>3, <2>1, <2>2 DEF Differ
<1>6. ASSUME NEW i, d = [c EXCEPT !.remove_plant = @ \cup {i}]
      PROVE  Attached(d)
  <2>1. Differ(c, d, {"remove_plant"})
    BY <1>1, <1>6, PutField DEF Fields
  <2>2. DclineKeyOK(d) /\ d.remove_branch = c.remove_branch
    BY <1>1, <2>1 DEF DclineKeyOK, Modified, Key, Differ, Fields
  <2> QED  BY <1>3, <2>1, <2>2 DEF Differ
<1>7. ASSUME NEW v, v = "empty" => Modified("dcline", c), d = [c EXCEPT !.dcline = v]
      PROVE  Attached(d)
  <2>1. Differ(c, d, {"dcline"}) /\ d.dcline = v
    BY <1>1, <1>7, PutField DEF Fields
  <2>2. DclineKeyOK(d) /\ d.remove_branch = c.remove_branch
    BY <1>7, <2>1 DEF DclineKeyOK, Modified, Key, Differ, Fields
  <2> QED  BY <1>3, <2>1, <2>2 DEF Differ
<1>8. ASSUME Differ(c, d, {"branch", "resources", "zone", "plant"})
      PROVE  Attached(d)
  <2>1. DclineKeyOK(d) /\ d.remove_branch = c.remove_branch
    BY <1>1, <1>8 DEF DclineKeyOK, Modified, Key, Differ, Fields
  <2> QED  BY <1>3, <1>8, <2>1 DEF Differ
<1>9. ASSUME NEW b \in GridBuses(c),
             b \notin EndsOf(Drop(AllBranches(c), c.remove_branch)),
             b \notin EndsOf(AllDclines(c)), \A i \in DOMAIN Storage : Storage[i] # b,
             \A i \in DOMAIN c.storage : c.storage[i] # b,
             d = [c EXCEPT !.remove_bus = @ \cup {b}]
      PROVE  Attached(d)
  BY <1>9, RemoveBusAttached
<1>10. ASSUME NEW line \in NewLines,
             \/ GoodBranch(c, line) /\ d = [c EXCEPT !.new_branch = Append(@, line)]
             \/ /\ Ends(line) \subseteq GridBuses(c)
                /\ d = [c EXCEPT !.new_dcline = Append(@, line)]
      PROVE  Attached(d)
  BY <1>10, AddAttached, SMT
<1>11. ASSUME NEW p \in NewPlants, p.bus \in GridBuses(c),
              d = [c EXCEPT !.new_plant = Append(@, p)]
       PROVE  Attached(d)
  BY <1>11, AddAttached
<1>12. ASSUME NEW b \in GridBuses(c), d = [c EXCEPT !.storage = Append(@, b)]
       PROVE  Attached(d)
  BY <1>12, AddAttached
<1> QED  BY <1>2, <1>4, <1>5, <1>6, <1>7, <1>8, <1>9, <1>10, <1>11, <1>12 DEF Outcome

\* clear attaches nothing to anything else, unless it brings buses or branches back.
LEMMA ClearAttached ==
  ASSUME DOMAIN ct = Fields, Attached(ct), NEW which \in Clearable,
         which \notin {"bus", "branch"}
  PROVE  Attached(Cleared(which))
<1> DEFINE d == Cleared(which)
<1>1. /\ Differ(ct, d, ClearedFields(which))
      /\ \A f \in ClearedFields(which) : d[f] = EmptyTable[f]
  BY ClearedTable
<1>2. which \in {"all", "branch", "bus", "dcline", "plant", "storage"}
  BY ChangeTableAssumption
<1>3. CASE which = "all"
  BY <1>3, EmptyAttached DEF Cleared
<1>4. CASE which # "all"
  <2>1. ClearedFields(which) \subseteq
           {"dcline", "new_dcline", "remove_dcline", "new_plant", "remove_plant",
            "resources", "zone", "plant", "storage"}
    BY <1>2, <1>4 DEF ClearedFields
  <2>2. /\ EmptyTable.new_dcline = <<>> /\ EmptyTable.new_plant = <<>>
        /\ EmptyTable.storage = <<>> /\ EmptyTable.dcline = "absent"
    BY DEF EmptyTable
  <2>3. \/ d.dcline = "absent"
        \/ /\ d.dcline = ct.dcline /\ d.new_dcline = ct.new_dcline
           /\ d.remove_dcline = ct.remove_dcline
    BY <1>1, <1>2, <1>4, <2>2 DEF ClearedFields, Differ, Fields
  <2> HIDE DEF d
  <2>4. /\ d.new_bus = ct.new_bus /\ d.remove_bus = ct.remove_bus
        /\ d.new_branch = ct.new_branch /\ d.remove_branch = ct.remove_branch
    BY <1>1, <2>1 DEF Differ, Fields
  <2>5. /\ d.new_dcline = ct.new_dcline \/ d.new_dcline = <<>>
        /\ d.new_plant = ct.new_plant \/ d.new_plant = <<>>
        /\ d.storage = ct.storage \/ d.storage = <<>>
    BY <1>1, <2>2 DEF Differ, Fields
  <2>6. GridBuses(d) = GridBuses(ct) /\ AllBuses(d) = AllBuses(ct)
    BY <2>4 DEF GridBuses, AllBuses
  <2>7. BranchesOK(d)
    BY <2>4, <2>6 DEF Attached, BranchesOK, GoodBranch
  <2>8. DclinesOK(d)
    BY <2>5, <2>6, SMT DEF Attached, DclinesOK
  <2>9. PlantsOK(d) /\ StorageOK(d)
    BY <2>5, <2>6, SMT DEF Attached, PlantsOK, StorageOK
  <2>10. DclineKeyOK(d)
    BY <2>3 DEF Attached, DclineKeyOK, Modified, Key
  <2> QED  BY <2>7, <2>8, <2>9, <2>10 DEF Attached, d
<1> QED  BY <1>3, <1>4

\* The inductive invariant of the two theorems that follow.
LEMMA InductiveAttach == Spec => []AttachInv
<1>1. Init => AttachInv
  BY InitType, EmptyAttached DEF AttachInv, Init
<1>2. AttachInv /\ [Next]_vars => AttachInv'
  <2> SUFFICES ASSUME AttachInv, [Next]_vars  PROVE AttachInv'
    OBVIOUS
  <2>1. TypeInv /\ TypeInv' /\ DOMAIN ct = Fields
    BY NextType DEF AttachInv, TypeInv, TableOK
  <2>2. CASE Outcome(ct, ct') /\ cleared' = cleared
    <3>1. calls \in Nat /\ TableOK(ct, calls)
      BY <2>1, ChangeTableAssumption, SMT DEF TypeInv
    <3> QED  BY <2>1, <2>2, <3>1, OutcomeAttached DEF AttachInv
  <2>3. ASSUME NEW which \in Clearable, Clear(which)  PROVE AttachInv'
    <3>1. /\ ct' = Cleared(which)
          /\ cleared' = (which # "all" /\ (cleared \/ which \in {"bus", "branch"}))
      BY <2>3 DEF Clear, Call
    <3>2. CASE which = "all"
      BY <2>1, <3>1, <3>2, EmptyAttached DEF AttachInv, Cleared
    <3>3. CASE which # "all"
      <4> SUFFICES ASSUME ~cleared'  PROVE Attached(ct')
        BY <2>1 DEF AttachInv
      <4>1. ~cleared /\ which \notin {"bus", "branch"}
        BY <3>1, <3>3
      <4> QED  BY <2>1, <3>1, <4>1, ClearAttached DEF AttachInv
    <3> QED  BY <3>2, <3>3
  <2>4. CASE UNCHANGED vars
    BY <2>1, <2>4 DEF vars, AttachInv
  <2> QED  BY <2>1, <2>2, <2>3, <2>4, NextOutcome
<1> QED  BY <1>1, <1>2, PTL DEF Spec

\* The tables of the grid that a change table leads to.
LEMMA GridTables ==
  ASSUME NEW c
  PROVE  /\ DOMAIN GetGrid(c).bus = GridBuses(c)
         /\ \A b \in GridBuses(c) : GetGrid(c).bus[b] = AllBuses(c)[b]
         /\ DOMAIN GetGrid(c).bus2sub = DOMAIN AllBuses(c)
         /\ \A b \in DOMAIN AllBuses(c) : GetGrid(c).bus2sub[b] = AllBuses(c)[b].place
         /\ DOMAIN GetGrid(c).branch = DOMAIN AllBranches(c) \ c.remove_branch
         /\ \A i \in DOMAIN GetGrid(c).branch : GetGrid(c).branch[i] = AllBranches(c)[i]
         /\ GetGrid(c).dcline = AllDclines(c)
         /\ GetGrid(c).storage = Storage \o c.storage
         /\ GetGrid(c).plant = ScaledPlants(c)
         /\ GetGrid(c).gencost = GencostIds(c)
  BY DEF GetGrid, Drop, GridBuses, AllDclines

\* Every branch of the grid that a change table leads to is a good one, and every
\* DC line and storage unit is at buses of the grid.
LEMMA AttachedGrid ==
  ASSUME NEW n \in Nat, NEW c, TableOK(c, n), Attached(c)
  PROVE  /\ \A i \in DOMAIN AllBranches(c) \ c.remove_branch :
               GoodBranch(c, AllBranches(c)[i])
         /\ \A i \in DOMAIN AllDclines(c) : Ends(AllDclines(c)[i]) \subseteq GridBuses(c)
         /\ \A i \in DOMAIN (Storage \o c.storage) :
              (Storage \o c.storage)[i] \in GridBuses(c)
<1>1. ASSUME NEW i \in DOMAIN AllBranches(c) \ c.remove_branch
      PROVE  GoodBranch(c, AllBranches(c)[i])
  <2>1. CASE i \in DOMAIN Branch
    BY <2>1, BranchRows DEF Attached, BranchesOK
  <2>2. CASE i \notin DOMAIN Branch
    <3>1. /\ i - Len(Branch) \in DOMAIN c.new_branch /\ i \in Int /\ Len(Branch) \in Nat
      BY <2>2, BranchRows, SMT
    <3> DEFINE k == i - Len(Branch)
    <3>2. i = Len(Branch) + k
      BY <3>1, SMT
    <3> HIDE DEF k
    <3>3. AllBranches(c)[i] = c.new_branch[k]
      BY <3>1, <3>2, BranchRows, SMT DEF k
    <3> QED  BY <3>1, <3>2, <3>3 DEF Attached, BranchesOK, k
  <2> QED  BY <2>1, <2>2
<1>2. ASSUME NEW i \in DOMAIN AllDclines(c)
      PROVE  Ends(AllDclines(c)[i]) \subseteq GridBuses(c)
  <2>1. CASE i \in DOMAIN Dcline
    BY <2>1, DclineRows, SMT DEF Attached, DclinesOK
  <2>2. CASE i \notin DOMAIN Dcline
    <3>1. /\ i - Len(Dcline) \in DOMAIN c.new_dcline /\ i \in Int /\ Len(Dcline) \in Nat
      BY <2>2, DclineRows, TableIds, SMT DEF AllDclines
    <3> DEFINE k == i - Len(Dcline)
    <3>2. i = Len(Dcline) + k
      BY <3>1, SMT
    <3> HIDE DEF k
    <3>3. AllDclines(c)[i] = c.new_dcline[k]
      BY <3>1, <3>2, DclineRows, SMT DEF k
    <3> QED  BY <3>1, <3>3 DEF Attached, DclinesOK, k
  <2> QED  BY <2>1, <2>2
<1>3. ASSUME NEW i \in DOMAIN (Storage \o c.storage)
      PROVE  (Storage \o c.storage)[i] \in GridBuses(c)
  <2>1. Storage \in Seq(GridBuses(c)) /\ c.storage \in Seq(GridBuses(c))
    <3>1. Storage \in Seq(DOMAIN Bus) /\ c.storage \in Seq(BusIds)
      BY BaseGridAssumption DEF TableOK, AddedOK
    <3>2. /\ \A k \in DOMAIN Storage : Storage[k] \in GridBuses(c)
          /\ \A k \in DOMAIN c.storage : c.storage[k] \in GridBuses(c)
      BY DEF Attached, StorageOK
    <3>3. ASSUME NEW S, NEW T, NEW q \in Seq(S), \A k \in DOMAIN q : q[k] \in T
          PROVE  q \in Seq(T)
      BY <3>3, SMT
    <3> QED  BY <3>1, <3>2, <3>3
  <2> HIDE DEF GridBuses
  <2> QED  BY <2>1, ConcatRows, SMT
<1> QED  BY <1>1, <1>2, <1>3

\* So it passes the tests on lines and storage units.
LEMMA AttachedChecks == AttachInv => NothingDangles
<1> SUFFICES ASSUME AttachInv, ~cleared
             PROVE  LET g == GetGrid(ct)
                    IN  /\ CheckForUndescribedBuses(g)
                        /\ CheckAcInterconnects(g)
                        /\ CheckForLoopBranches(g)
                        /\ \A i \in DOMAIN g.storage : g.storage[i] \in DOMAIN g.bus
  BY DEF NothingDangles
<1> DEFINE g == GetGrid(ct)
<1>1. calls \in Nat /\ TableOK(ct, calls) /\ Attached(ct)
  BY ChangeTableAssumption, SMT DEF AttachInv, TypeInv
<1>2. /\ DOMAIN g.bus = GridBuses(ct)
      /\ \A b \in GridBuses(ct) : g.bus[b] = AllBuses(ct)[b]
      /\ DOMAIN g.branch = DOMAIN AllBranches(ct) \ ct.remove_branch
      /\ \A i \in DOMAIN g.branch : g.branch[i] = AllBranches(ct)[i]
      /\ g.dcline = AllDclines(ct) /\ g.storage = Storage \o ct.storage
  BY GridTables
<1> HIDE DEF g
<1>3. \A i \in DOMAIN g.branch : GoodBranch(ct, g.branch[i])
  BY <1>1, <1>2, AttachedGrid
<1>4. CheckForUndescribedBuses(g)
  <2>1. \A i \in DOMAIN g.branch : Ends(g.branch[i]) \subseteq DOMAIN g.bus
    BY <1>2, <1>3 DEF GoodBranch
  <2>2. \A i \in DOMAIN g.dcline : Ends(g.dcline[i]) \subseteq DOMAIN g.bus
    BY <1>1, <1>2, AttachedGrid
  <2> QED  BY <2>1, <2>2 DEF CheckForUndescribedBuses, EndsOf
<1>5. CheckAcInterconnects(g)
  BY <1>2, <1>3 DEF CheckAcInterconnects, SameAtEnds, GoodBranch, Ends
<1>6. CheckForLoopBranches(g)
  BY <1>3 DEF CheckForLoopBranches, GoodBranch
<1>7. \A i \in DOMAIN g.storage : g.storage[i] \in DOMAIN g.bus
  BY <1>1, <1>2, AttachedGrid
<1> QED  BY <1>4, <1>5, <1>6, <1>7 DEF g

(***************************************************************************)
(* NothingDangles, for every base grid and any calls: each method checks   *)
(* its own element against the tables as they are, and no later call takes *)
(* away what an element is attached to.                                    *)
(***************************************************************************)
THEOREM LinesHaveEnds == Spec => []NothingDangles
  BY AttachedChecks, InductiveAttach, PTL

(***************************************************************************)
(* FailsInFourWays, for every base grid and any calls: the conditions of   *)
(* _apply_change_table that the checks of the methods do not cover.        *)
(***************************************************************************)
THEOREM FourWaysToFail == Spec => []FailsInFourWays
<1>1. AttachInv => FailsInFourWays
  <2> SUFFICES ASSUME AttachInv, ~cleared, Fails(ct)
               PROVE  \/ \E z \in ct.branch.zones : ~ZoneHasLine(z)
                      \/ \E i \in DOMAIN ct.new_branch : ~KnownVoltage(ct, ct.new_branch[i])
                      \/ ct.new_dcline # <<>> /\ Dcline = <<>>
                      \/ ct.dcline = "empty" /\ Modified("dcline", ct)
    BY DEF FailsInFourWays
  <2>1. Attached(ct)
    BY DEF AttachInv
  <2>2. \A i \in DOMAIN ct.new_branch : Described(ct, ct.new_branch[i])
    BY <2>1 DEF Attached, BranchesOK, Described
  <2>3. \A i \in DOMAIN ct.new_dcline : Described(ct, ct.new_dcline[i])
    BY <2>1 DEF Attached, DclinesOK, Described, GridBuses
  <2>4. \A i \in DOMAIN ct.new_plant : ct.new_plant[i].bus \in DOMAIN AllBuses(ct)
    BY <2>1 DEF Attached, PlantsOK
  <2>5. ct.dcline = "empty" => Modified("dcline", ct)
    BY <2>1 DEF Attached, DclineKeyOK
  <2> QED  BY <2>2, <2>3, <2>4, <2>5 DEF Fails
<1> QED  BY <1>1, InductiveAttach, PTL

-----------------------------------------------------------------------------
(* Ids and removed buses *)

\* Tables grow at the end, and removed buses stay removed.
Grown(c, d) ==
    /\ \/ d.new_bus = c.new_bus
       \/ \E b \in NewBuses : d.new_bus = Append(c.new_bus, b)
    /\ \/ d.new_branch = c.new_branch
       \/ \E line \in NewLines : d.new_branch = Append(c.new_branch, line)
    /\ c.remove_bus \subseteq d.remove_bus

\* That is what calls other than clear do.
LEMMA OutcomeGrown ==
  ASSUME NEW c, DOMAIN c = Fields, NEW d, Outcome(c, d)
  PROVE  Grown(c, d)
<1>1. CASE d = c
  BY <1>1 DEF Grown
<1>2. ASSUME NEW b \in NewBuses, d = [c EXCEPT !.new_bus = Append(@, b)]
      PROVE  Grown(c, d)
  <2>1. /\ d.new_bus = Append(c.new_bus, b) /\ d.new_branch = c.new_branch
        /\ d.remove_bus = c.remove_bus
    BY <1>2 DEF Fields
  <2> QED  BY <2>1 DEF Grown
<1>3. ASSUME NEW line \in NewLines, d = [c EXCEPT !.new_branch = Append(@, line)]
      PROVE  Grown(c, d)
  <2>1. /\ d.new_branch = Append(c.new_branch, line) /\ d.new_bus = c.new_bus
        /\ d.remove_bus = c.remove_bus
    BY <1>3 DEF Fields
  <2> QED  BY <2>1 DEF Grown
<1>4. ASSUME NEW b, d = [c EXCEPT !.remove_bus = @ \cup {b}]
      PROVE  Grown(c, d)
  <2>1. /\ d.remove_bus = c.remove_bus \cup {b} /\ d.new_bus = c.new_bus
        /\ d.new_branch = c.new_branch
    BY <1>4 DEF Fields
  <2> QED  BY <2>1 DEF Grown
<1>5. ASSUME NEW f \in Fields, NEW v, f \notin {"new_bus", "new_branch", "remove_bus"},
             d = [c EXCEPT ![f] = v]
      PROVE  Grown(c, d)
  <2>1. /\ d.new_bus = c.new_bus /\ d.new_branch = c.new_branch
        /\ d.remove_bus = c.remove_bus
    BY <1>5 DEF Fields
  <2> QED  BY <2>1 DEF Grown
<1>6. ASSUME Differ(c, d, {"branch", "resources", "zone", "plant"})
      PROVE  Grown(c, d)
  BY <1>6 DEF Grown, Differ, Fields
<1>7. {"new_dcline", "new_plant", "storage", "remove_branch", "remove_dcline",
       "remove_plant", "dcline"} \subseteq Fields
  BY DEF Fields
<1>8. ASSUME NEW x, \/ d = [c EXCEPT !.new_dcline = Append(@, x)]
                    \/ d = [c EXCEPT !.new_plant = Append(@, x)]
                    \/ d = [c EXCEPT !.storage = Append(@, x)]
      PROVE  Grown(c, d)
  BY <1>5, <1>7, <1>8, SMT
<1>9. ASSUME NEW x, \/ d = [c EXCEPT !.remove_branch = @ \cup {x}]
                    \/ d = [c EXCEPT !.remove_dcline = @ \cup {x}]
                    \/ d = [c EXCEPT !.remove_plant = @ \cup {x}]
                    \/ d = [c EXCEPT !.dcline = x]
      PROVE  Grown(c, d)
  BY <1>5, <1>7, <1>9, SMT
<1> QED  BY <1>1, <1>2, <1>3, <1>4, <1>6, <1>8, <1>9 DEF Outcome

\* The rows of a table that grows at the end.
LEMMA GrownRows ==
  ASSUME NEW S, NEW s \in Seq(S), NEW t \in Seq(S), NEW u,
         u = t \/ \E e \in S : u = Append(t, e)
  PROVE  /\ \A i \in DOMAIN (s \o t) : i \in DOMAIN (s \o u) /\ (s \o u)[i] = (s \o t)[i]
         /\ DOMAIN (s \o u) \subseteq DOMAIN (s \o t) \cup {Len(s \o t) + 1}
<1>1. CASE u = t
  BY <1>1
<1>2. ASSUME NEW e \in S, u = Append(t, e)
      PROVE  /\ \A i \in DOMAIN (s \o t) :
                   i \in DOMAIN (s \o u) /\ (s \o u)[i] = (s \o t)[i]
             /\ DOMAIN (s \o u) \subseteq DOMAIN (s \o t) \cup {Len(s \o t) + 1}
  <2>1. /\ DOMAIN (s \o t) = 1 .. Len(s) + Len(t) /\ Len(s \o t) = Len(s) + Len(t)
        /\ DOMAIN (s \o u) = 1 .. Len(s) + Len(t) + 1
        /\ \A i \in 1 .. Len(s) + Len(t) : (s \o u)[i] = (s \o t)[i]
        /\ Len(s) \in Nat /\ Len(t) \in Nat
    BY <1>2, ConcatRows, ConcatAppend, SMT
  <2>2. \A k \in Nat : /\ 1 .. k \subseteq 1 .. k + 1
                       /\ 1 .. k + 1 \subseteq (1 .. k) \cup {k + 1}
    BY SMT
  <2>3. Len(s) + Len(t) \in Nat
    BY <2>1, SMT
  <2> QED  BY <2>1, <2>2, <2>3
<1> QED  BY <1>1, <1>2

\* The types hold in every state.
LEMMA InductiveType == Spec => []TypeInv
  BY InitType, NextType, PTL DEF Spec

(***************************************************************************)
(* IdsKeepTheirMeaning, for every base grid and any calls: no method but   *)
(* clear changes a row of the bus or branch table that stays, or brings a  *)
(* removed bus back.                                                       *)
(***************************************************************************)
THEOREM IdsAreNotReused == Spec => IdsKeepTheirMeaning
<1>1. ASSUME TypeInv, [Next]_vars
      PROVE  [\/ /\ SameRows(BusesOf(ct), BusesOf(ct'))
                 /\ SameRows(BranchesOf(ct), BranchesOf(ct'))
                 /\ DOMAIN BusesOf(ct') \ DOMAIN BusesOf(ct)
                      \subseteq {Len(AllBuses(ct)) + 1}
              \/ \E which \in Clearable : Clear(which)]_vars
  <2>1. ASSUME Grown(ct, ct')
        PROVE  /\ SameRows(BusesOf(ct), BusesOf(ct'))
               /\ SameRows(BranchesOf(ct), BranchesOf(ct'))
               /\ DOMAIN BusesOf(ct') \ DOMAIN BusesOf(ct)
                    \subseteq {Len(AllBuses(ct)) + 1}
    <3>1. /\ Bus \in Seq(Buses) /\ ct.new_bus \in Seq(Buses)
          /\ Branch \in Seq(Lines) /\ ct.new_branch \in Seq(Lines)
      BY <1>1, BaseGridAssumption, ChangeTableAssumption, SMT
         DEF TypeInv, TableOK, AddedOK
    <3>2. /\ \/ ct'.new_bus = ct.new_bus
             \/ \E b \in Buses : ct'.new_bus = Append(ct.new_bus, b)
          /\ \/ ct'.new_branch = ct.new_branch
             \/ \E line \in Lines : ct'.new_branch = Append(ct.new_branch, line)
          /\ ct.remove_bus \subseteq ct'.remove_bus
      BY <2>1, ChangeTableAssumption DEF Grown
    <3> HIDE DEF Buses, Lines
    <3>3. /\ \A i \in DOMAIN AllBuses(ct) :
                i \in DOMAIN AllBuses(ct') /\ AllBuses(ct')[i] = AllBuses(ct)[i]
          /\ DOMAIN AllBuses(ct') \subseteq DOMAIN AllBuses(ct) \cup {Len(AllBuses(ct)) + 1}
      BY <3>1, <3>2, GrownRows DEF AllBuses
    <3>4. /\ \A i \in DOMAIN AllBranches(ct) :
                i \in DOMAIN AllBranches(ct') /\ AllBranches(ct')[i] = AllBranches(ct)[i]
          /\ DOMAIN AllBranches(ct')
               \subseteq DOMAIN AllBranches(ct) \cup {Len(AllBranches(ct)) + 1}
      BY <3>1, <3>2, GrownRows DEF AllBranches
    <3>5. SameRows(BusesOf(ct), BusesOf(ct'))
      BY <3>3 DEF SameRows, BusesOf, Drop
    <3>6. SameRows(BranchesOf(ct), BranchesOf(ct'))
      BY <3>4 DEF SameRows, BranchesOf, Drop
    <3>7. DOMAIN BusesOf(ct') \ DOMAIN BusesOf(ct) \subseteq {Len(AllBuses(ct)) + 1}
      BY <3>2, <3>3 DEF BusesOf, Drop
    <3> QED  BY <3>5, <3>6, <3>7
  <2>2. CASE Next
    <3>1. Outcome(ct, ct') => Grown(ct, ct')
      BY <1>1, OutcomeGrown DEF TypeInv, TableOK
    <3> QED  BY <1>1, <2>1, <2>2, <3>1, NextOutcome
  <2>3. CASE UNCHANGED vars
    BY <2>3
  <2> QED  BY <1>1, <2>2, <2>3
<1> QED  BY <1>1, InductiveType, PTL DEF Spec, IdsKeepTheirMeaning

\* Pmax stays 0 or positive, whatever the factors.
LEMMA ScaledPmax ==
  ASSUME NEW n \in 0 .. MaxCalls, NEW c, TableOK(c, n), NEW i \in DOMAIN ScaledPlants(c)
  PROVE  ScaledPlants(c)[i].pmax \in {0, 1}
<1> DEFINE row == AllPlants(c)[i]
           z == IF i \in DOMAIN Plant THEN ZoneFactor(c, i) ELSE 1
           f == IdFactor(c, i)
<1>1. i \in DOMAIN AllPlants(c) /\ row \in Plants
  BY TableIds, SMT DEF ScaledPlants
<1>2. row.pmax \in {0, 1} /\ "pmax" \in DOMAIN row
  BY <1>1 DEF Plants
<1>3. z \in {0, 1}
  BY DEF TableOK, ScaledOK, ZoneFactor
<1>4. f \in {0, 1}
  BY DEF IdFactor
<1>5. ScaledPlants(c)[i] = [row EXCEPT !.pmax = @ * z * f]
  BY <1>1 DEF ScaledPlants
<1> HIDE DEF row, z, f
<1>6. ScaledPlants(c)[i].pmax = row.pmax * z * f
  BY <1>2, <1>5
<1> QED  BY <1>2, <1>3, <1>4, <1>6, SMT

\* Only remove_bus removes buses.
LEMMA OthersKeepBuses ==
  ASSUME TypeInv, Next, ~ \E b \in IdsOf(AllBuses(ct)) : RemoveBus(b)
  PROVE  ct'.remove_bus \subseteq ct.remove_bus
<1>1. DOMAIN ct = Fields
  BY DEF TypeInv, TableOK
<1>2. CASE \/ \E b \in NewBuses : AddBus(b)
           \/ \E line \in NewLines : AddBranch(line) \/ AddDcline(line)
           \/ \E p \in NewPlants : AddPlant(p)
           \/ \E b \in IdsOf(AllBuses(ct)) : AddStorageCapacity(b)
  BY <1>1, <1>2
     DEF AddBus, AddBranch, AddDcline, AddPlant, AddStorageCapacity, Call, Fields
<1>3. CASE \E r \in Resources, f \in Scalings :
              \/ \E z \in Zones : ScalePlantsInZone(r, z, f)
              \/ \E i \in IdsOf(AllPlants(ct)) : ScalePlant(r, i, f)
  <2>1. CASE \E r \in Resources, f \in Scalings, z \in Zones : ScalePlantsInZone(r, z, f)
    BY <1>1, <2>1 DEF ScalePlantsInZone, PopResource, Call, Fields
  <2>2. CASE \E r \in Resources, f \in Scalings : \E i \in IdsOf(AllPlants(ct)) :
                ScalePlant(r, i, f)
    BY <1>1, <2>2 DEF ScalePlant, PopResource, Call, Fields
  <2> QED  BY <1>3, <2>1, <2>2
<1>4. CASE \/ \E z \in Zones : ScaleBranchesInZone(z)
           \/ \E i \in IdsOf(AllBranches(ct)) : ScaleBranch(i) \/ RemoveBranch(i)
           \/ \E i \in IdsOf(AllDclines(ct)) : ScaleDcline(i) \/ RemoveDcline(i)
           \/ \E i \in IdsOf(AllPlants(ct)) : RemovePlant(i)
  BY <1>1, <1>4
     DEF ScaleBranchesInZone, ScaleBranch, ScaleDcline, RemoveBranch, RemoveDcline,
         RemovePlant, Call, Fields
<1>5. ASSUME NEW which \in Clearable, Clear(which)
      PROVE  ct'.remove_bus \subseteq ct.remove_bus
  <2>1. ct' = Cleared(which)
    BY <1>5 DEF Clear, Call
  <2>2. /\ Differ(ct, ct', ClearedFields(which))
        /\ \A f \in ClearedFields(which) : ct'[f] = EmptyTable[f]
    BY <1>1, <2>1, ClearedTable
  <2>3. ct'.remove_bus = ct.remove_bus \/ ct'.remove_bus = {}
    BY <2>2 DEF Differ, Fields, EmptyTable
  <2> QED  BY <2>3
<1> QED  BY <1>2, <1>3, <1>4, <1>5 DEF Next

(***************************************************************************)
(* RemovedBusHasNoPlants, for every base grid and any calls: the check of  *)
(* remove_bus on plants sees those that were added and the factors that    *)
(* were given, as long as the cache has the right table.                   *)
(***************************************************************************)
THEOREM NoPlantLosesItsBus == Spec => RemovedBusHasNoPlants
<1>1. ASSUME TypeInv, [Next]_vars
      PROVE  [~CachedForOther =>
                \A b \in ct'.remove_bus \ ct.remove_bus :
                   \A i \in DOMAIN ScaledPlants(ct) :
                      ScaledPlants(ct)[i].bus = b => ScaledPlants(ct)[i].pmax = 0]_vars
  <2> SUFFICES ASSUME Next, ~CachedForOther,
                      NEW b \in ct'.remove_bus \ ct.remove_bus,
                      NEW i \in DOMAIN ScaledPlants(ct), ScaledPlants(ct)[i].bus = b
               PROVE  ScaledPlants(ct)[i].pmax = 0
    BY <1>1
  <2>1. PICK a \in IdsOf(AllBuses(ct)) : RemoveBus(a)
    BY <1>1, OthersKeepBuses
  <2>2. \/ ct' = ct
        \/ /\ \A k \in DOMAIN Checks : NoObjection(Checks[k], a)
           /\ ct' = [ct EXCEPT !.remove_bus = @ \cup {a}]
    BY <2>1 DEF RemoveBus, Call
  <2>3. DOMAIN ct = Fields /\ calls \in 0 .. MaxCalls /\ TableOK(ct, calls)
    BY <1>1 DEF TypeInv, TableOK
  <2>4. a = b /\ NoRunningPlants(a)
    BY <2>2, <2>3, AcceptedBus, SMT DEF Fields
  <2>5. PlantTable(ct) = ScaledPlants(ct)
    BY DEF CachedForOther, PlantTable
  <2>6. ~(ScaledPlants(ct)[i].pmax > 0)
    BY <2>4, <2>5 DEF NoRunningPlants
  <2>7. ScaledPlants(ct)[i].pmax \in {0, 1}
    BY <2>3, ScaledPmax
  <2> QED  BY <2>6, <2>7, SMT
<1> QED  BY <1>1, InductiveType, PTL DEF Spec, RemovedBusHasNoPlants

-----------------------------------------------------------------------------
(* What check_grid complains of *)

\* Its messages, one by one.
LEMMA Messages ==
  ASSUME NEW g
  PROVE  /\ CheckGrid(g) \subseteq {"islanded", "undescribed", "bus2sub", "interconnects",
                                    "voltages", "gencost", "components", "loops"}
         /\ "islanded" \in CheckGrid(g) <=> ~CheckForIslandedBuses(g)
         /\ "undescribed" \in CheckGrid(g) <=> ~CheckForUndescribedBuses(g)
         /\ "bus2sub" \in CheckGrid(g) <=> ~CheckBusAgainstBus2sub(g)
         /\ "interconnects" \in CheckGrid(g) <=> ~CheckAcInterconnects(g)
         /\ "voltages" \in CheckGrid(g) <=> ~CheckLineVoltages(g)
         /\ "gencost" \in CheckGrid(g) <=> ~CheckPlantAgainstGencost(g)
         /\ "loops" \in CheckGrid(g) <=> ~CheckForLoopBranches(g)
  BY DEF CheckGrid

\* Two voltages.
LEMMA TwoVoltages ==
  ASSUME NEW x, NEW y, x # y
  PROVE  Cardinality({x, y}) = 2
<1>1. IsFiniteSet({x}) /\ Cardinality({x}) = 1 /\ y \notin {x}
  BY FS_Singleton
<1>2. Cardinality({x} \cup {y}) = Cardinality({x}) + 1
  BY <1>1, FS_AddElement
<1>3. {x} \cup {y} = {x, y}
  OBVIOUS
<1> QED  BY <1>1, <1>2, <1>3, SMT

\* The first check: a base bus that no line reaches any more has lost a branch.
LEMMA IslandedBuses ==
  ASSUME NEW n \in Nat, NEW c, TableOK(c, n), CheckForIslandedBuses(GetGrid(EmptyTable)),
         NEW b \in DOMAIN Bus,
         b \notin EndsOf(GetGrid(c).branch), b \notin EndsOf(GetGrid(c).dcline)
  PROVE  \E i \in c.remove_branch : b \in Ends(AllBranches(c)[i])
<1> DEFINE e == EmptyTable
           g == GetGrid(e)
<1>1. TableOK(e, n) /\ e.remove_branch = {} /\ e.new_branch = <<>> /\ e.new_dcline = <<>>
      /\ e.remove_bus = {} /\ e.new_bus = <<>>
  BY EmptyType DEF EmptyTable
<1>2. /\ DOMAIN g.bus = DOMAIN AllBuses(e) \ e.remove_bus
      /\ DOMAIN g.branch = DOMAIN AllBranches(e) \ e.remove_branch
      /\ \A i \in DOMAIN g.branch : g.branch[i] = AllBranches(e)[i]
      /\ g.dcline = AllDclines(e)
  BY GridTables DEF GridBuses
<1> HIDE DEF e, g
<1>3. /\ \A i \in DOMAIN g.branch : i \in DOMAIN Branch /\ g.branch[i] = Branch[i]
      /\ DOMAIN Branch \subseteq DOMAIN g.branch
  <2>1. /\ DOMAIN e.new_branch = {}
        /\ \A i \in DOMAIN AllBranches(e) :
              i \in DOMAIN Branch \/ i - Len(Branch) \in DOMAIN e.new_branch
        /\ \A i \in DOMAIN Branch : i \in DOMAIN AllBranches(e) /\ AllBranches(e)[i] = Branch[i]
    BY <1>1, BranchRows, SMT
  <2> QED  BY <1>1, <1>2, <2>1
<1>4. \A i \in DOMAIN g.dcline : i \in DOMAIN Dcline /\ g.dcline[i] = Dcline[i]
  <2>1. /\ DOMAIN e.new_dcline = {}
        /\ \A i \in DOMAIN AllDclines(e) :
              i \in DOMAIN Dcline \/ i - Len(Dcline) \in DOMAIN e.new_dcline
        /\ \A i \in DOMAIN Dcline : AllDclines(e)[i] = Dcline[i]
    BY <1>1, DclineRows, SMT
  <2> QED  BY <1>2, <2>1
<1>5. b \in DOMAIN g.bus
  <2>1. Bus \in Seq(Buses) /\ e.new_bus \in Seq(Buses)
    BY <1>1, BaseGridAssumption, SMT
  <2> HIDE DEF Buses
  <2>2. /\ DOMAIN AllBuses(e) = 1 .. Len(Bus) + Len(e.new_bus)
        /\ Len(Bus) \in Nat /\ Len(e.new_bus) = 0 /\ DOMAIN Bus = 1 .. Len(Bus)
    BY <1>1, <2>1, ConcatRows, SMT DEF AllBuses
  <2> QED  BY <1>1, <1>2, <2>2, SMTT(20)
<1>6. EndsOf(g.branch) # {}
  <2>1. 1 \in DOMAIN Branch
    BY BaseGridAssumption, SMT
  <2> QED  BY <1>3, <2>1, SMTT(20) DEF EndsOf, Ends
<1>7. b \in EndsOf(g.branch) \/ b \in EndsOf(g.dcline)
  BY <1>5, <1>6 DEF CheckForIslandedBuses, e, g
<1>8. b \notin EndsOf(g.dcline)
  <2>1. \A i \in DOMAIN Dcline : i \in DOMAIN AllDclines(c) /\ AllDclines(c)[i] = Dcline[i]
    BY DclineRows
  <2>2. GetGrid(c).dcline = AllDclines(c)
    BY GridTables
  <2> QED  BY <1>4, <2>1, <2>2, SMT DEF EndsOf
<1>9. PICK i \in DOMAIN Branch : b \in Ends(Branch[i])
  BY <1>3, <1>7, <1>8 DEF EndsOf
<1>10. i \in DOMAIN AllBranches(c) /\ AllBranches(c)[i] = Branch[i]
  BY BranchRows
<1>11. i \in c.remove_branch
  <2>1. /\ DOMAIN GetGrid(c).branch = DOMAIN AllBranches(c) \ c.remove_branch
        /\ \A k \in DOMAIN GetGrid(c).branch : GetGrid(c).branch[k] = AllBranches(c)[k]
    BY GridTables
  <2> QED  BY <1>9, <1>10, <2>1 DEF EndsOf
<1> QED  BY <1>9, <1>10, <1>11

\* The check of voltages: a base line has one voltage, and so a line with two is new.
LEMMA MixedLines ==
  ASSUME NEW n \in Nat, NEW c, TableOK(c, n), Attached(c), ~CheckLineVoltages(GetGrid(c))
  PROVE  \E k \in DOMAIN c.new_branch :
            Cardinality({AllBuses(c)[b].kv : b \in Ends(c.new_branch[k])}) = 2
<1> DEFINE g == GetGrid(c)
<1>1. /\ DOMAIN g.bus = GridBuses(c)
      /\ \A b \in GridBuses(c) : g.bus[b] = AllBuses(c)[b]
      /\ \A b \in DOMAIN AllBuses(c) : g.bus2sub[b] = AllBuses(c)[b].place
      /\ DOMAIN g.branch = DOMAIN AllBranches(c) \ c.remove_branch
      /\ \A i \in DOMAIN g.branch : g.branch[i] = AllBranches(c)[i]
  BY GridTables
<1>2. \A i \in DOMAIN g.branch : Ends(AllBranches(c)[i]) \subseteq GridBuses(c)
  BY <1>1, AttachedGrid DEF GoodBranch
<1> HIDE DEF g
<1>3. PICK i \in DOMAIN g.branch \ Transformers(g) :
        ~ (Ends(g.branch[i]) \subseteq DOMAIN g.bus
           /\ g.bus[g.branch[i].from].kv = g.bus[g.branch[i].to].kv)
  <2>1. ~CheckLineVoltages(g)
    BY DEF g
  <2> QED  BY <2>1 DEF CheckLineVoltages, SameAtEnds, Ends
<1> DEFINE line == AllBranches(c)[i]
<1>4. /\ line.from \in GridBuses(c) /\ line.to \in GridBuses(c)
      /\ AllBuses(c)[line.from].kv # AllBuses(c)[line.to].kv
  <2>1. g.branch[i] = line /\ Ends(line) \subseteq GridBuses(c)
    BY <1>1, <1>2, <1>3
  <2>2. line.from \in GridBuses(c) /\ line.to \in GridBuses(c)
    BY <2>1 DEF Ends
  <2> HIDE DEF line
  <2> QED  BY <1>1, <1>3, <2>1, <2>2
<1>5. i \notin DOMAIN Branch
  <2> SUFFICES ASSUME i \in DOMAIN Branch  PROVE FALSE
    OBVIOUS
  <2>1. line = Branch[i]
    BY BranchRows
  <2>2. line.from \in DOMAIN Bus /\ line.to \in DOMAIN Bus
    BY <2>1, BaseGridAssumption, SMTT(20) DEF EndsOf, Ends
  <2>3. \A b \in DOMAIN Bus : b \in DOMAIN AllBuses(c) /\ AllBuses(c)[b] = Bus[b]
    <3>1. Bus \in Seq(Buses) /\ c.new_bus \in Seq(Buses)
      BY BaseGridAssumption, ChangeTableAssumption, SMT DEF TableOK, AddedOK
    <3> HIDE DEF Buses
    <3> QED  BY <3>1, ConcatRows, SMTT(20) DEF AllBuses
  <2>4. g.bus2sub[line.from] # g.bus2sub[line.to]
    BY <1>3, <2>1 DEF Transformers
  <2>5. Bus[line.from].place # Bus[line.to].place
    BY <1>1, <2>2, <2>3, <2>4, SMT
  <2>6. Bus[line.from].kv = Bus[line.to].kv
    BY <2>1, <2>5, BaseGridAssumption
  <2> HIDE DEF line
  <2> QED  BY <1>4, <2>2, <2>3, <2>6
<1>6. PICK k \in DOMAIN c.new_branch : line = c.new_branch[k]
  <2>1. /\ i - Len(Branch) \in DOMAIN c.new_branch /\ i \in Int /\ Len(Branch) \in Nat
    BY <1>1, <1>3, <1>5, BranchRows, SMTT(20)
  <2> DEFINE m == i - Len(Branch)
  <2>2. i = Len(Branch) + m
    BY <2>1, SMT
  <2> HIDE DEF m
  <2> QED  BY <2>1, <2>2, BranchRows, SMTT(20) DEF m
<1> HIDE DEF line
<1>7. {AllBuses(c)[b].kv : b \in Ends(line)}
         = {AllBuses(c)[line.from].kv, AllBuses(c)[line.to].kv}
  BY DEF Ends
<1>8. Cardinality({AllBuses(c)[line.from].kv, AllBuses(c)[line.to].kv}) = 2
  BY <1>4, TwoVoltages
<1>9. Cardinality({AllBuses(c)[b].kv : b \in Ends(line)}) = 2
  BY <1>7, <1>8, Zenon
<1> QED  BY <1>6, <1>9, Zenon

\* The plants of the grid are those that _add_gencost gives a cost curve.
LEMMA PlantsHaveGencost ==
  ASSUME NEW n \in Nat, NEW c, TableOK(c, n)
  PROVE  CheckPlantAgainstGencost(GetGrid(c))
<1>1. Plant \in Seq(Plants) /\ c.new_plant \in Seq(Plants)
  BY BaseGridAssumption, ChangeTableAssumption, SMT DEF TableOK, AddedOK
<1> HIDE DEF Plants
<1>2. /\ DOMAIN AllPlants(c) = 1 .. Len(Plant) + Len(c.new_plant)
      /\ DOMAIN Plant = 1 .. Len(Plant) /\ DOMAIN c.new_plant = 1 .. Len(c.new_plant)
      /\ Len(Plant) \in Nat /\ Len(c.new_plant) \in Nat
  BY <1>1, ConcatRows, SMT DEF AllPlants
<1>3. \A p, q \in Nat : 1 .. p + q = (1 .. p) \cup {p + k : k \in 1 .. q}
  <2> SUFFICES ASSUME NEW p \in Nat, NEW q \in Nat
               PROVE  1 .. p + q = (1 .. p) \cup {p + k : k \in 1 .. q}
    OBVIOUS
  <2>1. ASSUME NEW x \in 1 .. p + q, x \notin 1 .. p
        PROVE  x - p \in 1 .. q /\ x = p + (x - p)
    BY <2>1, SMT
  <2>2. 1 .. p \subseteq 1 .. p + q
    BY SMT
  <2>3. \A k \in 1 .. q : p + k \in 1 .. p + q
    BY SMT
  <2> QED  BY <2>1, <2>2, <2>3
<1>4. DOMAIN ScaledPlants(c) = GencostIds(c)
  BY <1>2, <1>3 DEF ScaledPlants, GencostIds
<1> QED  BY <1>4, GridTables DEF CheckPlantAgainstGencost

(***************************************************************************)
(* ElementComplaintsAreExplained, for every base grid and any calls: the   *)
(* part of ComplaintsAreExplained that is not about connected parts.       *)
(***************************************************************************)
THEOREM ElementComplaints == Spec => []ElementComplaintsAreExplained
<1>1. AttachInv => ElementComplaintsAreExplained
  <2> DEFINE g == GetGrid(ct)
             found == CheckGrid(g)
             lines == EndsOf(g.branch) \cup EndsOf(g.dcline)
             lost == UNION {Ends(AllBranches(ct)[i]) : i \in ct.remove_branch}
  <2> SUFFICES ASSUME AttachInv, ~cleared, BaseIsSound
               PROVE  /\ found \subseteq {"islanded", "voltages", "bus2sub", "components"}
                      /\ "islanded" \in found =>
                            DOMAIN g.bus \ lines
                              \subseteq (DOMAIN AllBuses(ct) \ DOMAIN Bus) \cup lost
                      /\ "voltages" \in found =>
                            \E k \in DOMAIN ct.new_branch :
                               Cardinality({AllBuses(ct)[b].kv :
                                              b \in Ends(ct.new_branch[k])}) = 2
                      /\ "bus2sub" \in found => ct.remove_bus # {}
    BY Zenon DEF ElementComplaintsAreExplained
  <2>1. calls \in Nat /\ TableOK(ct, calls) /\ Attached(ct)
    BY ChangeTableAssumption, SMT DEF AttachInv, TypeInv
  <2>2. DOMAIN g.bus = DOMAIN AllBuses(ct) \ ct.remove_bus
        /\ DOMAIN g.bus2sub = DOMAIN AllBuses(ct)
    BY GridTables DEF GridBuses
  <2>3. found \subseteq {"islanded", "voltages", "bus2sub", "components"}
    <3>1. /\ CheckForUndescribedBuses(g) /\ CheckAcInterconnects(g)
          /\ CheckForLoopBranches(g)
      BY AttachedChecks DEF NothingDangles
    <3>2. CheckPlantAgainstGencost(g)
      BY <2>1, PlantsHaveGencost
    <3> HIDE DEF g
    <3>3. /\ found \subseteq {"islanded", "undescribed", "bus2sub", "interconnects",
                              "voltages", "gencost", "components", "loops"}
          /\ "undescribed" \notin found /\ "interconnects" \notin found
          /\ "loops" \notin found /\ "gencost" \notin found
      BY <3>1, <3>2, Messages
    <3> HIDE DEF found
    <3> QED  BY <3>3
  <2>4. DOMAIN g.bus \ lines \subseteq (DOMAIN AllBuses(ct) \ DOMAIN Bus) \cup lost
    <3> SUFFICES ASSUME NEW b \in DOMAIN g.bus \ lines, b \in DOMAIN Bus
                 PROVE  b \in lost
      BY <2>2
    <3>1. CheckForIslandedBuses(GetGrid(EmptyTable))
      BY Messages DEF BaseIsSound
    <3>2. b \notin EndsOf(g.branch) /\ b \notin EndsOf(g.dcline)
      OBVIOUS
    <3>3. \E i \in ct.remove_branch : b \in Ends(AllBranches(ct)[i])
      BY <2>1, <3>1, <3>2, IslandedBuses
    <3> QED  BY <3>3
  <2>5. "voltages" \in found => ~CheckLineVoltages(g)
    BY Messages
  <2>6. "voltages" \in found =>
           \E k \in DOMAIN ct.new_branch :
              Cardinality({AllBuses(ct)[b].kv : b \in Ends(ct.new_branch[k])}) = 2
    BY <2>1, <2>5, MixedLines
  <2>7. "bus2sub" \in found => ct.remove_bus # {}
    <3>1. "bus2sub" \in found => ~CheckBusAgainstBus2sub(g)
      BY Messages
    <3> QED  BY <2>2, <3>1 DEF CheckBusAgainstBus2sub
  <2> HIDE DEF g, found, lines, lost
  <2> QED  BY <2>3, <2>4, <2>6, <2>7
<1> QED  BY <1>1, InductiveAttach, PTL
==============================================================================
