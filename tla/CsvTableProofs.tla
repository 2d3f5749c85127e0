--------------------------- MODULE CsvTableProofs ---------------------------
(***************************************************************************)
(* What the operators on tables of CsvTable return, for every table: the   *)
(* lemmas that the proofs about both list stores rest on.                  *)
(***************************************************************************)
EXTENDS CsvTable, WellFoundedInduction, TLAPS

\* _parse_csv and the fallback of _get_table give a table.
LEMMA ParseType == \A t \in Contents : Parse(t) \in Contents
  BY DEF Parse, Blank, Contents, RowMap

\* The blank frame is a table.
LEMMA BlankType == Blank \in Contents
  BY DEF Blank, Contents, RowMap

\* get_table gives a table.
LEMMA ConcatType ==
  ASSUME NEW s \in Contents, NEW t \in Contents
  PROVE  Concat(s, t) \in Contents
  BY DEF Concat, Contents, RowMap

\* Every method under verify_hash returns a table.
LEMMA UpdateType ==
  ASSUME NEW o \in Operation, NEW t \in Contents
  PROVE  Update(o, t) \in Contents
<1>1. Line(o) \in Rows \cup {NoRow}
  BY DEF Line, Operation
<1>2. [t.rows EXCEPT ![Target(o, t)] = Line(o)] \in RowMap
  BY <1>1 DEF Contents, RowMap
<1> QED  BY <1>2 DEF Update, Contents

\* _generate_scenario_id finds the largest id: every nonempty set of ids has one.
LEMMA LargestId ==
  ASSUME NEW S \in SUBSET Ids, S # {}
  PROVE  \E m \in S : \A i \in S : i <= m
<1> DEFINE Bounds == {k \in Nat : \A i \in S : i <= k}
           Less == OpToRel(<, Nat)
<1>1. MaxId \in Bounds
  BY CsvTableAssumption DEF Ids
<1>2. PICK m \in Bounds : \A k \in Bounds : <<k, m>> \notin Less
  <2>1. Bounds \subseteq Nat /\ Bounds # {}
    BY <1>1
  <2> HIDE DEF Bounds, Less
  <2> QED  BY <2>1, NatLessThanWellFounded, WFMin, Zenon DEF Less
<1>3. \A k \in Bounds : ~(k < m)
  BY <1>2 DEF OpToRel
<1>4. m \in S
  <2> SUFFICES ASSUME m \notin S PROVE FALSE
    OBVIOUS
  <2>1. \A i \in S : i \in Nat /\ 1 <= i /\ i < m
    BY CsvTableAssumption DEF Ids
  <2>2. m - 1 \in Bounds
    BY <2>1
  <2> QED  BY <1>3, <2>2
<1> QED  BY <1>2, <1>4

\* _generate_scenario_id returns an id that no entry has.
LEMMA GeneratedIdIsNew ==
  ASSUME NEW rows \in RowMap
  PROVE  GenerateId(rows) \in Nat /\ GenerateId(rows) \notin Present(rows)
<1>1. CASE Present(rows) = {}
  BY <1>1 DEF GenerateId
<1>2. CASE Present(rows) # {}
  <2> DEFINE m == CHOOSE m \in Present(rows) : \A i \in Present(rows) : i <= m
  <2>1. Present(rows) \subseteq Ids
    BY DEF Present
  <2>2. m \in Present(rows) /\ \A i \in Present(rows) : i <= m
    BY <1>2, <2>1, LargestId
  <2>3. m \in Nat
    BY <2>1, <2>2, CsvTableAssumption DEF Ids
  <2>4. GenerateId(rows) = 1 + m
    BY <1>2 DEF GenerateId
  <2> QED  BY <2>2, <2>3, <2>4
<1> QED  BY <1>1, <1>2
=============================================================================
