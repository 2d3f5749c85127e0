------------------------ MODULE LocalListStoreProofs ------------------------
(***************************************************************************)
(* TLAPS proofs about LocalListStore, for any processes, operations,       *)
(* stored content and bounds.                                              *)
(***************************************************************************)
EXTENDS LocalListStore, CsvTableProofs

(***************************************************************************)
(* What a process carries from step to step of an update: the copy that it *)
(* moves back is a table, the table that it pushes is its operation on the *)
(* table it read, and as long as nobody disturbs it the hash that it       *)
(* compared is that of the list.                                           *)
(***************************************************************************)
UpdateInvariant ==
    \A p \in Processes :
        /\ pc[p] = "copied" => copy[p] \in Contents
        /\ pc[p] \in {"read", "compared"} =>
              /\ req[p] \in Operation /\ base[p] \in Contents
              /\ table[p] = Update(req[p], Concat(base[p], Blank))
        /\ pc[p] = "compared" /\ undisturbed[p] => prev[p] = file

\* The types and what a process carries hold together: the list stays a table
\* only because what is moved over it is one.
IInv == TypeOK /\ UpdateInvariant

\* Nothing is under way at first.
LEMMA InitIInv == Init => IInv
  BY LocalListStoreAssumption DEF Init, IInv, TypeOK, UpdateInvariant, Phases

\* The step of the process that reads the list and applies its operation.
LEMMA ReadKeepsIInv ==
  ASSUME IInv, NEW p \in Processes, ReadAndUpdate(p)
  PROVE  IInv'
<1> DEFINE read == Concat(Parse(file), Blank)
<1> USE DEF IInv, TypeOK, Phases
<1>1. Parse(file) \in Contents /\ read \in Contents
  BY ParseType, BlankType, ConcatType
<1>2. CASE pc'[p] = "idle"
  BY <1>1, <1>2 DEF ReadAndUpdate, Finish, UpdateInvariant
<1>3. CASE pc'[p] # "idle"
  <2>1. /\ req[p] # Query /\ pc' = [pc EXCEPT ![p] = "read"]
        /\ table' = [table EXCEPT ![p] = Update(req[p], read)]
        /\ base' = [base EXCEPT ![p] = Parse(file)]
        /\ UNCHANGED <<result, file, req, prev, copy, undisturbed, started>>
    BY <1>3 DEF ReadAndUpdate, Finish
  <2>2. req[p] \in Operation
    BY <2>1
  <2>3. Update(req[p], read) \in Contents
    BY <1>1, <2>2, UpdateType
  <2>4. TypeOK'
    BY <1>1, <2>1, <2>3
  <2>5. UpdateInvariant'
    BY <1>1, <2>1, <2>2, <2>3 DEF UpdateInvariant
  <2> QED  BY <2>4, <2>5
<1> QED  BY <1>2, <1>3

\* The move of the new table over the list.
LEMMA InstallKeepsIInv ==
  ASSUME IInv, NEW p \in Processes, Install(p)
  PROVE  IInv'
<1> USE DEF IInv, TypeOK, Phases
<1>1. table[p] \in Contents
  <2>1. req[p] \in Operation /\ base[p] \in Contents
        /\ table[p] = Update(req[p], Concat(base[p], Blank))
    BY DEF UpdateInvariant, Install
  <2> QED  BY <2>1, BlankType, ConcatType, UpdateType
<1>2. TypeOK'
  BY <1>1 DEF Install, Finish, Write
<1>3. UpdateInvariant'
  BY <1>1 DEF UpdateInvariant, Install, Finish, Write
<1> QED  BY <1>2, <1>3

\* Every step of a query or an update keeps both.
LEMMA NextIInv == IInv /\ [Next]_vars => IInv'
<1> SUFFICES ASSUME IInv, [Next]_vars PROVE IInv'
  OBVIOUS
<1> USE DEF IInv, TypeOK, Phases, UpdateInvariant
<1>1. CASE UNCHANGED vars
  BY <1>1 DEF vars
<1>2. ASSUME NEW p \in Processes, Step(p) PROVE IInv'
  <2>1. ASSUME NEW r \in Operations \cup {Query}, Start(p, r) PROVE IInv'
    BY <2>1, LocalListStoreAssumption DEF Start, Advance
  <2>2. CASE CopyOut(p)
    BY <2>2 DEF CopyOut, Advance
  <2>3. CASE MoveBack(p)
    BY <2>3 DEF MoveBack, Advance, Write
  <2>4. CASE ReadAndUpdate(p)
    BY <2>4, ReadKeepsIInv
  <2>5. CASE Compare(p)
    BY <2>5 DEF Compare, Advance
  <2>6. CASE Mismatch(p)
    BY <2>6 DEF Mismatch, Finish
  <2>7. CASE Install(p)
    BY <2>7, InstallKeepsIInv
  <2>8. CASE Abort(p)
    BY <2>8 DEF Abort, Finish
  <2> QED  BY <1>2, <2>1, <2>2, <2>3, <2>4, <2>5, <2>6, <2>7, <2>8 DEF Step
<1> QED  BY <1>1, <1>2 DEF Next

\* The list in a shared directory and everything the processes hold stay well
\* formed: what copy_from moves back and push moves over the list are tables, for
\* any number of processes and requests.
THEOREM TypeCorrect == Spec => []TypeOK
<1>1. IInv => TypeOK
  BY DEF IInv
<1> QED  BY <1>1, InitIInv, NextIInv, PTL DEF Spec

\* A process that is done with a push has taken the step Install.
LEMMA OnlyInstallInstalls ==
  ASSUME IInv, [Next]_vars, NEW p \in Processes, Installs(p)
  PROVE  Install(p)
<1> USE DEF IInv, TypeOK, Phases, Installs
<1>1. PICK q \in Processes : Step(q)
  BY DEF Next, vars
<1>2. q = p
  BY <1>1
     DEF Step, Start, CopyOut, MoveBack, ReadAndUpdate, Compare, Mismatch, Install,
         Abort, Advance, Finish
<1> QED  BY <1>1, <1>2
            DEF Step, Start, CopyOut, MoveBack, ReadAndUpdate, Compare, Mismatch, Abort,
                Advance, Finish

\* An update through LocalDataAccess.push that nobody disturbs between its
\* comparison and its move is atomic, for any number of processes, operations and
\* requests.
THEOREM UndisturbedUpdatesAreSerial == Spec => UndisturbedUpdateIsSerial
<1>1. ASSUME IInv, [Next]_vars, NEW p \in Processes,
             Installs(p), undisturbed[p], base[p] = Parse(prev[p])
      PROVE  file' = Update(req[p], Concat(Parse(file), Blank))
  <2>1. Install(p)
    BY <1>1, OnlyInstallInstalls
  <2>2. prev[p] = file /\ table[p] = Update(req[p], Concat(base[p], Blank))
    BY <1>1, <2>1 DEF IInv, UpdateInvariant, Install
  <2> QED  BY <1>1, <2>1, <2>2 DEF Install, Write
<1>2. IInv /\ [Next]_vars =>
        [\A p \in Processes :
            Installs(p) /\ undisturbed[p] /\ base[p] = Parse(prev[p]) =>
                file' = Update(req[p], Concat(Parse(file), Blank))]_vars
  BY <1>1
<1> QED  BY <1>2, InitIInv, NextIInv, PTL DEF Spec, UndisturbedUpdateIsSerial
=============================================================================
