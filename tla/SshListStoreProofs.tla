------------------------- MODULE SshListStoreProofs -------------------------
(***************************************************************************)
(* TLAPS proofs about SshListStore, for any clients, operations, stored    *)
(* content and bounds.                                                     *)
(***************************************************************************)
EXTENDS SshListStore, CsvTableProofs

-----------------------------------------------------------------------------
(***************************************************************************)
(* Type correctness.                                                       *)
(***************************************************************************)

\* What a download, failed or not, leaves to be parsed is a table.
LEMMA ReadableType ==
  \A t \in Contents \cup {NoFile} : Readable(t) \in Contents
  BY ParseType, BlankType, SshListStoreAssumption DEF Readable

\* The parsed copy of <list>.2 is a table.
LEMMA BlobType == {Blank, Parse(Blob)} \subseteq Contents
  BY ParseType, BlankType, SshListStoreAssumption

\* A client that has never connected is well typed.
LEMMA InitTypeOK == Init => TypeOK
<1> SUFFICES ASSUME Init PROVE TypeOK
  OBVIOUS
<1>1. (CHOOSE o \in Operations : TRUE) \in Operation
  BY SshListStoreAssumption
<1> QED  BY <1>1, SshListStoreAssumption DEF Init, TypeOK, Phases

\* Every step of an update keeps the types.
LEMMA NextTypeOK == TypeOK /\ [Next]_vars => TypeOK'
<1> SUFFICES ASSUME TypeOK, [Next]_vars PROVE TypeOK'
  OBVIOUS
<1> USE DEF TypeOK, Phases
<1>1. CASE UNCHANGED vars
  BY <1>1 DEF vars
<1>2. ASSUME NEW c \in Clients, Step(c) PROVE TypeOK'
  <2>1. ASSUME NEW o \in Operations, Checksum(c, o) PROVE TypeOK'
    BY <2>1, SshListStoreAssumption DEF Checksum, Advance, Return
  <2>2. ASSUME NEW failed \in BOOLEAN, NEW blobFailed \in BOOLEAN,
               ReadAndUpdate(c, failed, blobFailed)
        PROVE  TypeOK'
    <3> DEFINE content == Downloaded(c, failed)
               blobRead == IF blobFailed THEN blob[c] ELSE Parse(Blob)
               read == Concat(Readable(content), blobRead)
    <3>1. content \in Contents \cup {NoFile}
      BY DEF Downloaded
    <3>2. blobRead \in {Blank, Parse(Blob)} /\ blobRead \in Contents
      BY BlobType
    <3>3. Readable(content) \in Contents
      BY <3>1, ReadableType
    <3>4. read \in Contents
      BY <3>2, <3>3, ConcatType
    <3>5. Update(op[c], read) \in Contents
      BY <3>4, UpdateType
    <3>6. /\ failures' \in Nat
          /\ local' = [local EXCEPT ![c] = content]
          /\ blob' = [blob EXCEPT ![c] = blobRead]
          /\ base' = [base EXCEPT ![c] = Readable(content)]
          /\ pc' = [pc EXCEPT ![c] = "idle"] \/ pc' = [pc EXCEPT ![c] = "read"]
          /\ result' = result \/ result' = [result EXCEPT ![c] = "error"]
          /\ \/ table' = table
             \/ table' = [table EXCEPT ![c] = Update(op[c], read)]
          /\ UNCHANGED <<file, temp, op, prev, alone, started, crashes>>
      BY <2>2 DEF ReadAndUpdate, Failure, Return
    <3> HIDE DEF content, blobRead, read
    <3> QED  BY <3>1, <3>2, <3>3, <3>5, <3>6
  <2>3. CASE CheckTemp(c)
    BY <2>3 DEF CheckTemp, Advance
  <2>4. CASE TempExists(c)
    BY <2>4 DEF TempExists, Advance, Return
  <2>5. CASE Stage(c)
    BY <2>5 DEF Stage, Advance
  <2>6. CASE Upload(c)
    BY <2>6 DEF Upload, Advance
  <2>7. ASSUME NEW answerLost \in BOOLEAN, Swap(c, answerLost) PROVE TypeOK'
    BY <2>7 DEF Swap, Advance, Return, Crash
  <2>8. CASE SwapError(c)
    BY <2>8 DEF SwapError, Advance, Return
  <2>9. CASE Abort(c)
    BY <2>9 DEF Abort, Return, Crash
  <2> QED  BY <1>2, <2>1, <2>2, <2>3, <2>4, <2>5, <2>6, <2>7, <2>8, <2>9 DEF Step
<1> QED  BY <1>1, <1>2 DEF Next

(***************************************************************************)
(* The list, <list>.temp and everything the clients hold are well formed   *)
(* tables whatever the interleaving, the failures and the bounds.          *)
(***************************************************************************)
THEOREM TypeCorrect == Spec => []TypeOK
  BY InitTypeOK, NextTypeOK, PTL DEF Spec

-----------------------------------------------------------------------------
(***************************************************************************)
(* What an update carries from step to step.                               *)
(***************************************************************************)

\* Nobody is pushing to begin with.
LEMMA InitPushInvariant == Init => PushInvariant
  BY DEF Init, PushInvariant, Pushing

\* Only c's own steps change what c carries; another client's steps can only
\* take from c the claim that it is alone.
LEMMA NextPushInvariant ==
  TypeOK /\ PushInvariant /\ [Next]_vars => PushInvariant'
<1> SUFFICES ASSUME TypeOK, PushInvariant, [Next]_vars PROVE PushInvariant'
  OBVIOUS
<1> USE DEF PushInvariant, Pushing
<1>1. CASE UNCHANGED vars
  BY <1>1 DEF vars
<1>2. ASSUME NEW c \in Clients, Step(c) PROVE PushInvariant'
  <2> USE DEF TypeOK
  <2>1. ASSUME NEW o \in Operations, Checksum(c, o) PROVE PushInvariant'
    BY <2>1 DEF Checksum, Advance
  <2>2. ASSUME NEW failed \in BOOLEAN, NEW blobFailed \in BOOLEAN,
               ReadAndUpdate(c, failed, blobFailed)
        PROVE  PushInvariant'
    BY <2>2 DEF ReadAndUpdate
  <2>3. CASE CheckTemp(c)
    BY <2>3, SshListStoreAssumption DEF CheckTemp, Advance
  <2>4. CASE TempExists(c)
    BY <2>4 DEF TempExists, Advance
  <2>5. CASE Stage(c)
    BY <2>5 DEF Stage, Advance
  <2>6. CASE Upload(c)
    BY <2>6 DEF Upload, Advance
  <2>7. ASSUME NEW answerLost \in BOOLEAN, Swap(c, answerLost)
        PROVE  PushInvariant'
    BY <2>7 DEF Swap, Advance
  <2>8. CASE SwapError(c)
    BY <2>8 DEF SwapError, Advance
  <2>9. CASE Abort(c)
    BY <2>9 DEF Abort
  <2> QED  BY <1>2, <2>1, <2>2, <2>3, <2>4, <2>5, <2>6, <2>7, <2>8, <2>9 DEF Step
<1> QED  BY <1>1, <1>2 DEF Next

\* The inductive invariant behind the theorems on commits.
THEOREM PushInvariantHolds == Spec => [](TypeOK /\ PushInvariant)
<1>1. Init => TypeOK /\ PushInvariant
  BY InitTypeOK, InitPushInvariant
<1>2. TypeOK /\ PushInvariant /\ [Next]_vars => TypeOK' /\ PushInvariant'
  BY NextTypeOK, NextPushInvariant
<1> QED  BY <1>1, <1>2, PTL DEF Spec

-----------------------------------------------------------------------------
(***************************************************************************)
(* Commits.                                                                *)
(***************************************************************************)

\* The only step that commits for c is c's own mv.
LEMMA OnlySwapCommits ==
  ASSUME TypeOK, [Next]_vars, NEW c \in Clients, Commits(c)
  PROVE  \E answerLost \in BOOLEAN : Swap(c, answerLost)
<1>1. ~UNCHANGED vars
  BY DEF Commits, vars
<1>2. PICK d \in Clients : Step(d)
  BY <1>1 DEF Next
<1>3. d = c
  <2> SUFFICES ASSUME d # c PROVE FALSE
    OBVIOUS
  <2>1. pc'[c] = pc[c]
    BY <1>2, TypeOK
       DEF Step, Checksum, ReadAndUpdate, CheckTemp, TempExists, Stage, Upload, Swap,
           SwapError, Abort, Advance, TypeOK
  <2> QED  BY <2>1 DEF Commits
<1>4. ~Abort(c) /\ ~SwapError(c)
  BY DEF Abort, SwapError, Commits
<1>5. /\ \A o : ~Checksum(c, o)
      /\ \A f, b : ~ReadAndUpdate(c, f, b)
      /\ ~CheckTemp(c) /\ ~TempExists(c) /\ ~Stage(c) /\ ~Upload(c)
  BY DEF Commits, Checksum, ReadAndUpdate, CheckTemp, TempExists, Stage, Upload, Advance
<1> QED  BY <1>2, <1>3, <1>4, <1>5 DEF Step

\* What a commit of a client that is alone and read what it checksummed does.
LEMMA ExclusiveCommit ==
  ASSUME TypeOK, PushInvariant, [Next]_vars,
         NEW c \in Clients, Commits(c), alone[c], Fresh(c)
  PROVE  /\ file' = Update(op[c], Concat(Parse(file), blob[c]))
         /\ local'[c] = file'
<1>1. PICK answerLost \in BOOLEAN : Swap(c, answerLost)
  BY OnlySwapCommits
<1>2. /\ pc[c] = "uploaded"
      /\ prev[c] = file
      /\ file' = temp
      /\ local' = local
  BY <1>1 DEF Swap, Advance
<1>3. /\ temp = table[c]
      /\ local[c] = table[c]
      /\ table[c] = Update(op[c], Concat(base[c], blob[c]))
  BY <1>2 DEF PushInvariant
<1>4. base[c] = Parse(file)
  BY <1>2 DEF Fresh
<1> QED  BY <1>2, <1>3, <1>4

(***************************************************************************)
(* For any number of clients, updates and faults, a commit of a client     *)
(* that had the push to itself and read what it checksummed is atomic:     *)
(* verify_hash and the comparison under flock do make it serial.           *)
(***************************************************************************)
THEOREM ExclusiveCommitsAreSerial == Spec => ExclusiveCommitIsSerial
<1>1. TypeOK /\ PushInvariant /\ [Next]_vars =>
        [\A c \in Clients :
           Commits(c) /\ alone[c] /\ Fresh(c) =>
              /\ file' = Update(op[c], Concat(Parse(file), blob[c]))
              /\ local'[c] = file']_vars
  BY ExclusiveCommit
<1> QED  BY <1>1, PushInvariantHolds, PTL DEF Spec, ExclusiveCommitIsSerial

\* add_entry keeps every line of the table it is applied to, and get_table
\* every line of the list.
LEMMA AddKeepsLines ==
  ASSUME NEW o \in Operation, o.kind = "add",
         NEW s \in Contents, NEW t \in Contents,
         NEW i \in Present(Parse(s).rows)
  PROVE  Update(o, Concat(Parse(s), t)).rows[i] = s.rows[i]
<1>1. s.header /\ Parse(s) = s
  <2> SUFFICES ASSUME ~s.header PROVE FALSE
    BY DEF Parse
  <2>1. Parse(s) = Blank
    BY DEF Parse
  <2> QED  BY <2>1 DEF Blank, Present
<1>2. i \in Ids /\ s.rows[i] # NoRow
  BY <1>1 DEF Present
<1> DEFINE r == Concat(s, t)
<1>3. r \in Contents
  BY ConcatType
<1>4. r.rows[i] = s.rows[i]
  BY <1>1, <1>2 DEF Concat, Contents, RowMap
<1>5. r.rows \in RowMap /\ i \in Present(r.rows)
  BY <1>2, <1>3, <1>4 DEF Present, Contents
<1>6. GenerateId(r.rows) # i
  BY <1>5, GeneratedIdIsNew
<1> HIDE DEF r
<1>7. Update(o, r).rows = [r.rows EXCEPT ![GenerateId(r.rows)] = Line(o)]
  BY DEF Update, Target
<1>8. Update(o, r).rows[i] = r.rows[i]
  BY <1>2, <1>5, <1>6, <1>7 DEF RowMap
<1> QED  BY <1>1, <1>4, <1>8 DEF r

(***************************************************************************)
(* For any number of clients, updates and faults, such a commit of         *)
(* add_entry leaves every scenario of the list as it was: the generated id *)
(* is not in use when the table is installed.                              *)
(***************************************************************************)
THEOREM AddsKeepEveryEntry == Spec => AddKeepsEveryEntry
<1>1. ASSUME TypeOK, PushInvariant, [Next]_vars,
             NEW c \in Clients, Commits(c), alone[c], Fresh(c),
             op[c].kind = "add",
             NEW i \in Present(Parse(file).rows)
      PROVE  file'.rows[i] = file.rows[i]
  <2>1. file' = Update(op[c], Concat(Parse(file), blob[c]))
    BY <1>1, ExclusiveCommit
  <2>2. op[c] \in Operation /\ file \in Contents /\ blob[c] \in Contents
    BY <1>1, BlobType DEF TypeOK
  <2> QED  BY <1>1, <2>1, <2>2, AddKeepsLines
<1>2. TypeOK /\ PushInvariant /\ [Next]_vars =>
        [\A c \in Clients :
           Commits(c) /\ alone[c] /\ Fresh(c) /\ op[c].kind = "add" =>
              \A i \in Present(Parse(file).rows) :
                 file'.rows[i] = file.rows[i]]_vars
  BY <1>1
<1> QED  BY <1>2, PushInvariantHolds, PTL DEF Spec, AddKeepsEveryEntry

(***************************************************************************)
(* For any number of clients, updates and faults, a <list>.temp left       *)
(* behind while nobody is pushing freezes the list for good.               *)
(***************************************************************************)
THEOREM WedgedListStaysWedged == Spec => WedgedForever
<1>1. ASSUME TypeOK, Wedged, [Next]_vars
      PROVE  Wedged' /\ UNCHANGED <<file, temp>>
  <2> USE <1>1 DEF Wedged, Pushing, TypeOK
  <2>1. CASE UNCHANGED vars
    BY <2>1 DEF vars
  <2>2. ASSUME NEW c \in Clients, Step(c)
        PROVE  Wedged' /\ UNCHANGED <<file, temp>>
    <3>1. pc[c] \notin {"checked", "staged", "uploaded"}
      OBVIOUS
    <3>2. /\ pc' = [pc EXCEPT ![c] = pc'[c]]
          /\ pc'[c] \notin {"checked", "staged", "uploaded"}
          /\ UNCHANGED <<file, temp>>
      BY <2>2, <3>1
         DEF Step, Checksum, ReadAndUpdate, CheckTemp, TempExists, Stage, Upload, Swap,
             SwapError, Abort, Advance
    <3> QED  BY <3>2
  <2> QED  BY <2>1, <2>2 DEF Next
<1>2. TypeOK /\ [Next]_vars => [Wedged => Wedged' /\ UNCHANGED <<file, temp>>]_vars
  BY <1>1
<1> QED  BY <1>2, TypeCorrect, PTL DEF Spec, WedgedForever

-----------------------------------------------------------------------------
(***************************************************************************)
(* One client implements the atomic list.                                  *)
(***************************************************************************)

\* What a client that shares the list with nobody and never fails to read
\* carries through an update: its table is due to the list as it is now.
Solo(c) ==
    /\ failures = 0
    /\ pc[c] # "idle" => op[c] \in Operations
    /\ pc[c] \in {"read", "checked", "staged", "uploaded"} =>
          /\ blob[c] = Parse(Blob)
          /\ base[c] = Parse(file)
          /\ ~Raises(op[c], Concat(base[c], blob[c]))
    /\ Pushing(c) => alone[c]

\* Every step of the only client keeps Solo.
LEMMA NextSolo ==
  ASSUME NEW c, Clients = {c}, MaxFailures = 0,
         TypeOK, Solo(c), [Next]_vars
  PROVE  Solo(c)'
<1> USE DEF Solo, Pushing, TypeOK
<1>1. CASE UNCHANGED vars
  BY <1>1 DEF vars
<1>2. CASE Step(c)
  <2>1. ASSUME NEW o \in Operations, Checksum(c, o) PROVE Solo(c)'
    BY <2>1 DEF Checksum, Advance
  <2>2. ASSUME NEW failed \in BOOLEAN, NEW blobFailed \in BOOLEAN,
               ReadAndUpdate(c, failed, blobFailed)
        PROVE  Solo(c)'
    <3>1. failures' = 0 /\ ~failed /\ ~blobFailed
      BY <2>2 DEF ReadAndUpdate, Failure
    <3>2. Downloaded(c, failed) = file /\ file # NoFile
      BY <3>1, SshListStoreAssumption DEF Downloaded
    <3>3. Readable(Downloaded(c, failed)) = Parse(file)
      BY <3>2 DEF Readable
    <3>4. /\ blob' = [blob EXCEPT ![c] = Parse(Blob)]
          /\ base' = [base EXCEPT ![c] = Parse(file)]
          /\ \/ pc' = [pc EXCEPT ![c] = "idle"]
             \/ /\ pc' = [pc EXCEPT ![c] = "read"]
                /\ ~Raises(op[c], Concat(Parse(file), Parse(Blob)))
          /\ pc[c] = "hashed"
          /\ UNCHANGED <<file, op, alone>>
      BY <2>2, <3>1, <3>3 DEF ReadAndUpdate
    <3> QED  BY <3>1, <3>4
  <2>3. CASE CheckTemp(c)
    BY <2>3 DEF CheckTemp, Advance
  <2>4. CASE TempExists(c)
    BY <2>4 DEF TempExists, Advance
  <2>5. CASE Stage(c)
    BY <2>5 DEF Stage, Advance
  <2>6. CASE Upload(c)
    BY <2>6 DEF Upload, Advance
  <2>7. ASSUME NEW answerLost \in BOOLEAN, Swap(c, answerLost) PROVE Solo(c)'
    BY <2>7 DEF Swap, Advance
  <2>8. CASE SwapError(c)
    BY <2>8 DEF SwapError, Advance
  <2>9. CASE Abort(c)
    BY <2>9 DEF Abort
  <2> QED
    BY <1>2, <2>1, <2>2, <2>3, <2>4, <2>5, <2>6, <2>7, <2>8, <2>9 DEF Step
<1> QED  BY <1>1, <1>2 DEF Next

\* The atomic list computes with the same operators.
LEMMA SameOperators ==
  /\ \A t : Atomic!Parse(t) = Parse(t)
  /\ \A s, t : Atomic!Concat(s, t) = Concat(s, t)
  /\ \A o, t : Atomic!Raises(o, t) <=> Raises(o, t)
  /\ \A o, t : Atomic!Update(o, t) = Update(o, t)
  BY DEF Atomic!Parse, Atomic!Concat, Atomic!Raises, Atomic!Update, Atomic!Blank,
         Atomic!Target, Atomic!Line, Atomic!GenerateId, Atomic!Present, Atomic!Ids,
         Parse, Concat, Raises, Update, Blank, Target, Line, GenerateId, Present, Ids

\* Every step of the only client is a step of the atomic list or changes
\* nothing of it.
LEMMA SoloStep ==
  ASSUME NEW c, Clients = {c}, TypeOK, PushInvariant, Solo(c), [Next]_vars
  PROVE  [Atomic!Next]_file
<1>1. CASE UNCHANGED vars
  BY <1>1 DEF vars
<1>2. ASSUME NEW answerLost \in BOOLEAN, Swap(c, answerLost)
      PROVE  Atomic!Next
  <2>1. /\ pc[c] = "uploaded"
        /\ file' = temp
    BY <1>2 DEF Swap, Advance
  <2>2. /\ op[c] \in Operations
        /\ ~Raises(op[c], Concat(Parse(file), Parse(Blob)))
        /\ file' = Update(op[c], Concat(Parse(file), Parse(Blob)))
    BY <2>1 DEF Solo, PushInvariant, Pushing
  <2>3. Atomic!Apply(op[c])
    BY <2>2, SameOperators, Zenon DEF Atomic!Apply
  <2> QED  BY <2>2, <2>3 DEF Atomic!Next
<1>3. CASE Step(c) /\ \A answerLost \in BOOLEAN : ~Swap(c, answerLost)
  BY <1>3
     DEF Step, Checksum, ReadAndUpdate, CheckTemp, TempExists, Stage, Upload, SwapError,
         Abort
<1> QED  BY <1>1, <1>2, <1>3 DEF Next

(***************************************************************************)
(* With a single client and no failing download, the protocol of           *)
(* verify_hash, get_table and push implements the list that AtomicList     *)
(* describes, whatever the operations and wherever it is cut off.          *)
(***************************************************************************)
THEOREM OneClientIsAtomic ==
  ASSUME NEW c, Clients = {c}, MaxFailures = 0
  PROVE  Spec => ImplementsAtomicList
<1>1. Init => Solo(c) /\ Atomic!Init
  BY DEF Init, Solo, Pushing, Atomic!Init
<1>2. TypeOK /\ Solo(c) /\ [Next]_vars => Solo(c)'
  BY NextSolo
<1>3. TypeOK /\ PushInvariant /\ Solo(c) /\ [Next]_vars => [Atomic!Next]_file
  BY SoloStep
<1> QED
  BY <1>1, <1>2, <1>3, PushInvariantHolds, PTL
     DEF Spec, ImplementsAtomicList, Atomic!Spec
=============================================================================
