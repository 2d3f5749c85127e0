-------------------- MODULE ScenarioLifecycleProofs --------------------
(***************************************************************************)
(* TLAPS proofs about the files of a scenario in ScenarioLifecycle: what a *)
(* deletion leaves, and the copies of the change table.                    *)
(***************************************************************************)
EXTENDS ScenarioLifecycleSteps

\* Most leaves are first-order; those that need arithmetic, functions or records say SMT.
USE Zenon

NoInput(i) == files[<<i, "ct">>] = None /\ files[<<i, "grid">>] = None
NoTmp(i) == \A k \in Kinds : inputs[i][k] = None
Trouble == errors + restarts > 0

\* What a deletion has removed when nothing was written since it began.
Removed(o, i) ==
    /\ pc[o] \in Removing => NoInput(i)
    /\ pc[o] \in {"remove tmp", "delete scenario"} => i \notin output
    /\ pc[o] = "delete scenario" => NoTmp(i)

\* What is left of a scenario that is not listed.
Dropped(i) ==
    /\ NoInput(i) /\ NoTmp(i) /\ i \notin output
    /\ \/ statuses[i] = None
       \/ Trouble
       \/ \E o \in Objects : sid[o] = i /\ pc[o] = "delete status"

LeftOK(i) ==
    /\ \A o \in Objects : sid[o] = i => Removed(o, i)
    /\ scenarios[i] = None => Dropped(i)

LeftInv == TypeInv /\ \A i \in Ids : i \notin late => LeftOK(i)

\* A step that adds nothing to the scenario and takes no deletion further.
Quiet(i) ==
    /\ scenarios'[i] = None => scenarios[i] = None
    /\ statuses[i] = None => statuses'[i] = None
    /\ NoInput(i) => NoInput(i)'
    /\ NoTmp(i) => NoTmp(i)'
    /\ i \in output' => i \in output
    /\ Trouble => Trouble'
    /\ \A r \in Objects :
          sid'[r] = i /\ pc'[r] \in Removing => sid[r] = i /\ pc[r] = pc'[r]
    /\ \A r \in Objects :
          sid[r] = i /\ pc[r] = "delete status" =>
             \/ sid'[r] = i /\ pc'[r] = "delete status"
             \/ statuses'[i] = None \/ Trouble'

\* A scenario of which nothing is written, and nothing comes back.
LEMMA QuietLeft ==
  ASSUME LeftInv, NEW i \in Ids, i \notin late, Quiet(i)
  PROVE  LeftOK(i)'
<1>1. LeftOK(i)
  BY DEF LeftInv
<1>2. \A o \in Objects : (sid[o] = i => Removed(o, i))'
  BY <1>1 DEF LeftOK, Removed, Quiet, Removing
<1>3. ASSUME scenarios'[i] = None  PROVE Dropped(i)'
  BY <1>1, <1>3 DEF LeftOK, Dropped, Quiet
<1> QED  BY <1>2, <1>3 DEF LeftOK

\* It is enough to look at the object that moves.
LEMMA LeftStep ==
  ASSUME LeftInv, TypeInv', late \subseteq late',
         \A i \in Ids : i \notin late' => Quiet(i) \/ LeftOK(i)'
  PROVE  LeftInv'
  BY QuietLeft DEF LeftInv

\* A write that comes in time: the scenario is listed and not being removed.
LEMMA WrittenLeft ==
  ASSUME NEW i \in Ids, Write(i), i \notin late',
         scenarios[i] # None => scenarios'[i] # None,
         \A r \in Objects :
            sid'[r] = i /\ pc'[r] \in Removing => sid[r] = i /\ pc[r] = pc'[r]
  PROVE  LeftOK(i)'
<1>1. scenarios[i] # None /\ \A r \in Objects : ~(sid[r] = i /\ pc[r] \in Removing)
  BY DEF Write
<1> QED  BY <1>1 DEF LeftOK, Removed, Removing

\* The calls that leave the lists and the files alone.
LEMMA CallsLeft ==
  ASSUME LeftInv, NEW o \in Objects,
         \/ \E t \in Content : New(o, t)
         \/ \E i \in Ids : Open(o, i)
         \/ ChangeToExecute(o) \/ ChangeToDelete(o) \/ CancelDeletion(o)
         \/ ChangeToMove(o) \/ MoveScenario(o) \/ PrepareSimulationInput(o)
         \/ \E k \in Kinds : CheckFile(o, k)
         \/ CheckIfReady(o) \/ Launch(o) \/ CheckIfFinished(o)
         \/ ExtractSimulationOutput(o) \/ DeleteScenario(o)
  PROVE  LeftInv'
<1>1. TypeInv' /\ Only(o)
  BY CallType DEF LeftInv, Call
<1>2. UNCHANGED <<scenarios, statuses, files, inputs, output, late, errors, restarts>>
  BY DEF New, Open, ChangeToExecute, ChangeToDelete, CancelDeletion, ChangeToMove,
         MoveScenario, PrepareSimulationInput, CheckFile, CheckIfReady, Launch,
         CheckIfFinished, ExtractSimulationOutput, DeleteScenario, Stop, store, history,
         bounds
<1>3. pc[o] # "delete status" /\ pc'[o] \notin Removing
  <2>1. ASSUME NEW k \in Kinds, CheckFile(o, k)
        PROVE  pc[o] # "delete status" /\ pc'[o] \notin Removing
    BY <2>1, LabelFacts
       DEF CheckFile, At, Goto, Kinds, Removing, LeftInv, TypeInv, ObjectTypes
  <2>2. CASE ~ \E k \in Kinds : CheckFile(o, k)
    BY <2>2
       DEF New, Open, ChangeToExecute, ChangeToDelete, CancelDeletion, ChangeToMove,
           MoveScenario, PrepareSimulationInput, CheckIfReady, Launch, CheckIfFinished,
           ExtractSimulationOutput, DeleteScenario, Ready, In, At, Goto, Stop, object,
           Removing, LeftInv, TypeInv, ObjectTypes
  <2> QED  BY <2>1, <2>2
<1>4. ASSUME NEW i \in Ids  PROVE Quiet(i)
  BY <1>1, <1>2, <1>3 DEF Quiet, Only, NoInput, NoTmp, Trouble
<1> QED  BY <1>1, <1>2, <1>4, LeftStep

\* An error is in the history.
LEMMA RaisesLeft ==
  ASSUME LeftInv, NEW o \in Objects, CreateRaises(o) \/ Raise(o)
  PROVE  LeftInv'
<1>1. TypeInv' /\ Only(o)
  BY CallType DEF LeftInv, Call
<1>2. UNCHANGED <<scenarios, statuses, files, inputs, output, late>>
  BY DEF CreateRaises, Raise, Stop, store, history
<1>3. pc'[o] = "idle"
  BY DEF CreateRaises, Raise, In, At, Goto, Stop, LeftInv, TypeInv, ObjectTypes
<1>4. Trouble'
  BY ScenarioLifecycleAssumption, SMT
     DEF CreateRaises, Raise, Trouble, LeftInv, TypeInv, CounterTypes
<1>5. ASSUME NEW i \in Ids  PROVE Quiet(i)
  BY <1>1, <1>2, <1>3, <1>4 DEF Quiet, Only, NoInput, NoTmp, Removing
<1> QED  BY <1>1, <1>2, <1>5, LeftStep

\* A new scenario is listed.
LEMMA CreateScenarioLeft ==
  ASSUME LeftInv, NEW o \in Objects, CreateScenario(o)
  PROVE  LeftInv'
<1>1. TypeInv' /\ Only(o)
  BY CallType DEF LeftInv, Call
<1>2. UNCHANGED <<statuses, files, inputs, output, late, errors, restarts>>
  BY DEF CreateScenario, history, bounds
<1>3. pc[o] # "delete status" /\ pc'[o] \notin Removing
  BY DEF CreateScenario, In, At, Goto, Removing, LeftInv, TypeInv, ObjectTypes
<1>4. ASSUME NEW i \in Ids, scenarios'[i] = None  PROVE scenarios[i] = None
  <2>1. [ct |-> draft[o] # Empty, state |-> "execute"] # None
    <3>1. [ct |-> draft[o] # Empty, state |-> "execute"] \in Entries
      BY DEF Entries
    <3> QED  BY <3>1, NoneIsNoRow
  <2> QED  BY <1>4, <2>1 DEF CreateScenario, LeftInv, TypeInv, StoreTypes
<1>5. ASSUME NEW i \in Ids  PROVE Quiet(i)
  BY <1>1, <1>2, <1>3, <1>4 DEF Quiet, Only, NoInput, NoTmp, Trouble
<1> QED  BY <1>1, <1>2, <1>5, LeftStep

\* The calls that write: in time, or the history says that it was too late.
LEMMA WritesLeft ==
  ASSUME LeftInv, NEW o \in Objects,
         \/ UploadChangeTable(o) \/ AddStatus(o) \/ SetPrepared(o)
         \/ \E k \in Kinds : CopyFile(o, k)
  PROVE  LeftInv'
<1>1. TypeInv' /\ Only(o)
  BY CallType DEF LeftInv, Call
<1>2. PICK j \in Ids : j = sid[o]
  BY LabelFacts
     DEF LeftInv, TypeInv, ObjectOK, UploadChangeTable, AddStatus, SetPrepared,
         CopyFile, At, Kinds
<1>3. /\ sid' = sid /\ UNCHANGED <<scenarios, output, errors, restarts>>
      /\ late \subseteq late'
  BY <1>2 DEF UploadChangeTable, AddStatus, SetPrepared, CopyFile, Write, bounds
<1>4. pc[o] # "delete status" /\ pc'[o] \notin Removing
  <2>1. CASE UploadChangeTable(o) \/ AddStatus(o) \/ SetPrepared(o)
    BY <2>1
       DEF UploadChangeTable, AddStatus, SetPrepared, SwitchToExecute, Become, At, Goto,
           Removing, LeftInv, TypeInv, ObjectTypes
  <2>2. ASSUME NEW k \in Kinds, CopyFile(o, k)
        PROVE  pc[o] # "delete status" /\ pc'[o] \notin Removing
    <3>1. pc[o] = CopyLabel[k] /\ pc'[o] = AfterCopy[k]
      BY <2>2 DEF CopyFile, At, Goto, LeftInv, TypeInv, ObjectTypes
    <3>2. "delete status" \notin Preparing /\ Removing \cap Preparing = {}
      BY DEF Removing, Preparing
    <3> QED  BY <3>1, <3>2, KindLabels
  <2> QED  BY <2>1, <2>2
<1>5. \A r \in Objects : pc'[r] \in Removing => pc[r] = pc'[r]
  BY <1>1, <1>4 DEF Only
<1>6. UNCHANGED <<statuses, files, inputs>> \/ Write(j)
  BY <1>2 DEF UploadChangeTable, AddStatus, SetPrepared, CopyFile
<1>7. ASSUME NEW i \in Ids, i # j \/ UNCHANGED <<statuses, files, inputs>>  PROVE Quiet(i)
  <2>1. /\ statuses'[i] = statuses[i] /\ inputs'[i] = inputs[i]
        /\ files'[<<i, "ct">>] = files[<<i, "ct">>]
        /\ files'[<<i, "grid">>] = files[<<i, "grid">>]
    <3>1. CASE UploadChangeTable(o)
      BY <1>2, <1>7, <3>1 DEF UploadChangeTable, LeftInv, TypeInv, StoreTypes, Paths
    <3>2. CASE AddStatus(o) \/ SetPrepared(o)
      BY <1>2, <1>7, <3>2 DEF AddStatus, SetPrepared, LeftInv, TypeInv, StoreTypes
    <3>3. CASE \E k \in Kinds : CopyFile(o, k)
      BY <1>2, <1>7, <3>3 DEF CopyFile, LeftInv, TypeInv, StoreTypes
    <3> QED  BY <3>1, <3>2, <3>3
  <2> QED  BY <1>1, <1>3, <1>4, <1>5, <2>1 DEF Quiet, Only, NoInput, NoTmp, Trouble
<1>8. ASSUME j \notin late', Write(j)  PROVE LeftOK(j)'
  BY <1>3, <1>5, <1>8, WrittenLeft
<1> QED  BY <1>1, <1>3, <1>6, <1>7, <1>8, LeftStep

\* A deletion removes what it finds before it goes on.
LEMMA RemovesLeft ==
  ASSUME LeftInv, NEW o \in Objects, RemoveInput(o) \/ RemoveOutput(o) \/ RemoveTmp(o)
  PROVE  LeftInv'
<1>1. TypeInv' /\ Only(o)
  BY CallType DEF LeftInv, Call
<1>2. PICK j \in Ids : j = sid[o]
  BY DEF LeftInv, TypeInv, ObjectOK, RemoveInput, RemoveOutput, RemoveTmp, At
<1>3. sid' = sid /\ UNCHANGED <<scenarios, statuses, late, errors, restarts>>
  BY DEF RemoveInput, RemoveOutput, RemoveTmp, history, bounds
<1>4. ASSUME NEW i \in Ids
      PROVE  /\ NoInput(i) => NoInput(i)'
             /\ NoTmp(i) => NoTmp(i)'
             /\ i \in output' => i \in output
  <2>1. CASE RemoveInput(o)
    BY <2>1 DEF RemoveInput, NoInput, NoTmp, Paths, LeftInv, TypeInv, StoreTypes
  <2>2. CASE RemoveOutput(o)
    BY <2>2 DEF RemoveOutput, NoInput, NoTmp
  <2>3. CASE RemoveTmp(o)
    BY <2>3 DEF RemoveTmp, NoInput, NoTmp, LeftInv, TypeInv, StoreTypes
  <2> QED  BY <2>1, <2>2, <2>3
<1>5. ASSUME j \notin late  PROVE Removed(o, j)'
  <2>1. Removed(o, j)
    BY <1>2, <1>5 DEF LeftInv, LeftOK
  <2>2. CASE RemoveInput(o)
    <3>1. pc'[o] = "remove output" /\ NoInput(j)'
      BY <1>2, <2>2
         DEF RemoveInput, Goto, NoInput, Paths, LeftInv, TypeInv, ObjectTypes,
             StoreTypes
    <3> QED  BY <3>1 DEF Removed
  <2>3. CASE RemoveOutput(o)
    <3>1. pc'[o] = "remove tmp" /\ j \notin output' /\ NoInput(j)
      BY <1>2, <2>1, <2>3
         DEF RemoveOutput, At, Goto, Removed, Removing, LeftInv, TypeInv, ObjectTypes
    <3> QED  BY <1>4, <3>1 DEF Removed
  <2>4. CASE RemoveTmp(o)
    <3>1. pc'[o] = "delete scenario" /\ j \notin output /\ NoInput(j)
      BY <1>2, <2>1, <2>4
         DEF RemoveTmp, At, Goto, Removed, Removing, LeftInv, TypeInv, ObjectTypes
    <3>2. NoTmp(j)'
      BY <1>2, <2>4 DEF RemoveTmp, NoTmp, LeftInv, TypeInv, StoreTypes
    <3> QED  BY <1>4, <3>1, <3>2 DEF Removed
  <2> QED  BY <2>2, <2>3, <2>4
<1>6. pc[o] # "delete status"
  BY DEF RemoveInput, RemoveOutput, RemoveTmp, At
<1>7. ASSUME NEW i \in Ids, i # j  PROVE Quiet(i)
  BY <1>1, <1>2, <1>3, <1>4, <1>6, <1>7 DEF Quiet, Only, Trouble
<1>8. ASSUME j \notin late  PROVE LeftOK(j)'
  <2>1. LeftOK(j)
    BY <1>8 DEF LeftInv
  <2>2. \A r \in Objects : (sid[r] = j => Removed(r, j))'
    BY <1>1, <1>3, <1>4, <1>5, <1>8, <2>1 DEF LeftOK, Removed, Only
  <2>3. ASSUME scenarios'[j] = None  PROVE Dropped(j)'
    BY <1>1, <1>3, <1>4, <1>6, <2>1, <2>3 DEF LeftOK, Dropped, Only, Trouble
  <2> QED  BY <2>2, <2>3 DEF LeftOK
<1> QED  BY <1>1, <1>3, <1>7, <1>8, LeftStep

\* The row of the scenario goes when its files are gone, and its status is next,
LEMMA DeleteScenarioEntryLeft ==
  ASSUME LeftInv, NEW o \in Objects, DeleteScenarioEntry(o)
  PROVE  LeftInv'
<1>1. TypeInv' /\ Only(o)
  BY CallType DEF LeftInv, Call
<1>2. PICK j \in Ids : j = sid[o]
  BY DEF LeftInv, TypeInv, ObjectOK, DeleteScenarioEntry, At
<1>3. /\ sid' = sid
      /\ UNCHANGED <<statuses, files, inputs, output, late, errors, restarts>>
      /\ \A i \in Ids \ {j} : scenarios'[i] = scenarios[i]
      /\ pc[o] = "delete scenario"
      /\ pc'[o] = IF scenarios[j] # None THEN "delete status" ELSE "idle"
  BY <1>2
     DEF DeleteScenarioEntry, At, Goto, history, bounds, LeftInv, TypeInv, ObjectTypes,
         StoreTypes
<1>4. ASSUME NEW i \in Ids, i # j  PROVE Quiet(i)
  BY <1>1, <1>2, <1>3, <1>4 DEF Quiet, Only, NoInput, NoTmp, Trouble
<1>5. ASSUME j \notin late  PROVE LeftOK(j)'
  <2>1. LeftOK(j) /\ Removed(o, j)
    BY <1>2, <1>5 DEF LeftInv, LeftOK
  <2>2. \A r \in Objects : (sid[r] = j => Removed(r, j))'
    BY <1>1, <1>3, <2>1 DEF LeftOK, Removed, Only, NoInput, NoTmp, Removing
  <2>3. NoInput(j)' /\ NoTmp(j)' /\ j \notin output'
    BY <1>3, <2>1 DEF Removed, Removing, NoInput, NoTmp
  <2>4. CASE scenarios[j] = None
    <3>1. Dropped(j)
      BY <2>1, <2>4 DEF LeftOK
    <3>2. \/ statuses'[j] = None \/ Trouble'
          \/ \E r \in Objects : sid'[r] = j /\ pc'[r] = "delete status"
      BY <1>1, <1>3, <3>1 DEF Dropped, Only, Trouble
    <3> QED  BY <2>2, <2>3, <3>2 DEF LeftOK, Dropped
  <2>5. CASE scenarios[j] # None
    BY <1>2, <1>3, <2>2, <2>3, <2>5 DEF LeftOK, Dropped
  <2> QED  BY <2>4, <2>5
<1> QED  BY <1>1, <1>3, <1>4, <1>5, LeftStep

\* and then it goes.
LEMMA DeleteStatusEntryLeft ==
  ASSUME LeftInv, NEW o \in Objects, DeleteStatusEntry(o)
  PROVE  LeftInv'
<1>1. TypeInv' /\ Only(o)
  BY CallType DEF LeftInv, Call
<1>2. PICK j \in Ids : j = sid[o]
  BY DEF LeftInv, TypeInv, ObjectOK, DeleteStatusEntry, At
<1>3. /\ UNCHANGED <<scenarios, files, inputs, output, late, errors, restarts>>
      /\ statuses'[j] = None /\ \A i \in Ids \ {j} : statuses'[i] = statuses[i]
      /\ pc'[o] = "idle"
  BY <1>2
     DEF DeleteStatusEntry, Goto, history, bounds, LeftInv, TypeInv, ObjectTypes,
         StoreTypes
<1>4. ASSUME NEW i \in Ids  PROVE Quiet(i)
  BY <1>1, <1>2, <1>3 DEF Quiet, Only, NoInput, NoTmp, Trouble, Removing
<1> QED  BY <1>1, <1>3, <1>4, LeftStep

\* The engine writes when it extracts.
LEMMA EngineLeft ==
  ASSUME LeftInv, NEW j \in Ids, Engine(j)
  PROVE  LeftInv'
<1>1. TypeInv' /\ sid' = sid /\ pc' = pc
  BY EngineType DEF LeftInv, object
<1>2. EngineEffect(j)
  BY EngineEffects DEF LeftInv
<1>3. ASSUME NEW i \in Ids, i # j \/ UNCHANGED <<files, output>>  PROVE Quiet(i)
  <2>1. NoInput(i) => NoInput(i)'
    BY <1>3
       DEF Engine, EngineStart, EngineFinish, EngineExtract, NoInput, LeftInv, TypeInv,
           StoreTypes, Paths
  <2>2. i \in output' => i \in output
    BY <1>3 DEF Engine, EngineStart, EngineFinish, EngineExtract
  <2> QED  BY <1>1, <1>2, <2>1, <2>2 DEF Quiet, EngineEffect, NoTmp, Trouble
<1>4. late \subseteq late' /\ (UNCHANGED <<files, output>> \/ Write(j))
  BY DEF Engine, EngineStart, EngineFinish, EngineExtract, Write, history
<1>5. ASSUME j \notin late', Write(j)  PROVE LeftOK(j)'
  BY <1>1, <1>2, <1>5, WrittenLeft DEF EngineEffect
<1> QED  BY <1>1, <1>3, <1>4, <1>5, LeftStep

\* A restart of a process forgets what its objects were doing.
LEMMA RestartLeft ==
  ASSUME LeftInv, NEW p \in Processes, Restart(p)
  PROVE  LeftInv'
<1>1. Trouble'
  BY ScenarioLifecycleAssumption, SMT
     DEF LeftInv, Restart, Trouble, TypeInv, CounterTypes
<1>2. TypeInv' /\ Trouble'
  BY <1>1, RestartType DEF LeftInv
<1>3. /\ UNCHANGED <<scenarios, statuses, files, inputs, output, late>>
      /\ \A r \in Objects : pc'[r] = "idle" \/ (sid'[r] = sid[r] /\ pc'[r] = pc[r])
  BY DEF Restart, store, history
<1>4. ASSUME NEW i \in Ids  PROVE Quiet(i)
  BY <1>2, <1>3 DEF Quiet, NoInput, NoTmp, Removing
<1> QED  BY <1>2, <1>3, <1>4, LeftStep

-----------------------------------------------------------------------------
\* The local copies and the caches of the change table of scenario i.
Agree(i) ==
    \A p \in Processes :
        /\ local[p][<<i, "ct">>] \in {None, files[<<i, "ct">>]}
        /\ cache[p][<<i, "ct">>] \in {None, files[<<i, "ct">>]}

\* The object that creates scenario i.
Creator(o, i) ==
    /\ scenarios[i].ct <=> draft[o] # Empty
    /\ pc[o] = "upload ct" => files[<<i, "ct">>] = None
    /\ pc[o] = "add status" /\ draft[o] # Empty => files[<<i, "ct">>] = draft[o]

\* What an object that has scenario i has of it.
Holds(o, i) ==
    /\ state[o] \in {"execute", "analyze"} => ct[o] = TableOf(i)
    /\ statuses[i] = None \/ state[o] = "create" => pc[o] \in Creating
    /\ pc[o] \in Creating => Creator(o, i)
    /\ scenarios[i] # None

CohOK(i) ==
    /\ Agree(i)
    /\ \A k \in Kinds : inputs[i][k] # None => inputs[i][k] = TableOf(i)
    /\ scenarios[i] = None => files[<<i, "ct">>] = None
    /\ statuses[i] = None => \A k \in Kinds : inputs[i][k] = None
    /\ \A o \in Objects : sid[o] = i => Holds(o, i)

CohInv ==
    /\ PrepInv
    /\ errors = 0 => \A i \in Ids : i \notin touched => CohOK(i)

\* The scenario keeps its row, its status, its change table and its inputs.
Kept(i) ==
    /\ scenarios'[i] = None <=> scenarios[i] = None
    /\ scenarios[i] # None => scenarios'[i].ct = scenarios[i].ct
    /\ statuses'[i] = None <=> statuses[i] = None
    /\ files'[<<i, "ct">>] = files[<<i, "ct">>]
    /\ inputs'[i] = inputs[i]

\* An object that does not change, or moves outside of create_scenario.
Moved(o, i) ==
    /\ sid[o] = i /\ draft'[o] = draft[o]
    /\ pc'[o] = pc[o] \/ (pc[o] \notin Creating /\ pc'[o] \notin Creating)
    /\ state'[o] \in {"execute", "analyze"} => state'[o] = state[o] /\ ct'[o] = ct[o]
    /\ state'[o] = "create" => state'[o] = state[o]

\* A scenario whose copies stay as they are, for objects that keep their tables.
LEMMA KeptCoh ==
  ASSUME NEW i \in Ids, CohOK(i), Kept(i), Agree(i)',
         \A r \in Objects : sid'[r] = i => Moved(r, i) \/ Holds(r, i)'
  PROVE  CohOK(i)'
<1>1. TableOf(i)' = TableOf(i) \/ scenarios[i] = None
  BY DEF TableOf, Kept
<1>2. ASSUME NEW r \in Objects, sid'[r] = i, Moved(r, i)  PROVE Holds(r, i)'
  <2>1. Holds(r, i) /\ sid[r] = i
    BY <1>2 DEF CohOK, Moved
  <2>2. pc'[r] \in Creating => Creator(r, i)'
    BY <1>2, <2>1 DEF Holds, Moved, Creator, Kept, Creating
  <2> QED  BY <1>1, <1>2, <2>1, <2>2 DEF Holds, Moved, Kept
<1>3. \A k \in Kinds : inputs'[i][k] # None => inputs'[i][k] = TableOf(i)'
  BY <1>1, SMT DEF CohOK, Kept, TableOf
<1> QED  BY <1>2, <1>3 DEF CohOK, Kept

\* InputData gives the change table when every copy agrees with it.
LEMMA FoundAgrees ==
  ASSUME SessionTypes, NEW i \in Ids, Agree(i), NEW p \in Processes
  PROVE  Found(p, <<i, "ct">>) = files[<<i, "ct">>]
  BY DEF Agree, Found

\* What a process reads agrees with what is in the store.
LEMMA LoadAgrees ==
  ASSUME SessionTypes, NEW i \in Ids, Agree(i), files'[<<i, "ct">>] = files[<<i, "ct">>]
  PROVE  \A p \in Processes : \A paths : Load(p, paths) => Agree(i)'
<1> SUFFICES ASSUME NEW p \in Processes, NEW paths, Load(p, paths)  PROVE Agree(i)'
  OBVIOUS
<1> DEFINE q == <<i, "ct">>
<1>1. q \in Paths
  BY DEF Paths
<1>2. Found(p, q) = files[q]
  BY FoundAgrees
<1>3. /\ local'[p][q] \in {local[p][q], Found(p, q)}
      /\ cache'[p][q] \in {cache[p][q], Found(p, q)}
      /\ \A x \in Processes \ {p} : local'[x] = local[x] /\ cache'[x] = cache[x]
  BY <1>1 DEF Load, SessionTypes
<1> QED  BY <1>2, <1>3 DEF Agree

\* Copies that are not touched still agree.
LEMMA StayAgrees ==
  ASSUME NEW i \in Ids, Agree(i), files'[<<i, "ct">>] = files[<<i, "ct">>],
         UNCHANGED <<local, cache>>
  PROVE  Agree(i)'
  BY DEF Agree

\* It is enough to look at the scenarios, and at the object that takes the step.
LEMMA CohStep ==
  ASSUME CohInv, PrepInv', NEW o \in Objects, Only(o), touched \subseteq touched',
         errors' = 0 => errors = 0,
         \A i \in Ids : i \notin touched' /\ CohOK(i) =>
            \/ CohOK(i)'
            \/ /\ Kept(i) /\ Agree(i)'
               /\ sid'[o] = i => Moved(o, i) \/ Holds(o, i)'
  PROVE  CohInv'
<1> SUFFICES ASSUME errors' = 0, NEW i \in Ids, i \notin touched'  PROVE CohOK(i)'
  BY DEF CohInv
<1>1. CohOK(i) /\ errors = 0
  BY DEF CohInv
<1>2. \A r \in Objects \ {o} : sid'[r] = i => Moved(r, i)
  BY DEF Only, Moved
<1> QED  BY <1>1, <1>2, KeptCoh
\* The calls that leave the lists, the files and the copies alone.
LEMMA CallsCoh ==
  ASSUME CohInv, NEW o \in Objects, PrepInv', Only(o),
         \/ \E t \in Content : New(o, t)
         \/ ChangeToDelete(o) \/ CancelDeletion(o) \/ ChangeToMove(o) \/ MoveScenario(o)
         \/ PrepareSimulationInput(o) \/ \E k \in Kinds : CheckFile(o, k)
         \/ CheckIfReady(o) \/ Launch(o) \/ CheckIfFinished(o)
         \/ ExtractSimulationOutput(o) \/ DeleteScenario(o) \/ RemoveOutput(o)
  PROVE  CohInv'
<1>1. UNCHANGED <<scenarios, statuses, files, inputs, local, cache, touched, errors>>
  BY DEF New, ChangeToDelete, CancelDeletion, ChangeToMove, MoveScenario,
         PrepareSimulationInput, CheckFile, CheckIfReady, Launch, CheckIfFinished,
         ExtractSimulationOutput, DeleteScenario, RemoveOutput, Stop, store, session,
         history, bounds
<1>2. ASSUME NEW i \in Ids, sid'[o] = i  PROVE Moved(o, i)
  <2> USE DEF Moved, Creating, CohInv, PrepInv, TypeInv, ObjectTypes
  <2>1. ASSUME NEW t \in Content, New(o, t)  PROVE FALSE
    BY <1>2, <2>1, NoneIsNoRow DEF New
  <2>2. ASSUME NEW k \in Kinds, CheckFile(o, k)  PROVE Moved(o, i)
    BY <1>2, <2>2, LabelFacts DEF CheckFile, At, Goto, Kinds
  <2>3. CASE ChangeToDelete(o) \/ ChangeToMove(o) \/ MoveScenario(o) \/ CancelDeletion(o)
    BY <1>2, <2>3
       DEF ChangeToDelete, ChangeToMove, MoveScenario, CancelDeletion, Stop, In, At,
           Become, Goto, object
  <2>4. CASE \/ PrepareSimulationInput(o) \/ CheckIfReady(o) \/ Launch(o)
             \/ CheckIfFinished(o) \/ ExtractSimulationOutput(o) \/ DeleteScenario(o)
             \/ RemoveOutput(o)
    BY <1>2, <2>4
       DEF PrepareSimulationInput, CheckIfReady, Launch, CheckIfFinished,
           ExtractSimulationOutput, DeleteScenario, RemoveOutput, Ready, In, At, Goto
  <2> QED  BY <2>1, <2>2, <2>3, <2>4
<1>3. ASSUME NEW i \in Ids, CohOK(i)  PROVE Kept(i) /\ Agree(i)'
  BY <1>1, <1>3, StayAgrees DEF Kept, CohOK
<1> QED  BY <1>1, <1>2, <1>3, CohStep

\* The status of a prepared scenario was not missing.
LEMMA SetPreparedCoh ==
  ASSUME CohInv, NEW o \in Objects, PrepInv', Only(o), SetPrepared(o)
  PROVE  CohInv'
<1>1. /\ UNCHANGED <<scenarios, files, inputs, local, cache, touched, errors>>
      /\ statuses' = [statuses EXCEPT ![sid[o]] = "prepared"]
  BY DEF SetPrepared, session, bounds
<1>2. ASSUME NEW i \in Ids, sid'[o] = i  PROVE Moved(o, i)
  BY <1>2
     DEF SetPrepared, At, Goto, Moved, Creating, CohInv, PrepInv, TypeInv, ObjectTypes
<1>3. ASSUME NEW i \in Ids, i \notin touched, CohOK(i)  PROVE Kept(i) /\ Agree(i)'
  <2>1. sid[o] = i => statuses[i] # None
    BY <1>3 DEF CohInv, PrepInv, PrepOK, AtWork, SetPrepared, At, Preparing
  <2>2. statuses'[i] = None <=> statuses[i] = None
    BY <1>1, <2>1, NoneIsNoRow DEF CohInv, PrepInv, TypeInv, StoreTypes, Statuses
  <2> QED  BY <1>1, <1>3, <2>2, StayAgrees DEF Kept, CohOK
<1> QED  BY <1>1, <1>2, <1>3, CohStep

\* A deletion leaves the other scenarios alone.
LEMMA DeletionCoh ==
  ASSUME CohInv, NEW o \in Objects, PrepInv', Only(o),
         RemoveInput(o) \/ RemoveTmp(o) \/ DeleteScenarioEntry(o) \/ DeleteStatusEntry(o)
  PROVE  CohInv'
<1>1. touched \subseteq touched' /\ UNCHANGED <<cache, errors>>
  BY DEF RemoveInput, RemoveTmp, DeleteScenarioEntry, DeleteStatusEntry, session,
         history, bounds
<1>2. sid[o] \in touched' /\ sid'[o] \in {sid[o], None}
  BY DEF RemoveInput, RemoveTmp, DeleteScenarioEntry, DeleteStatusEntry, history, At,
         CohInv, PrepInv, Marked, TypeInv, ObjectTypes
<1>3. ASSUME NEW i \in Ids, i \notin touched', CohOK(i)  PROVE Kept(i) /\ Agree(i)'
  <2>1. i # sid[o]
    BY <1>2, <1>3
  <2>2. CASE RemoveInput(o)
    <3>1. <<i, "ct">> \in Paths /\ <<i, "ct">>[1] = i /\ ProcessOf[o] \in Processes
      BY ScenarioLifecycleAssumption DEF Paths
    <3>2. Kept(i)
      BY <2>1, <2>2, <3>1 DEF RemoveInput, Kept, CohInv, PrepInv, TypeInv, StoreTypes
    <3>3. \A p \in Processes : local'[p][<<i, "ct">>] = local[p][<<i, "ct">>]
      BY <2>1, <2>2, <3>1 DEF RemoveInput, CohInv, PrepInv, TypeInv, SessionTypes
    <3> QED  BY <1>1, <1>3, <3>2, <3>3 DEF Agree, CohOK, Kept
  <2>3. CASE RemoveTmp(o) \/ DeleteScenarioEntry(o) \/ DeleteStatusEntry(o)
    <3>1. Kept(i) /\ UNCHANGED <<local, cache>>
      BY <2>1, <2>3
         DEF RemoveTmp, DeleteScenarioEntry, DeleteStatusEntry, Kept, session, CohInv,
             PrepInv, TypeInv, StoreTypes
    <3> QED  BY <1>3, <3>1, StayAgrees DEF CohOK, Kept
  <2> QED  BY <2>2, <2>3
<1>4. ASSUME NEW i \in Ids, i \notin touched'  PROVE sid'[o] # i
  BY <1>2, <1>4, NoneIsNoRow
<1> QED  BY <1>1, <1>3, <1>4, CohStep

\* Scenario(i) reads what agrees.
LEMMA OpenCoh ==
  ASSUME CohInv, NEW o \in Objects, PrepInv', Only(o), NEW j \in Ids, Open(o, j)
  PROVE  CohInv'
<1>1. /\ UNCHANGED <<scenarios, statuses, files, inputs, touched, errors>>
      /\ sid'[o] = j /\ pc'[o] = "idle"
      /\ state'[o] = scenarios[j].state /\ scenarios[j] # None /\ statuses[j] # None
      /\ ct'[o] = IF scenarios[j].ct THEN Found(ProcessOf[o], <<j, "ct">>) ELSE Empty
  BY DEF Open, At, Become, store, history, CohInv, PrepInv, TypeInv, ObjectTypes
<1>2. SessionTypes /\ ProcessOf[o] \in Processes
  BY ScenarioLifecycleAssumption DEF CohInv, PrepInv, TypeInv
<1>3. ASSUME NEW i \in Ids, CohOK(i)  PROVE Kept(i) /\ Agree(i)'
  <2>1. Kept(i) /\ Agree(i)
    BY <1>1, <1>3 DEF Kept, CohOK
  <2>2. \E paths : Load(ProcessOf[o], paths)
    BY DEF Open
  <2> QED  BY <1>1, <1>2, <2>1, <2>2, LoadAgrees
<1>4. ASSUME CohOK(j)  PROVE Holds(o, j)'
  <2>1. Found(ProcessOf[o], <<j, "ct">>) = files[<<j, "ct">>]
    BY <1>2, <1>4, FoundAgrees DEF CohOK
  <2>2. ct'[o] = TableOf(j)' /\ state'[o] # "create"
    BY <1>1, <2>1, EntryType DEF TableOf, CohInv, PrepInv, TypeInv
  <2> QED  BY <1>1, <2>2 DEF Holds, Creating
<1> QED  BY <1>1, <1>3, <1>4, CohStep

\* A scenario that is not listed and was never removed has nothing.
LEMMA CreateScenarioCoh ==
  ASSUME CohInv, FreshId, NEW o \in Objects, PrepInv', Only(o), CreateScenario(o)
  PROVE  CohInv'
<1>1. PICK n \in Ids : n = List!GenerateId(scenarios) /\ scenarios[n] = None
  BY DEF FreshId, CreateScenario
<1>2. scenarios[n] = None
  BY <1>1
<1>3. /\ UNCHANGED <<statuses, files, inputs, local, cache, touched, errors>>
      /\ sid'[o] = n /\ pc'[o] = "upload ct" /\ state'[o] = "create" /\ draft'[o] = draft[o]
      /\ \A i \in Ids \ {n} : scenarios'[i] = scenarios[i]
  BY <1>1
     DEF CreateScenario, In, Goto, session, history, bounds, CohInv, PrepInv, TypeInv,
         ObjectTypes, StoreTypes
<1>4. scenarios'[n] # None /\ (scenarios'[n].ct <=> draft'[o] # Empty)
  <2>1. scenarios'[n] = [ct |-> draft[o] # Empty, state |-> "execute"]
    BY <1>1 DEF CreateScenario, CohInv, PrepInv, TypeInv, StoreTypes
  <2>2. PICK b \in BOOLEAN : b <=> draft[o] # Empty
    OBVIOUS
  <2>3. scenarios'[n] = [ct |-> b, state |-> "execute"]
    BY <2>2, <2>1
  <2>4. scenarios'[n] \in Entries
    BY <2>3, SMT DEF Entries
  <2>5. scenarios'[n] # None
    BY <2>4, NoneIsNoRow
  <2>6. scenarios'[n].ct = b
    BY <2>3, SMT
  <2>7. draft'[o] = draft[o]
    BY <1>3
  <2> QED  BY <2>2, <2>5, <2>6, <2>7, Zenon
<1>5. ASSUME n \notin touched, CohOK(n)  PROVE CohOK(n)'
  <2>1. files[<<n, "ct">>] = None /\ statuses[n] = None
    BY <1>2, <1>5 DEF CohInv, PrepInv, PrepOK, CohOK
  <2>2. Agree(n)'
    BY <1>3, <1>5, StayAgrees DEF CohOK
  <2>3. \A r \in Objects \ {o} : sid'[r] # n
    BY <1>2, <1>5 DEF CohOK, Holds, Only
  <2>4. Holds(o, n)'
    BY <1>3, <1>4, <2>1 DEF Holds, Creator, Creating
  <2> QED  BY <1>3, <1>4, <1>5, <2>1, <2>2, <2>3, <2>4 DEF CohOK
<1>6. ASSUME NEW i \in Ids, i # n, CohOK(i)  PROVE Kept(i) /\ Agree(i)' /\ sid'[o] # i
  BY <1>3, <1>6, StayAgrees DEF Kept, CohOK
<1> QED  BY <1>3, <1>5, <1>6, CohStep

\* Nobody has the scenario yet but the object that creates it.
LEMMA UploadChangeTableCoh ==
  ASSUME CohInv, NEW o \in Objects, PrepInv', Only(o), UploadChangeTable(o)
  PROVE  CohInv'
<1> DEFINE p == ProcessOf[o]
<1>1. PICK j \in Ids : j = sid[o]
  BY DEF CohInv, PrepInv, TypeInv, ObjectOK, UploadChangeTable, At
<1>2. /\ UNCHANGED <<scenarios, statuses, inputs, cache, touched, errors>>
      /\ sid' = sid /\ draft' = draft /\ state' = state /\ pc[o] = "upload ct"
  BY DEF UploadChangeTable, At, bounds
<1>3. p \in Processes /\ \A i \in Ids : <<i, "ct">> \in Paths
  BY ScenarioLifecycleAssumption DEF Paths
<1>4. state[o] = "create"
  BY <1>2 DEF CohInv, PrepInv, TypeInv, ObjectOK, Creating
<1> DEFINE q == <<j, "ct">>
           v == draft[o]
           m == [local[p] EXCEPT ![q] = v]
<1>5. \/ UNCHANGED <<files, local>>
      \/ files' = [files EXCEPT ![q] = v] /\ local' = [local EXCEPT ![p] = m]
  BY <1>1 DEF UploadChangeTable
<1>6. /\ m[q] = v /\ \A y \in Paths \ {q} : m[y] = local[p][y]
  BY <1>3 DEF CohInv, PrepInv, TypeInv, SessionTypes
<1>7. \/ UNCHANGED <<files, local>>
      \/ /\ files'[q] = v /\ \A y \in Paths \ {q} : files'[y] = files[y]
         /\ local'[p][q] = v /\ \A y \in Paths \ {q} : local'[p][y] = local[p][y]
         /\ \A x \in Processes \ {p} : local'[x] = local[x]
  <2> HIDE DEF m, v, q, p
  <2>1. q \in Paths
    BY <1>3 DEF q
  <2> QED  BY <1>3, <1>5, <1>6, <2>1
              DEF CohInv, PrepInv, TypeInv, StoreTypes, SessionTypes
<1>8. ASSUME NEW i \in Ids, i # j, CohOK(i)  PROVE Kept(i) /\ Agree(i)' /\ sid'[o] # i
  <2>1. /\ files'[<<i, "ct">>] = files[<<i, "ct">>]
        /\ \A x \in Processes : local'[x][<<i, "ct">>] = local[x][<<i, "ct">>]
    <3>1. <<i, "ct">> \in Paths \ {q}
      BY <1>3, <1>8
    <3> QED  BY <1>7, <3>1
  <2> QED  BY <1>1, <1>2, <1>8, <2>1 DEF Kept, Agree, CohOK
<1>9. ASSUME j \notin touched, CohOK(j)  PROVE CohOK(j)'
  <2>1. Holds(o, j) /\ Creator(o, j) /\ statuses[j] = None /\ scenarios[j] # None
    BY <1>1, <1>2, <1>9 DEF CohOK, Holds, CohInv, PrepInv, PrepOK, AtWork, Creating
  <2>2. files[<<j, "ct">>] = None
    BY <1>2, <2>1 DEF Creator
  <2>3. \A r \in Objects \ {o} : sid[r] # j
    <3>1. OneCreator(j)
      BY <1>9 DEF CohInv, PrepInv, PrepOK
    <3>2. \A r \in Objects : sid[r] = j => pc[r] \in Creating
      BY <1>9, <2>1 DEF CohOK, Holds
    <3> QED  BY <1>1, <1>2, <3>1, <3>2 DEF OneCreator, Creating
  <2>4. \A x \in Processes : local[x][<<j, "ct">>] = None /\ cache[x][<<j, "ct">>] = None
    BY <1>9, <2>2 DEF CohOK, Agree
  <2>5. \/ /\ draft[o] = Empty /\ pc'[o] = "add status" /\ UNCHANGED <<files, local>>
        \/ /\ draft[o] # Empty /\ pc'[o] = "add status"
           /\ files'[<<j, "ct">>] = draft[o]
           /\ \A x \in Processes : local'[x][<<j, "ct">>] \in {None, draft[o]}
    <3>1. \/ draft[o] = Empty /\ pc'[o] = "add status" /\ UNCHANGED <<files, local>>
          \/ draft[o] # Empty /\ pc'[o] = "add status" /\ files' = [files EXCEPT ![q] = v]
      BY <1>1, <2>2 DEF UploadChangeTable, Goto, CohInv, PrepInv, TypeInv, ObjectTypes
    <3>2. files' = [files EXCEPT ![q] = v] => files'[q] = v
      BY <1>3 DEF CohInv, PrepInv, TypeInv, StoreTypes
    <3>3. files'[q] = v => v = None \/ \A x \in Processes : local'[x][q] \in {None, v}
      BY <1>7, <2>2, <2>4
    <3>4. v # None
      BY <1>4 DEF CohInv, PrepInv, TypeInv, ObjectOK
    <3> QED  BY <3>1, <3>2, <3>3, <3>4
  <2>6. Agree(j)'
    BY <1>2, <2>4, <2>5 DEF Agree
  <2>7. Holds(o, j)'
    BY <1>2, <1>4, <2>1, <2>5 DEF Holds, Creator, Creating
  <2> QED  BY <1>1, <1>2, <1>9, <2>1, <2>3, <2>6, <2>7 DEF CohOK
<1> QED  BY <1>2, <1>8, <1>9, CohStep

\* create_scenario ends: the object has the change table it has written.
LEMMA AddStatusCoh ==
  ASSUME CohInv, NEW o \in Objects, PrepInv', Only(o), AddStatus(o)
  PROVE  CohInv'
<1> DEFINE p == ProcessOf[o]
<1>1. PICK j \in Ids : j = sid[o]
  BY DEF CohInv, PrepInv, TypeInv, ObjectOK, AddStatus, At
<1>2. /\ UNCHANGED <<scenarios, files, inputs, touched, errors>>
      /\ sid' = sid /\ state'[o] = "execute" /\ pc[o] = "add status" /\ pc'[o] = "idle"
      /\ ct'[o] = IF draft[o] # Empty THEN Found(p, <<j, "ct">>) ELSE Empty
      /\ statuses'[j] = "created" /\ \A i \in Ids \ {j} : statuses'[i] = statuses[i]
  <2>1. statuses'[j] = "created" /\ \A i \in Ids \ {j} : statuses'[i] = statuses[i]
    BY <1>1 DEF AddStatus, CohInv, PrepInv, TypeInv, StoreTypes
  <2>2. /\ UNCHANGED <<scenarios, files, inputs, touched, errors>>
        /\ sid' = sid /\ state'[o] = "execute" /\ pc[o] = "add status" /\ pc'[o] = "idle"
        /\ ct'[o] = IF draft[o] # Empty THEN Found(p, <<j, "ct">>) ELSE Empty
    BY <1>1
       DEF AddStatus, SwitchToExecute, Become, At, Goto, bounds, CohInv, PrepInv,
           TypeInv, ObjectTypes
  <2> QED  BY <2>1, <2>2
<1>3. SessionTypes /\ p \in Processes /\ \E paths : Load(p, paths)
  BY ScenarioLifecycleAssumption
     DEF CohInv, PrepInv, TypeInv, AddStatus, SwitchToExecute
<1>4. ASSUME NEW i \in Ids, CohOK(i)  PROVE Agree(i)'
  BY <1>2, <1>3, <1>4, LoadAgrees DEF CohOK
<1>5. ASSUME NEW i \in Ids, i # j  PROVE Kept(i) /\ sid'[o] # i
  BY <1>1, <1>2, <1>5 DEF Kept
<1>6. ASSUME j \notin touched, CohOK(j)  PROVE CohOK(j)'
  <2>1. Creator(o, j) /\ statuses[j] = None /\ scenarios[j] # None
    BY <1>1, <1>2, <1>6 DEF CohOK, Holds, CohInv, PrepInv, PrepOK, AtWork, Creating
  <2>2. \A r \in Objects \ {o} : sid[r] # j
    <3>1. OneCreator(j)
      BY <1>6 DEF CohInv, PrepInv, PrepOK
    <3>2. \A r \in Objects : sid[r] = j => pc[r] \in Creating
      BY <1>6, <2>1 DEF CohOK, Holds
    <3> QED  BY <1>1, <1>2, <3>1, <3>2 DEF OneCreator, Creating
  <2>3. Found(p, <<j, "ct">>) = files[<<j, "ct">>]
    BY <1>3, <1>6, FoundAgrees DEF CohOK
  <2>4. ct'[o] = TableOf(j)'
    BY <1>2, <2>1, <2>3 DEF TableOf, Creator
  <2>5. statuses'[j] # None
    BY <1>2, NoneIsNoRow DEF Statuses
  <2>6. Holds(o, j)'
    BY <1>2, <2>1, <2>4, <2>5 DEF Holds, Creating
  <2> QED  BY <1>2, <1>4, <1>6, <2>1, <2>2, <2>5, <2>6 DEF CohOK
<1> QED  BY <1>2, <1>4, <1>5, <1>6, CohStep

\* The switch that another object has made possible happens to drafts only.
LEMMA ChangeToExecuteCoh ==
  ASSUME CohInv, NEW o \in Objects, PrepInv', Only(o), ChangeToExecute(o)
  PROVE  CohInv'
<1>1. /\ UNCHANGED <<scenarios, statuses, files, inputs, touched, errors>>
      /\ sid' = sid /\ state[o] = "create" /\ pc[o] = "idle"
  BY DEF ChangeToExecute, In, At, store, history, bounds
<1>2. SessionTypes /\ ProcessOf[o] \in Processes /\ \E paths : Load(ProcessOf[o], paths)
  BY ScenarioLifecycleAssumption
     DEF CohInv, PrepInv, TypeInv, ChangeToExecute, SwitchToExecute
<1>3. ASSUME NEW i \in Ids, CohOK(i)  PROVE Kept(i) /\ Agree(i)' /\ sid'[o] # i
  <2>1. Agree(i)'
    BY <1>1, <1>2, <1>3, LoadAgrees DEF CohOK
  <2>2. sid[o] # i
    BY <1>1, <1>3 DEF CohOK, Holds, Creating
  <2> QED  BY <1>1, <2>1, <2>2 DEF Kept
<1> QED  BY <1>1, <1>3, CohStep

\* What is copied was built from self.ct.
LEMMA CopyFileCoh ==
  ASSUME CohInv, NEW o \in Objects, PrepInv', Only(o), NEW k \in Kinds, CopyFile(o, k)
  PROVE  CohInv'
<1>1. pc[o] \in Preparing /\ pc'[o] \notin Creating
  BY LabelFacts
     DEF CopyFile, At, Goto, Kinds, Preparing, Creating, CohInv, PrepInv, TypeInv,
         ObjectTypes
<1>2. /\ UNCHANGED <<scenarios, statuses, files, local, cache, touched, errors>>
      /\ sid' = sid /\ draft' = draft /\ state' = state /\ ct' = ct
      /\ inputs' = [inputs EXCEPT ![sid[o]][k] = ct[o]]
  BY DEF CopyFile, session, bounds
<1>3. PICK j \in Ids : j = sid[o]
  BY <1>1 DEF CohInv, PrepInv, TypeInv, ObjectOK, Preparing
<1>4. /\ inputs'[j][k] = ct[o] /\ \A l \in Kinds \ {k} : inputs'[j][l] = inputs[j][l]
      /\ \A i \in Ids \ {j} : inputs'[i] = inputs[i]
  BY <1>2, <1>3 DEF CohInv, PrepInv, TypeInv, StoreTypes
<1>5. ASSUME NEW i \in Ids, i # j, CohOK(i)  PROVE Kept(i) /\ Agree(i)' /\ sid'[o] # i
  BY <1>2, <1>3, <1>4, <1>5, StayAgrees DEF Kept, CohOK
<1>6. ASSUME j \notin touched, CohOK(j)  PROVE CohOK(j)'
  <2>1. ct[o] = TableOf(j) /\ statuses[j] # None
    BY <1>1, <1>3, <1>6
       DEF CohOK, Holds, CohInv, PrepInv, PrepOK, AtWork, TypeInv, ObjectOK
  <2>2. TableOf(j)' = TableOf(j)
    BY <1>2 DEF TableOf
  <2>3. \A l \in Kinds : inputs'[j][l] # None => inputs'[j][l] = TableOf(j)'
    BY <1>4, <1>6, <2>1, <2>2 DEF CohOK
  <2>4. Agree(j)'
    BY <1>2, <1>6, StayAgrees DEF CohOK
  <2>5. \A r \in Objects : sid'[r] = j => Holds(r, j)'
    <3> SUFFICES ASSUME NEW r \in Objects, sid'[r] = j  PROVE Holds(r, j)'
      OBVIOUS
    <3>1. Holds(r, j)
      BY <1>2, <1>6 DEF CohOK
    <3>2. pc'[r] = pc[r] \/ (r = o /\ pc[r] \notin Creating /\ pc'[r] \notin Creating)
      BY <1>1 DEF Only, Preparing, Creating
    <3> QED  BY <1>2, <2>1, <2>2, <3>1, <3>2 DEF Holds, Creator, Creating
  <2> QED  BY <1>2, <1>6, <2>1, <2>3, <2>4, <2>5 DEF CohOK
<1> QED  BY <1>2, <1>5, <1>6, CohStep

\* The engine extracts the grid, not the change table.
LEMMA EngineCoh ==
  ASSUME CohInv, NEW j \in Ids, PrepInv', Engine(j)
  PROVE  CohInv'
<1>1. sid' = sid /\ pc' = pc /\ state' = state /\ draft' = draft /\ ct' = ct
  BY EngineType DEF CohInv, PrepInv, object
<1>2. EngineEffect(j)
  BY EngineEffects DEF CohInv, PrepInv
<1>3. UNCHANGED <<local, cache>>
  BY DEF Engine, EngineStart, EngineFinish, EngineExtract, session
<1>4. ASSUME NEW i \in Ids  PROVE Kept(i)
  <2>1. files'[<<i, "ct">>] = files[<<i, "ct">>]
    BY DEF Engine, EngineStart, EngineFinish, EngineExtract, CohInv, PrepInv, TypeInv,
           StoreTypes, Paths
  <2>2. scenarios[i] # None => scenarios'[i].ct = scenarios[i].ct
    <3>1. CASE EngineExtract(j)
      BY <3>1, SMT DEF EngineExtract, CohInv, PrepInv, TypeInv, StoreTypes, Entries
    <3>2. CASE ~EngineExtract(j)
      BY <3>2 DEF Engine, EngineStart, EngineFinish
    <3> QED  BY <3>1, <3>2
  <2>3. statuses'[i] = None <=> statuses[i] = None
    BY <1>2, NoneIsNoRow DEF EngineEffect, Statuses
  <2> QED  BY <1>2, <2>1, <2>2, <2>3 DEF Kept, EngineEffect
<1>5. ASSUME NEW i \in Ids, CohOK(i)  PROVE CohOK(i)'
  <2>1. Agree(i)'
    BY <1>3, <1>4, <1>5, StayAgrees DEF CohOK, Kept
  <2>2. \A r \in Objects : sid'[r] = i => Moved(r, i)
    BY <1>1 DEF Moved
  <2> QED  BY <1>4, <1>5, <2>1, <2>2, KeptCoh
<1> QED  BY <1>2, <1>5 DEF CohInv, EngineEffect

\* A restart leaves the files, and no object.
LEMMA RestartCoh ==
  ASSUME CohInv, NEW p \in Processes, PrepInv', Restart(p)
  PROVE  CohInv'
<1>1. /\ UNCHANGED <<scenarios, statuses, files, inputs, local, touched, errors>>
      /\ cache' = [cache EXCEPT ![p] = NoFiles]
  BY DEF Restart, store, history
<1>2. ASSUME NEW i \in Ids, CohOK(i)  PROVE CohOK(i)'
  <2>1. Kept(i)
    BY <1>1 DEF Kept
  <2>2. Agree(i)'
    BY <1>1, <1>2
       DEF Agree, CohOK, NoFiles, Paths, CohInv, PrepInv, TypeInv, SessionTypes
  <2>3. \A r \in Objects : sid'[r] = i => Moved(r, i)
    BY NoneIsNoRow DEF Restart, Moved
  <2> QED  BY <1>2, <2>1, <2>2, <2>3, KeptCoh
<1> QED  BY <1>1, <1>2 DEF CohInv

\* At first there is nothing to agree.
LEMMA InitCoh == Init => CohInv
<1> SUFFICES ASSUME Init  PROVE CohInv
  OBVIOUS
<1>1. ASSUME NEW i \in Ids  PROVE CohOK(i)
  <2>1. Agree(i) /\ files[<<i, "ct">>] = None
    BY DEF Init, Agree, NoFiles, Paths
  <2>2. \A k \in Kinds : inputs[i][k] = None
    BY DEF Init
  <2>3. \A o \in Objects : sid[o] # i
    BY NoneIsNoRow DEF Init
  <2> QED  BY <2>1, <2>2, <2>3 DEF CohOK
<1> QED  BY <1>1, InitPrep DEF CohInv

-----------------------------------------------------------------------------
T == INSTANCE CsvTableProofs WITH Rows <- Entries, NoRow <- None

\* _generate_scenario_id gives an id that is not listed.
LEMMA NewIdIsUnlisted == TypeInv => FreshId
<1> SUFFICES ASSUME TypeInv, List!GenerateId(scenarios) \in Ids
             PROVE  scenarios[List!GenerateId(scenarios)] = None
  BY DEF FreshId
<1>1. scenarios \in T!RowMap
  BY DEF TypeInv, StoreTypes, T!RowMap, T!Ids, Ids
<1>2. T!GenerateId(scenarios) \notin T!Present(scenarios)
  BY <1>1, T!GeneratedIdIsNew, ScenarioLifecycleAssumption, NoneIsNoRow
<1>3. T!GenerateId(scenarios) = List!GenerateId(scenarios)
  BY DEF T!GenerateId, List!GenerateId, T!Present, List!Present, T!Ids, List!Ids
<1> QED  BY <1>2, <1>3 DEF T!Present, T!Ids, Ids

(***************************************************************************)
(* Every list, file and session keeps its type: a status is one that the   *)
(* code knows, and at most MaxJobs simulations of a scenario are under way.*)
(***************************************************************************)
THEOREM TypeCorrect == Spec => []TypeOK
<1>1. Spec => []TypeInv
  BY InitType, NextType, PTL DEF Spec
<1> QED  BY <1>1, TypesImply, PTL

\* Every step keeps the invariant of preparations.
LEMMA NextPrep == PrepInv /\ [Next]_vars => PrepInv'
<1> SUFFICES ASSUME PrepInv, [Next]_vars  PROVE PrepInv'
  OBVIOUS
<1>1. ASSUME NEW o \in Objects, Call(o)  PROVE PrepInv'
  BY <1>1, NewIdIsUnlisted, EndPrep, WithinPrep, CreateScenarioPrep, AddStatusPrep,
     CopyFilePrep, SetPreparedPrep, StartPrep, RemoveInputPrep, DeletionPrep, SMTT(20)
     DEF Call, PrepInv
<1>2. CASE UNCHANGED vars
  <2>1. TypeInv'
    BY NextType DEF PrepInv
  <2>2. /\ UNCHANGED <<scenarios, statuses, inputs, jobs, touched>>
        /\ sid' = sid /\ pc' = pc
    BY <1>2 DEF vars, store, object, history
  <2>3. ASSUME NEW i \in Ids, i \notin touched  PROVE PrepOK(i)'
    BY <2>2, <2>3, UndisturbedPrep DEF Undisturbed
  <2>4. \A o \in Objects : Marked(o)'
    BY <2>2 DEF PrepInv, Marked
  <2> QED  BY <2>1, <2>2, <2>3, <2>4 DEF PrepInv
<1> QED  BY <1>1, <1>2, EnginePrep, RestartPrep DEF Next

(***************************************************************************)
(* The status of a scenario that nobody has begun to delete says that it   *)
(* is prepared only when its two inputs are in the execute directory, for  *)
(* any number of objects preparing, launching and creating at once.        *)
(***************************************************************************)
THEOREM PreparedScenariosHaveInputs == Spec => []PreparedHasInputs
<1>1. PrepInv => PreparedHasInputs
  BY DEF PrepInv, PrepOK, PreparedHasInputs, Past, Complete
<1> QED  BY <1>1, InitPrep, NextPrep, PTL DEF Spec

(***************************************************************************)
(* A preparation that was cut off after its first file stays so, whatever  *)
(* the users, the engine, errors and restarts do: only a deletion ends it. *)
(***************************************************************************)
THEOREM HalfPreparationsStay == Spec => HalfPreparedIsPermanent
<1>1. PrepInv /\ [Next]_vars =>
        [\A i \in Ids : HalfPrepared(i) => HalfPrepared(i)' \/ i \in touched']_vars
  BY HalfPreparedStep
<1> QED  BY <1>1, InitPrep, NextPrep, PTL DEF Spec, HalfPreparedIsPermanent

\* Every step keeps the invariant of deletions.
LEMMA NextLeft == LeftInv /\ [Next]_vars => LeftInv'
<1> SUFFICES ASSUME LeftInv, [Next]_vars  PROVE LeftInv'
  OBVIOUS
<1>1. ASSUME NEW o \in Objects, Call(o)  PROVE LeftInv'
  BY <1>1, CallsLeft, RaisesLeft, CreateScenarioLeft, WritesLeft, RemovesLeft,
     DeleteScenarioEntryLeft, DeleteStatusEntryLeft, SMTT(20) DEF Call
<1>2. CASE UNCHANGED vars
  <2>1. TypeInv'
    BY NextType DEF LeftInv
  <2>2. UNCHANGED <<scenarios, statuses, files, inputs, output, late, errors, restarts,
  sid, pc>>
    BY <1>2 DEF vars, store, object, history, bounds
  <2>3. ASSUME NEW i \in Ids  PROVE Quiet(i)
    BY <2>2 DEF Quiet, NoInput, NoTmp, Trouble
  <2> QED  BY <2>1, <2>2, <2>3, LeftStep
<1> QED  BY <1>1, <1>2, EngineLeft, RestartLeft DEF Next

(***************************************************************************)
(* Whatever a deletion leaves of a scenario was written too late, for any  *)
(* number of objects deleting, preparing and creating at once.             *)
(***************************************************************************)
THEOREM OnlyLateLeftovers == Spec => []LeftoversAreLate
<1>1. Init => LeftInv
  BY InitType, SMT
     DEF Init, LeftInv, LeftOK, Removed, Removing, Dropped, NoInput, NoTmp, NoFiles,
         Paths
<1>2. LeftInv => LeftoversAreLate
  <2> SUFFICES ASSUME LeftInv, NEW i \in Ids, i \notin late, scenarios[i] = None
               PROVE  /\ \A q \in Paths : q[1] = i => files[q] = None
                      /\ Dropped(i)
    BY DEF Dropped, NoTmp, Trouble, LeftoversAreLate, At
  <2>1. Dropped(i)
    BY DEF LeftInv, LeftOK
  <2>2. \A q \in Paths : q = <<q[1], "ct">> \/ q = <<q[1], "grid">>
    BY SMT DEF Paths
  <2> QED  BY <2>1, <2>2 DEF Dropped, NoInput
<1> QED  BY <1>1, <1>2, NextLeft, PTL DEF Spec

\* Every step keeps the invariant of copies.
LEMMA NextCoh == CohInv /\ [Next]_vars => CohInv'
<1> SUFFICES ASSUME CohInv, [Next]_vars  PROVE CohInv'
  OBVIOUS
<1>1. PrepInv'
  BY NextPrep DEF CohInv
<1>2. ASSUME NEW o \in Objects, Call(o)  PROVE CohInv'
  <2>1. Only(o)
    BY <1>2, CallType DEF CohInv, PrepInv
  <2>2. CASE CreateRaises(o) \/ Raise(o)
    <3>1. errors' # 0
      BY <2>2, SMT DEF CreateRaises, Raise, CohInv, PrepInv, TypeInv, CounterTypes
    <3> QED  BY <1>1, <3>1 DEF CohInv
  <2>3. FreshId
    BY NewIdIsUnlisted DEF CohInv, PrepInv
  <2>4. CASE ~(CreateRaises(o) \/ Raise(o))
    BY <1>1, <1>2, <2>1, <2>4, <2>3, CallsCoh, SetPreparedCoh, DeletionCoh, OpenCoh,
       CreateScenarioCoh, UploadChangeTableCoh, AddStatusCoh, ChangeToExecuteCoh,
       CopyFileCoh DEF Call
  <2> QED  BY <2>2, <2>4
<1>3. CASE UNCHANGED vars
  <2>1. UNCHANGED <<scenarios, statuses, files, inputs, local, cache, touched, errors,
                    sid, pc, state, draft, ct>>
    BY <1>3 DEF vars, store, session, object, history, bounds
  <2>2. ASSUME NEW i \in Ids, CohOK(i)  PROVE CohOK(i)'
    <3>1. Kept(i) /\ Agree(i)' /\ \A r \in Objects : sid'[r] = i => Moved(r, i)
      BY <2>1, <2>2 DEF Kept, Agree, CohOK, Moved
    <3> QED  BY <2>2, <3>1, KeptCoh
  <2> QED  BY <1>1, <2>1, <2>2 DEF CohInv
<1> QED  BY <1>1, <1>2, <1>3, EngineCoh, RestartCoh DEF Next

(***************************************************************************)
(* Until its files begin to be removed, and as long as nothing raised, the *)
(* copies, the objects and the simulation inputs of a scenario agree with  *)
(* the change table it was created with, for any number of processes and   *)
(* objects, whichever of them restart.                                     *)
(***************************************************************************)
THEOREM FirstUsesAreCoherent == Spec => []FirstUseIsCoherent
<1>1. CohInv => FirstUseIsCoherent
  BY DEF CohInv, CohOK, Agree, Holds, FirstUseIsCoherent
<1> QED  BY <1>1, InitCoh, NextCoh, PTL DEF Spec
=============================================================================
