---------------------- MODULE ScenarioLifecycleSteps -----------------------
(***************************************************************************)
(* TLAPS proofs about ScenarioLifecycle, for any objects, processes,       *)
(* change tables, number of scenarios, simulations, errors and restarts.   *)
(***************************************************************************)
EXTENDS ScenarioLifecycle, TLAPS

\* Most leaves are first-order; those that need arithmetic, functions or records say SMT.
USE Zenon

Creating == {"upload ct", "add status"}
Deleting == {"remove input", "remove output", "remove tmp", "delete scenario",
             "delete status"}

\* What an object in the middle of a method, or in a state, has.
ObjectOK(o) ==
    /\ pc[o] # "idle" => sid[o] \in Ids
    /\ pc[o] \in Creating => state[o] = "create" /\ tried[o]
    /\ pc[o] \in Preparing => state[o] = "execute" /\ ct[o] # None
    /\ pc[o] \in {"launch", "extract"} => state[o] = "execute"
    /\ pc[o] \in Deleting => state[o] = "delete"
    /\ state[o] = "create" => draft[o] # None /\ (tried[o] \/ sid[o] = None)
    /\ state[o] = "create" /\ tried[o] => sid[o] \in Ids
    /\ state[o] \in {"analyze", "move"} => sid[o] \in Ids

StoreTypes ==
    /\ scenarios \in [Ids -> Entries \cup {None}]
    /\ statuses \in [Ids -> Statuses \cup {None}]
    /\ files \in [Paths -> Content \cup {None}]
    /\ inputs \in [Ids -> [Kinds -> Content \cup {None}]]
    /\ output \subseteq Ids /\ backup \subseteq Ids
    /\ touched \subseteq Ids /\ late \subseteq Ids

SessionTypes ==
    /\ local \in [Processes -> [Paths -> Content \cup {None}]]
    /\ cache \in [Processes -> [Paths -> Content \cup {None}]]
    /\ leaked \in [Processes -> SUBSET {"execute", "move"}]

ObjectTypes ==
    /\ state \in [Objects -> States]
    /\ sid \in [Objects -> Ids \cup {None}]
    /\ draft \in [Objects -> Content \cup {None}]
    /\ ct \in [Objects -> Content \cup {None}]
    /\ pc \in [Objects -> Labels]
    /\ tried \in [Objects -> BOOLEAN]

CounterTypes ==
    /\ jobs \in [Ids -> [Phases -> 0 .. MaxJobs]]
    /\ \A i \in Ids : Busy(i) <= MaxJobs
    /\ made \in 0 .. MaxMade /\ errors \in 0 .. MaxErrors /\ restarts \in 0 .. MaxRestarts

\* The types, in four parts, and what the objects have.
TypeInv ==
    /\ StoreTypes /\ SessionTypes /\ ObjectTypes /\ CounterTypes
    /\ \A o \in Objects : ObjectOK(o)

\* The id that create_scenario takes is not listed.
FreshId ==
    List!GenerateId(scenarios) \in Ids => scenarios[List!GenerateId(scenarios)] = None

\* What get_data finds is a content or nothing,
LEMMA FoundType ==
  ASSUME StoreTypes, SessionTypes
  PROVE  \A p \in Processes, q \in Paths : Found(p, q) \in Content \cup {None}
  BY SMT DEF StoreTypes, SessionTypes, Found

\* and what it keeps is too.
LEMMA LoadType ==
  ASSUME StoreTypes, SessionTypes
  PROVE  \A p \in Processes : \A paths : Load(p, paths) =>
            /\ local' \in [Processes -> [Paths -> Content \cup {None}]]
            /\ cache' \in [Processes -> [Paths -> Content \cup {None}]]
<1> SUFFICES ASSUME NEW p \in Processes, NEW paths, Load(p, paths)
             PROVE  /\ local' \in [Processes -> [Paths -> Content \cup {None}]]
                    /\ cache' \in [Processes -> [Paths -> Content \cup {None}]]
  OBVIOUS
<1>1. \A q \in Paths : Found(p, q) \in Content \cup {None}
  BY FoundType
<1> DEFINE l == [q \in Paths |-> IF q \in paths /\ cache[p][q] = None
                                 THEN Found(p, q) ELSE local[p][q]]
           c == [q \in Paths |-> IF q \in paths THEN Found(p, q) ELSE cache[p][q]]
<1>2. l \in [Paths -> Content \cup {None}] /\ c \in [Paths -> Content \cup {None}]
  BY <1>1 DEF SessionTypes
<1>3. local' = [local EXCEPT ![p] = l] /\ cache' = [cache EXCEPT ![p] = c]
  BY DEF Load
<1> HIDE DEF l, c
<1> QED  BY <1>2, <1>3 DEF SessionTypes

\* The history of late writes.
LEMMA WriteType ==
  ASSUME StoreTypes
  PROVE  \A i \in Ids : Write(i) => late' \subseteq Ids
  BY DEF StoreTypes, Write

\* The two files of a preparation, in their order.
LEMMA LabelFacts ==
  /\ CheckLabel["profiles"] = "check profiles" /\ CheckLabel["grid"] = "check grid"
  /\ CopyLabel["profiles"] = "copy profiles" /\ CopyLabel["grid"] = "copy grid"
  /\ AfterCopy["profiles"] = "check grid" /\ AfterCopy["grid"] = "set prepared"
  BY DEF CheckLabel, CopyLabel, AfterCopy

\* Where an object is that checks or copies a file.
LEMMA KindLabels ==
  ASSUME NEW k \in Kinds
  PROVE  /\ CheckLabel[k] \in Preparing
         /\ CopyLabel[k] \in Preparing \ {"check profiles"}
         /\ AfterCopy[k] \in Preparing \ {"check profiles"}
<1>1. CASE k = "profiles"
  BY <1>1, LabelFacts DEF Preparing
<1>2. CASE k = "grid"
  BY <1>2, LabelFacts DEF Preparing
<1> QED  BY <1>1, <1>2 DEF Kinds

\* An entry of the list.
LEMMA EntryType ==
  ASSUME StoreTypes, NEW i \in Ids, scenarios[i] # None
  PROVE  scenarios[i].ct \in BOOLEAN /\ scenarios[i].state \in {"execute", "analyze"}
  BY DEF StoreTypes, Entries

\* It implies the type invariant of the module.
LEMMA TypesImply == TypeInv => TypeOK
  BY DEF TypeInv, StoreTypes, SessionTypes, ObjectTypes, CounterTypes, TypeOK

\* A step of o leaves the other objects alone.
Only(o) ==
    \A r \in Objects \ {o} :
        /\ state'[r] = state[r] /\ sid'[r] = sid[r] /\ draft'[r] = draft[r]
        /\ tried'[r] = tried[r] /\ ct'[r] = ct[r] /\ pc'[r] = pc[r]

\* The lists and the files: the calls that write, and the rest.
LEMMA CallStore ==
  ASSUME TypeInv, NEW o \in Objects, Call(o)
  PROVE  StoreTypes'
<1>1. pc[o] # "idle" => sid[o] \in Ids
  BY DEF TypeInv, ObjectOK
<1>2. CASE CreateScenario(o)
  BY <1>2 DEF TypeInv, StoreTypes, CreateScenario, Entries, history
<1>3. CASE UploadChangeTable(o)
  <2>1. <<sid[o], "ct">> \in Paths /\ sid[o] \in Ids
    BY <1>1, <1>3 DEF UploadChangeTable, At, Paths
  <2>2. late' \subseteq Ids
    BY <1>3, <2>1, WriteType DEF TypeInv, StoreTypes, UploadChangeTable
  <2>3. draft[o] \in Content \cup {None}
    BY DEF TypeInv, ObjectTypes
  <2>4. files' \in [Paths -> Content \cup {None}]
    BY <1>3, <2>1, <2>3 DEF TypeInv, StoreTypes, UploadChangeTable
  <2> QED  BY <1>3, <2>2, <2>4 DEF TypeInv, StoreTypes, UploadChangeTable
<1>4. CASE AddStatus(o) \/ SetPrepared(o)
  <2>1. late' \subseteq Ids
    BY <1>1, <1>4, WriteType DEF TypeInv, AddStatus, SetPrepared, At
  <2> QED  BY <1>1, <1>4, <2>1
              DEF TypeInv, StoreTypes, AddStatus, SetPrepared, At, Statuses
<1>5. ASSUME NEW k \in Kinds, CopyFile(o, k)  PROVE StoreTypes'
  <2>1. sid[o] \in Ids
    BY <1>1, <1>5, LabelFacts DEF CopyFile, At, Kinds
  <2>2. late' \subseteq Ids
    BY <1>5, <2>1, WriteType DEF TypeInv, CopyFile
  <2>3. ct[o] \in Content \cup {None}
    BY DEF TypeInv, ObjectTypes
  <2>4. inputs' \in [Ids -> [Kinds -> Content \cup {None}]]
    BY <1>5, <2>1, <2>3 DEF TypeInv, StoreTypes, CopyFile
  <2> QED  BY <1>5, <2>2, <2>4 DEF TypeInv, StoreTypes, CopyFile
<1>6. CASE RemoveInput(o)
  BY <1>1, <1>6 DEF TypeInv, StoreTypes, RemoveInput, At, Paths
<1>7. CASE RemoveOutput(o)
  BY <1>7 DEF TypeInv, StoreTypes, RemoveOutput, history
<1>8. CASE RemoveTmp(o)
  BY <1>1, <1>8 DEF TypeInv, StoreTypes, RemoveTmp, At, history
<1>9. CASE DeleteScenarioEntry(o) \/ DeleteStatusEntry(o)
  BY <1>1, <1>9
     DEF TypeInv, StoreTypes, DeleteScenarioEntry, DeleteStatusEntry, At, history
<1>10. CASE MoveScenario(o)
  BY <1>10 DEF TypeInv, ObjectOK, StoreTypes, MoveScenario, In, history
<1>11. CASE UNCHANGED <<store, history>>
  BY <1>11 DEF TypeInv, StoreTypes, store, history
<1> QED
  BY <1>2, <1>3, <1>4, <1>5, <1>6, <1>7, <1>9, <1>10, <1>11, <1>8
     DEF Call, New, Open, CreateRaises, ChangeToExecute, PrepareSimulationInput,
         CheckFile, CheckIfReady, Launch, CheckIfFinished, ExtractSimulationOutput,
         ChangeToDelete, DeleteScenario, CancelDeletion, ChangeToMove, Raise, Stop

\* The local copies, the caches and the class attributes.
LEMMA CallSession ==
  ASSUME TypeInv, NEW o \in Objects, Call(o)
  PROVE  SessionTypes'
<1> DEFINE p == ProcessOf[o]
<1>1. p \in Processes /\ StoreTypes /\ SessionTypes
  BY ScenarioLifecycleAssumption DEF TypeInv
<1>2. ASSUME NEW i \in Ids, Open(o, i)  PROVE SessionTypes'
  <2> DEFINE paths == CtPath(i, scenarios[i].ct)
                      \cup (IF scenarios[i].state = "analyze" THEN {<<i, "grid">>} ELSE {})
             more == IF scenarios[i].state = "analyze" /\ statuses[i] = "extracted"
                     THEN {"move"} ELSE {}
  <2>1. Load(p, paths) /\ leaked' = [leaked EXCEPT ![p] = @ \cup more]
    BY <1>2 DEF Open
  <2>2. more \subseteq {"execute", "move"}
    OBVIOUS
  <2> HIDE DEF p, paths, more
  <2>3. leaked' \in [Processes -> SUBSET {"execute", "move"}]
    BY <1>1, <2>1, <2>2 DEF SessionTypes
  <2> QED  BY <1>1, <2>1, <2>3, LoadType DEF SessionTypes
<1>3. CASE AddStatus(o) \/ ChangeToExecute(o)
  <2>1. \E paths : Load(p, paths)
    BY <1>3 DEF AddStatus, ChangeToExecute, SwitchToExecute
  <2>2. leaked' \in [Processes -> SUBSET {"execute", "move"}]
    BY <1>1, <1>3 DEF SessionTypes, AddStatus, ChangeToExecute
  <2> QED  BY <1>1, <2>1, <2>2, LoadType DEF SessionTypes
<1>4. CASE UploadChangeTable(o)
  <2> DEFINE q == <<sid[o], "ct">>
             v == draft[o]
             m == [local[p] EXCEPT ![q] = v]
  <2>1. q \in Paths /\ v \in Content \cup {None}
    BY <1>4 DEF TypeInv, ObjectTypes, ObjectOK, At, UploadChangeTable, Paths
  <2>2. local' = local \/ local' = [local EXCEPT ![p] = m]
    BY <1>4 DEF UploadChangeTable
  <2> HIDE DEF p, q, v
  <2>3. m \in [Paths -> Content \cup {None}]
    BY <1>1, <2>1 DEF SessionTypes
  <2> HIDE DEF m
  <2>4. local' \in [Processes -> [Paths -> Content \cup {None}]]
    BY <1>1, <2>2, <2>3 DEF SessionTypes
  <2> QED  BY <1>1, <1>4, <2>4 DEF SessionTypes, UploadChangeTable
<1>5. CASE RemoveInput(o)
  <2> DEFINE l == [q \in Paths |-> IF q[1] = sid[o] THEN None ELSE local[p][q]]
  <2>1. l \in [Paths -> Content \cup {None}]
    BY <1>1 DEF SessionTypes
  <2>2. local' = [local EXCEPT ![p] = l]
    BY <1>1, <1>5 DEF RemoveInput, SessionTypes
  <2> HIDE DEF p, l
  <2>3. local' \in [Processes -> [Paths -> Content \cup {None}]]
    BY <1>1, <2>1, <2>2 DEF SessionTypes
  <2> QED  BY <1>1, <1>5, <2>3 DEF SessionTypes, RemoveInput
<1>6. CASE UNCHANGED session
  BY <1>1, <1>6 DEF SessionTypes, session
<1> QED
  BY <1>2, <1>3, <1>4, <1>5, <1>6
     DEF Call, New, CreateScenario, CreateRaises, PrepareSimulationInput, CheckFile,
         CopyFile, SetPrepared, CheckIfReady, Launch, CheckIfFinished,
         ExtractSimulationOutput, ChangeToDelete, DeleteScenario, RemoveOutput,
         RemoveTmp, CancelDeletion, DeleteScenarioEntry, DeleteStatusEntry,
         ChangeToMove, MoveScenario, Raise, Stop

\* The simulations under way and the bounds.
LEMMA CallCounters ==
  ASSUME TypeInv, NEW o \in Objects, Call(o)
  PROVE  CounterTypes'
<1> USE ScenarioLifecycleAssumption DEF TypeInv, CounterTypes, Busy
<1>1. ASSUME Make, UNCHANGED <<jobs, errors, restarts>>  PROVE CounterTypes'
  BY <1>1, SMT DEF Make
<1>2. CASE CreateRaises(o) \/ Raise(o)
  BY <1>2, SMT DEF CreateRaises, Raise, Stop
<1>3. CASE Launch(o) \/ ExtractSimulationOutput(o)
  <2>1. sid[o] \in Ids
    BY <1>3 DEF ObjectOK, Launch, ExtractSimulationOutput, At
  <2> QED  BY <1>3, <2>1, SMT DEF Launch, ExtractSimulationOutput, Phases, bounds
<1>4. CASE UNCHANGED <<jobs, bounds>>
  BY <1>4 DEF bounds
<1> QED
  BY <1>1, <1>2, <1>3, <1>4
     DEF Call, New, Open, CreateScenario, UploadChangeTable, AddStatus, ChangeToExecute,
         PrepareSimulationInput, CheckFile, CopyFile, SetPrepared, CheckIfReady,
         CheckIfFinished, ChangeToDelete, DeleteScenario, RemoveInput, RemoveOutput,
         RemoveTmp, CancelDeletion, DeleteScenarioEntry, DeleteStatusEntry,
         ChangeToMove, MoveScenario, Stop

\* A call that moves the object to another place.
LEMMA GotoObject ==
  ASSUME TypeInv, NEW o \in Objects, UNCHANGED <<state, sid, draft, tried, ct>>,
         NEW l \in Labels, Goto(o, l),
         l # "idle" => sid[o] \in Ids,
         l \in Creating => state[o] = "create" /\ tried[o],
         l \in Preparing => state[o] = "execute" /\ ct[o] # None,
         l \in {"launch", "extract"} => state[o] = "execute",
         l \in Deleting => state[o] = "delete"
  PROVE  ObjectTypes' /\ Only(o) /\ ObjectOK(o)'
<1>1. pc' = [pc EXCEPT ![o] = l] /\ pc'[o] = l
  BY DEF Goto, TypeInv, ObjectTypes
<1>2. ObjectTypes'
  BY <1>1 DEF TypeInv, ObjectTypes
<1>3. Only(o)
  BY <1>1 DEF TypeInv, ObjectTypes, Only
<1>4. ObjectOK(o)'
  BY <1>1 DEF TypeInv, ObjectOK
<1> QED  BY <1>2, <1>3, <1>4

\* The object that makes the call, and no other.
LEMMA CallObject ==
  ASSUME TypeInv, NEW o \in Objects, Call(o)
  PROVE  ObjectTypes' /\ Only(o) /\ ObjectOK(o)'
<1> DEFINE Goal == ObjectTypes' /\ Only(o) /\ ObjectOK(o)'
<1>1. ObjectOK(o) /\ ObjectTypes /\ StoreTypes /\ SessionTypes
  BY DEF TypeInv
<1>2. ASSUME NEW t \in Content, New(o, t)  PROVE Goal
  BY <1>1, <1>2, ScenarioLifecycleAssumption
     DEF New, Content, At, Make, Become, ObjectTypes, Only, ObjectOK, States, Creating,
         Preparing, Deleting
<1>3. ASSUME NEW i \in Ids, Open(o, i)  PROVE Goal
  <2> DEFINE new == IF scenarios[i].ct THEN Found(ProcessOf[o], <<i, "ct">>) ELSE Empty
             s == scenarios[i].state
  <2>1. new \in Content \cup {None}
    BY <1>1, FoundType, ScenarioLifecycleAssumption DEF Content, Paths
  <2>2. s \in {"execute", "analyze"}
    BY <1>1, <1>3, EntryType DEF Open
  <2>3. /\ ct' = [ct EXCEPT ![o] = new] /\ state' = [state EXCEPT ![o] = s]
        /\ sid' = [sid EXCEPT ![o] = i] /\ draft' = [draft EXCEPT ![o] = None]
        /\ tried' = [tried EXCEPT ![o] = FALSE] /\ pc' = pc /\ pc[o] = "idle"
    BY <1>3 DEF Open, At, Become
  <2> HIDE DEF new, s
  <2> QED  BY <1>1, <2>1, <2>2, <2>3
              DEF ObjectTypes, Only, ObjectOK, States, Creating, Preparing, Deleting
<1>4. CASE CreateScenario(o) \/ CreateRaises(o)
  <2>1. PICK n \in Ids : sid' = [sid EXCEPT ![o] = n]
    BY <1>4 DEF CreateScenario, CreateRaises
  <2>2. PICK l \in {"idle", "upload ct"} : pc' = [pc EXCEPT ![o] = l]
    BY <1>1, <1>4 DEF CreateScenario, CreateRaises, In, At, Goto, ObjectTypes
  <2>3. /\ state' = state /\ draft' = draft /\ ct' = ct /\ state[o] = "create"
        /\ tried' = [tried EXCEPT ![o] = TRUE]
    BY <1>4 DEF CreateScenario, CreateRaises, In
  <2>4. ObjectTypes' /\ Only(o)
    BY <1>1, <2>1, <2>2, <2>3 DEF ObjectTypes, Only, Labels
  <2>5. ObjectOK(o)'
    BY <1>1, <2>1, <2>2, <2>3 DEF ObjectTypes, ObjectOK, Creating, Preparing, Deleting
  <2> QED  BY <2>4, <2>5
<1>5. CASE UploadChangeTable(o)
  <2>1. PICK l \in {"idle", "add status"} : Goto(o, l)
    BY <1>5 DEF UploadChangeTable
  <2> QED  BY <1>1, <1>5, <2>1, GotoObject
              DEF UploadChangeTable, At, ObjectOK, Labels, Creating, Preparing, Deleting
<1>6. CASE AddStatus(o) \/ ChangeToExecute(o)
  <2>1. PICK new \in Content \cup {None} :
           /\ ct' = [ct EXCEPT ![o] = new] /\ state' = [state EXCEPT ![o] = "execute"]
           /\ draft' = [draft EXCEPT ![o] = None]
    <3>1. CASE AddStatus(o)
      <4>1. <<sid[o], "ct">> \in Paths
        BY <1>1, <3>1 DEF AddStatus, At, ObjectOK, Paths
      <4> QED  BY <1>1, <3>1, <4>1, FoundType, ScenarioLifecycleAssumption
                  DEF AddStatus, SwitchToExecute, Become, Content
    <3>2. CASE ChangeToExecute(o)
      <4>1. tried[o] => <<sid[o], "ct">> \in Paths
        BY <1>1, <3>2 DEF ChangeToExecute, In, ObjectOK, Paths
      <4> QED  BY <1>1, <3>2, <4>1, FoundType, ScenarioLifecycleAssumption
                  DEF ChangeToExecute, SwitchToExecute, Become, Content
    <3> QED  BY <1>6, <3>1, <3>2
  <2>2. sid' = sid /\ tried' = tried /\ pc' = [pc EXCEPT ![o] = "idle"]
    BY <1>1, <1>6 DEF AddStatus, ChangeToExecute, In, At, Goto, ObjectTypes
  <2> QED  BY <1>1, <2>1, <2>2
              DEF ObjectTypes, Only, ObjectOK, States, Labels, Creating, Preparing,
                  Deleting
<1>7. CASE PrepareSimulationInput(o) \/ CheckIfReady(o) \/ CheckIfFinished(o)
  <2>1. PICK l \in {"check profiles", "launch", "extract"} :
           Goto(o, l) /\ (l = "check profiles" => ct[o] # None)
    BY <1>7 DEF PrepareSimulationInput, CheckIfReady, CheckIfFinished
  <2>2. sid[o] \in Ids /\ state[o] = "execute"
    BY <1>1, <1>7
       DEF PrepareSimulationInput, CheckIfReady, CheckIfFinished, Ready, In, ObjectTypes
  <2> QED  BY <1>7, <2>1, <2>2, GotoObject
              DEF PrepareSimulationInput, CheckIfReady, CheckIfFinished, Labels,
                  Creating, Preparing, Deleting
<1>8. ASSUME NEW k \in Kinds, CheckFile(o, k) \/ CopyFile(o, k)  PROVE Goal
  <2>1. PICK l \in {"idle", "copy profiles", "check grid", "copy grid", "set prepared"} :
           Goto(o, l)
    BY <1>8, LabelFacts DEF CheckFile, CopyFile, Kinds
  <2>2. pc[o] \in Preparing
    BY <1>8, LabelFacts DEF CheckFile, CopyFile, At, Kinds, Preparing
  <2>3. UNCHANGED <<state, sid, draft, tried, ct>>
    BY <1>8 DEF CheckFile, CopyFile
  <2> QED  BY <1>1, <2>1, <2>2, <2>3, GotoObject
              DEF ObjectOK, Labels, Creating, Preparing, Deleting
<1>9. CASE SetPrepared(o) \/ Launch(o) \/ ExtractSimulationOutput(o)
  BY <1>9, GotoObject
     DEF SetPrepared, Launch, ExtractSimulationOutput, Labels, Creating, Preparing,
         Deleting
<1>10. CASE ChangeToDelete(o) \/ ChangeToMove(o) \/ MoveScenario(o)
  BY <1>1, <1>10
     DEF ChangeToDelete, ChangeToMove, MoveScenario, object, In, At, Become,
         ObjectTypes, Only, ObjectOK, States, Creating, Preparing, Deleting
<1>11. CASE \/ DeleteScenario(o) \/ RemoveInput(o) \/ RemoveOutput(o) \/ RemoveTmp(o)
            \/ DeleteScenarioEntry(o)
  <2>1. PICK l \in {"idle"} \cup Deleting : Goto(o, l)
    BY <1>11
       DEF DeleteScenario, RemoveInput, RemoveOutput, RemoveTmp, DeleteScenarioEntry,
           Deleting
  <2>2. sid[o] \in Ids /\ state[o] = "delete"
    BY <1>1, <1>11
       DEF DeleteScenario, RemoveInput, RemoveOutput, RemoveTmp, DeleteScenarioEntry,
           In, At, ObjectOK, ObjectTypes, Deleting
  <2>3. UNCHANGED <<state, sid, draft, tried, ct>>
    BY <1>11
       DEF DeleteScenario, RemoveInput, RemoveOutput, RemoveTmp, DeleteScenarioEntry
  <2> QED  BY <2>1, <2>2, <2>3, GotoObject DEF Labels, Creating, Preparing, Deleting
<1>12. CASE DeleteStatusEntry(o)
  <2>1. /\ pc' = [pc EXCEPT ![o] = "idle"] /\ draft' = draft /\ tried' = tried /\ ct' = ct
        /\ state[o] = "delete"
    BY <1>1, <1>12 DEF DeleteStatusEntry, At, Goto, ObjectOK, Deleting
  <2>2. PICK s \in {"delete", "deleted"}, i \in Ids \cup {None} :
           state' = [state EXCEPT ![o] = s] /\ sid' = [sid EXCEPT ![o] = i]
    BY <1>1, <1>12, <2>1 DEF DeleteStatusEntry, ObjectTypes
  <2> QED  BY <1>1, <2>1, <2>2
              DEF ObjectTypes, Only, ObjectOK, States, Labels, Creating, Preparing,
                  Deleting
<1>13. CASE CancelDeletion(o) \/ Raise(o)
  BY <1>13, GotoObject
     DEF CancelDeletion, Raise, Stop, Labels, Creating, Preparing, Deleting
<1> QED
  BY <1>2, <1>3, <1>4, <1>5, <1>6, <1>7, <1>8, <1>9, <1>10, <1>11, <1>12, <1>13 DEF Call

\* Every step of an object keeps the types, and leaves the other objects alone.
LEMMA CallType ==
  ASSUME TypeInv, NEW o \in Objects, Call(o)
  PROVE  TypeInv' /\ Only(o)
<1>1. Only(o) /\ ObjectTypes' /\ ObjectOK(o)'
  BY CallObject
<1>2. ASSUME NEW r \in Objects, r # o  PROVE ObjectOK(r)'
  BY <1>1, <1>2 DEF TypeInv, ObjectOK, Only
<1> QED  BY <1>1, <1>2, CallStore, CallSession, CallCounters DEF TypeInv

\* The engine and the processes.
LEMMA EngineType ==
  ASSUME TypeInv, NEW i \in Ids, Engine(i)
  PROVE  TypeInv' /\ UNCHANGED object
<1>1. UNCHANGED object /\ UNCHANGED session /\ UNCHANGED bounds
  BY DEF Engine, EngineStart, EngineFinish, EngineExtract
<1>2. StoreTypes'
  <2>1. EngineStart(i) => StoreTypes'
    BY DEF TypeInv, StoreTypes, EngineStart, Report, Statuses, history
  <2>2. ASSUME NEW s \in {"finished", "failed"}, NEW x \in BOOLEAN, EngineFinish(i, s, x)
        PROVE  StoreTypes'
    BY <2>2 DEF TypeInv, StoreTypes, EngineFinish, Report, Statuses, history
  <2>3. EngineExtract(i) => StoreTypes'
    <3> SUFFICES ASSUME EngineExtract(i)  PROVE StoreTypes'
      OBVIOUS
    <3>1. late' \subseteq Ids
      BY WriteType DEF TypeInv, EngineExtract
    <3>2. <<i, "grid">> \in Paths /\ inputs[i]["grid"] \in Content \cup {None}
      BY DEF Paths, TypeInv, StoreTypes, Kinds
    <3>3. files' \in [Paths -> Content \cup {None}]
      BY <3>2 DEF EngineExtract, TypeInv, StoreTypes
    <3>4. scenarios' \in [Ids -> Entries \cup {None}]
      BY SMTT(20) DEF EngineExtract, TypeInv, StoreTypes, Entries
    <3>5. statuses' \in [Ids -> Statuses \cup {None}]
      BY DEF EngineExtract, TypeInv, StoreTypes, Report, Statuses
    <3> QED  BY <3>1, <3>3, <3>4, <3>5 DEF EngineExtract, TypeInv, StoreTypes
  <2> QED  BY <2>1, <2>2, <2>3 DEF Engine
<1>3. CounterTypes'
  <2> USE ScenarioLifecycleAssumption
  <2>1. EngineStart(i) => CounterTypes'
    BY <1>1, SMT DEF TypeInv, CounterTypes, EngineStart, Busy, Phases, bounds
  <2>2. ASSUME NEW s \in {"finished", "failed"}, NEW x \in BOOLEAN, EngineFinish(i, s, x)
        PROVE  CounterTypes'
    BY <2>2, <1>1, SMT DEF TypeInv, CounterTypes, EngineFinish, Busy, Phases, bounds
  <2>3. EngineExtract(i) => CounterTypes'
    BY <1>1, SMT DEF TypeInv, CounterTypes, EngineExtract, Busy, Phases, bounds
  <2> QED  BY <2>1, <2>2, <2>3 DEF Engine
<1>4. SessionTypes' /\ ObjectTypes' /\ \A o \in Objects : ObjectOK(o)'
  BY <1>1 DEF TypeInv, SessionTypes, ObjectTypes, ObjectOK, session, object
<1> QED  BY <1>1, <1>2, <1>3, <1>4 DEF TypeInv

\* A restart of a process.
LEMMA RestartType ==
  ASSUME TypeInv, NEW p \in Processes, Restart(p)
  PROVE  TypeInv'
<1>1. StoreTypes'
  BY DEF TypeInv, StoreTypes, Restart, store, history
<1>2. SessionTypes'
  BY DEF TypeInv, SessionTypes, Restart, NoFiles
<1>3. ObjectTypes'
  <2>1. tried' \in [Objects -> BOOLEAN]
    BY Zenon DEF TypeInv, ObjectTypes, Restart
  <2> QED  BY <2>1 DEF TypeInv, ObjectTypes, Restart, States, Labels
<1>4. CounterTypes'
  BY ScenarioLifecycleAssumption, SMT DEF TypeInv, CounterTypes, Restart, Busy
<1>5. ASSUME NEW o \in Objects  PROVE ObjectOK(o)'
  BY DEF TypeInv, ObjectOK, Restart, Creating, Preparing, Deleting
<1> QED  BY <1>1, <1>2, <1>3, <1>4, <1>5 DEF TypeInv

\* The first state.
LEMMA InitType == Init => TypeInv
<1> SUFFICES ASSUME Init  PROVE TypeInv
  OBVIOUS
<1>1. tried \in [Objects -> BOOLEAN]
  BY Zenon DEF Init
<1>2. StoreTypes /\ SessionTypes
  BY DEF Init, StoreTypes, SessionTypes, NoFiles
<1>3. ObjectTypes /\ \A o \in Objects : ObjectOK(o)
  BY <1>1 DEF Init, ObjectTypes, ObjectOK, States, Labels, Creating, Preparing, Deleting
<1>4. CounterTypes
  BY ScenarioLifecycleAssumption, SMT DEF Init, CounterTypes, Busy, Phases
<1> QED  BY <1>2, <1>3, <1>4 DEF TypeInv

\* Every step keeps the types.
LEMMA NextType == TypeInv /\ [Next]_vars => TypeInv'
<1> SUFFICES ASSUME TypeInv, [Next]_vars  PROVE TypeInv'
  OBVIOUS
<1>1. CASE Next
  BY <1>1, CallType, EngineType, RestartType DEF Next
<1>2. CASE UNCHANGED vars
  BY <1>2
     DEF vars, store, session, object, history, bounds, TypeInv, StoreTypes,
         SessionTypes, ObjectTypes, CounterTypes, ObjectOK, Busy
<1> QED  BY <1>1, <1>2

-----------------------------------------------------------------------------
Complete(i) == \A k \in Kinds : inputs[i][k] # None

\* The status says that the scenario was prepared, or further.
Past(i) == statuses[i] \notin {None, "created"}

HasJobs(i) == \E f \in Phases : jobs[i][f] > 0

\* A deletion past its first removal has left its mark in the history.
Marked(o) ==
    pc[o] \in {"remove output", "remove tmp", "delete scenario", "delete status"} =>
        sid[o] \in touched

\* What an object in the middle of a method knows of its scenario i.
AtWork(o, i) ==
    /\ pc[o] \in {"check grid", "copy grid"} => inputs[i]["profiles"] # None
    /\ pc[o] = "set prepared" => Complete(i)
    /\ pc[o] \in {"launch", "extract"} => Past(i)
    /\ pc[o] \in Preparing => statuses[i] # None
    /\ pc[o] \in Creating => statuses[i] = None /\ scenarios[i] # None

OneCreator(i) ==
    \A o, r \in Objects :
        sid[o] = i /\ sid[r] = i /\ pc[o] \in Creating /\ pc[r] \in Creating => o = r

\* A scenario whose files nobody has begun to remove.
PrepOK(i) ==
    /\ Past(i) => Complete(i)
    /\ HasJobs(i) => Past(i)
    /\ scenarios[i] = None => statuses[i] = None
    /\ \A o \in Objects : sid[o] = i => AtWork(o, i)
    /\ OneCreator(i)

PrepInv ==
    /\ TypeInv
    /\ \A o \in Objects : Marked(o)
    /\ \A i \in Ids : i \notin touched => PrepOK(i)

\* A step that does nothing to the scenario, but for objects that become idle.
Undisturbed(i) ==
    /\ scenarios'[i] = scenarios[i] /\ statuses'[i] = statuses[i]
    /\ inputs'[i] = inputs[i] /\ jobs'[i] = jobs[i]
    /\ \A r \in Objects : sid'[r] = i =>
          pc'[r] = "idle" \/ (sid[r] = i /\ pc'[r] = pc[r])

\* A scenario that a step leaves alone.
LEMMA UndisturbedPrep ==
  ASSUME PrepInv, NEW i \in Ids, i \notin touched, Undisturbed(i)
  PROVE  PrepOK(i)'
<1>1. PrepOK(i)
  BY DEF PrepInv
<1>2. \A o \in Objects : (sid[o] = i => AtWork(o, i))'
  BY <1>1 DEF PrepOK, AtWork, Undisturbed, Past, Complete, Preparing, Creating
<1>3. OneCreator(i)'
  BY <1>1 DEF PrepOK, OneCreator, Undisturbed, Creating
<1> QED  BY <1>1, <1>2, <1>3 DEF PrepOK, Undisturbed, Past, Complete, HasJobs

\* It is enough to look at the object that takes the step and at the scenarios.
LEMMA PrepStep ==
  ASSUME PrepInv, NEW o \in Objects, TypeInv', Only(o), Marked(o)',
         touched \subseteq touched',
         \A i \in Ids : i \notin touched' => Undisturbed(i) \/ PrepOK(i)'
  PROVE  PrepInv'
<1>1. \A r \in Objects : Marked(r)'
  BY DEF PrepInv, Marked, Only
<1> QED  BY <1>1, UndisturbedPrep DEF PrepInv

\* A step that moves the object within a method, or to its end.
LEMMA MovePrep ==
  ASSUME PrepInv, NEW o \in Objects, TypeInv', Only(o), Marked(o)',
         UNCHANGED <<scenarios, statuses, inputs, jobs, touched>>,
         \/ pc'[o] = "idle"
         \/ /\ sid'[o] = sid[o]
            /\ pc'[o] \in Creating => pc[o] \in Creating
            /\ \A i \in Ids : sid[o] = i /\ i \notin touched => AtWork(o, i)'
  PROVE  PrepInv'
<1>1. ASSUME NEW i \in Ids, i \notin touched, sid'[o] = i, pc'[o] # "idle"
      PROVE  PrepOK(i)'
  <2>1. PrepOK(i)
    BY <1>1 DEF PrepInv
  <2>2. AtWork(o, i)'
    BY <1>1
  <2>3. \A r \in Objects : (sid[r] = i => AtWork(r, i))'
    BY <2>1, <2>2 DEF PrepOK, AtWork, Only, Past, Complete
  <2>4. OneCreator(i)'
    BY <1>1, <2>1 DEF PrepOK, OneCreator, Only
  <2> QED  BY <2>1, <2>3, <2>4 DEF PrepOK, Past, Complete, HasJobs
<1>2. ASSUME NEW i \in Ids, ~(sid'[o] = i /\ pc'[o] # "idle")
      PROVE  Undisturbed(i)
  BY <1>2 DEF Undisturbed, Only
<1> QED  BY <1>1, <1>2, PrepStep

\* The calls that only move the object: to the end of a method, or out of one,
LEMMA EndPrep ==
  ASSUME PrepInv, NEW o \in Objects,
         \/ \E t \in Content : New(o, t)
         \/ \E i \in Ids : Open(o, i)
         \/ CreateRaises(o) \/ ChangeToExecute(o) \/ ChangeToDelete(o)
         \/ CancelDeletion(o) \/ ChangeToMove(o) \/ MoveScenario(o) \/ Raise(o)
  PROVE  PrepInv'
<1>1. TypeInv' /\ Only(o)
  BY CallType DEF PrepInv, Call
<1>2. pc'[o] = "idle"
  BY DEF PrepInv, TypeInv, ObjectTypes, New, Open, CreateRaises, ChangeToExecute,
         ChangeToDelete, CancelDeletion, ChangeToMove, MoveScenario, Raise, In, At,
         Stop, Goto, object
<1>3. UNCHANGED <<scenarios, statuses, inputs, jobs, touched>>
  BY DEF New, Open, CreateRaises, ChangeToExecute, ChangeToDelete, CancelDeletion,
         ChangeToMove, MoveScenario, Raise, Stop, store, history
<1>4. Marked(o)'
  BY <1>2 DEF Marked
<1> QED  BY <1>1, <1>2, <1>3, <1>4, MovePrep

\* or within a method.
LEMMA WithinPrep ==
  ASSUME PrepInv, NEW o \in Objects,
         \/ UploadChangeTable(o) \/ PrepareSimulationInput(o) \/ CheckIfReady(o)
         \/ CheckIfFinished(o) \/ DeleteScenario(o) \/ RemoveOutput(o)
         \/ \E k \in Kinds : CheckFile(o, k)
  PROVE  PrepInv'
<1>1. TypeInv' /\ Only(o)
  BY CallType DEF PrepInv, Call
<1>2. /\ UNCHANGED <<scenarios, statuses, inputs, jobs, touched>>
      /\ sid' = sid
  BY DEF UploadChangeTable, PrepareSimulationInput, CheckIfReady, CheckIfFinished,
         DeleteScenario, RemoveOutput, CheckFile, store, history
<1> DEFINE Moved == /\ Marked(o)'
                    /\ \/ pc'[o] = "idle"
                       \/ /\ pc'[o] \in Creating => pc[o] \in Creating
                          /\ \A i \in Ids :
                               sid[o] = i /\ i \notin touched => AtWork(o, i)'
<1>3. ASSUME UploadChangeTable(o)  PROVE Moved
  <2>1. pc'[o] \in {"idle", "add status"}
    BY <1>3 DEF PrepInv, TypeInv, ObjectTypes, UploadChangeTable, Goto
  <2>2. Marked(o)'
    BY <1>2, <1>3, <2>1 DEF PrepInv, Marked, UploadChangeTable, At
  <2>3. ASSUME NEW i \in Ids, sid[o] = i, i \notin touched  PROVE AtWork(o, i)'
    BY <1>2, <1>3, <2>1, <2>3, NoneIsNoRow
       DEF PrepInv, PrepOK, AtWork, UploadChangeTable, At, Goto, Creating, Preparing,
           Past, Complete, Statuses
  <2> QED  BY <2>1, <2>2, <2>3, <1>3 DEF UploadChangeTable, At, Creating
<1>4. ASSUME PrepareSimulationInput(o)  PROVE Moved
  <2>1. pc'[o] = "check profiles"
    BY <1>4 DEF PrepInv, TypeInv, ObjectTypes, PrepareSimulationInput, Goto
  <2>2. Marked(o)'
    BY <1>2, <1>4, <2>1 DEF PrepInv, Marked, PrepareSimulationInput, At
  <2>3. ASSUME NEW i \in Ids, sid[o] = i, i \notin touched  PROVE AtWork(o, i)'
    BY <1>2, <1>4, <2>1, <2>3, NoneIsNoRow
       DEF PrepInv, PrepOK, AtWork, PrepareSimulationInput, Ready, In, At, Goto,
           Creating, Preparing, Past, Complete, Statuses
  <2> QED  BY <2>1, <2>2, <2>3, <1>4 DEF PrepareSimulationInput, At, Creating
<1>5. ASSUME CheckIfReady(o)  PROVE Moved
  <2>1. pc'[o] = "launch"
    BY <1>5 DEF PrepInv, TypeInv, ObjectTypes, CheckIfReady, Goto
  <2>2. Marked(o)'
    BY <1>2, <1>5, <2>1 DEF PrepInv, Marked, CheckIfReady, At
  <2>3. ASSUME NEW i \in Ids, sid[o] = i, i \notin touched  PROVE AtWork(o, i)'
    BY <1>2, <1>5, <2>1, <2>3, NoneIsNoRow
       DEF PrepInv, PrepOK, AtWork, CheckIfReady, Ready, In, At, Goto, Creating,
           Preparing, Past, Complete, Statuses
  <2> QED  BY <2>1, <2>2, <2>3, <1>5 DEF CheckIfReady, At, Creating
<1>6. ASSUME CheckIfFinished(o)  PROVE Moved
  <2>1. pc'[o] = "extract"
    BY <1>6 DEF PrepInv, TypeInv, ObjectTypes, CheckIfFinished, Goto
  <2>2. Marked(o)'
    BY <1>2, <1>6, <2>1 DEF PrepInv, Marked, CheckIfFinished, At
  <2>3. ASSUME NEW i \in Ids, sid[o] = i, i \notin touched  PROVE AtWork(o, i)'
    BY <1>2, <1>6, <2>1, <2>3, NoneIsNoRow
       DEF PrepInv, PrepOK, AtWork, CheckIfFinished, Ready, In, At, Goto, Creating,
           Preparing, Past, Complete, Statuses
  <2> QED  BY <2>1, <2>2, <2>3, <1>6 DEF CheckIfFinished, At, Creating
<1>7. ASSUME DeleteScenario(o)  PROVE Moved
  <2>1. pc'[o] = "remove input"
    BY <1>7 DEF PrepInv, TypeInv, ObjectTypes, DeleteScenario, Goto
  <2>2. Marked(o)'
    BY <1>2, <1>7, <2>1 DEF PrepInv, Marked, DeleteScenario, At
  <2>3. ASSUME NEW i \in Ids, sid[o] = i, i \notin touched  PROVE AtWork(o, i)'
    BY <1>2, <1>7, <2>1, <2>3, NoneIsNoRow
       DEF PrepInv, PrepOK, AtWork, DeleteScenario, In, At, Goto, Creating, Preparing,
           Past, Complete, Statuses
  <2> QED  BY <2>1, <2>2, <2>3, <1>7 DEF DeleteScenario, At, Creating
<1>8. ASSUME RemoveOutput(o)  PROVE Moved
  <2>1. pc'[o] = "remove tmp"
    BY <1>8 DEF PrepInv, TypeInv, ObjectTypes, RemoveOutput, Goto
  <2>2. Marked(o)'
    BY <1>2, <1>8, <2>1 DEF PrepInv, Marked, RemoveOutput, At
  <2>3. ASSUME NEW i \in Ids, sid[o] = i, i \notin touched  PROVE AtWork(o, i)'
    BY <1>2, <1>8, <2>1, <2>3, NoneIsNoRow
       DEF PrepInv, PrepOK, AtWork, RemoveOutput, At, Goto, Creating, Preparing, Past,
           Complete, Statuses
  <2> QED  BY <2>1, <2>2, <2>3, <1>8 DEF RemoveOutput, At, Creating
<1>9. ASSUME NEW k \in Kinds, CheckFile(o, k)  PROVE Moved
  <2>1. sid[o] \in Ids /\ (sid[o] \notin touched => AtWork(o, sid[o]))
    <3>1. pc[o] \in Preparing
      BY <1>9, KindLabels DEF CheckFile, At
    <3>2. sid[o] \in Ids
      BY <3>1 DEF PrepInv, TypeInv, ObjectOK, Preparing
    <3> QED  BY <3>2 DEF PrepInv, PrepOK
  <2>2. CASE k = "profiles"
    BY <1>2, <1>9, <2>1, <2>2, LabelFacts
       DEF PrepInv, TypeInv, ObjectTypes, AtWork, Marked, CheckFile, At, Goto, Creating,
           Preparing, Past, Complete
  <2>3. CASE k = "grid"
    BY <1>2, <1>9, <2>1, <2>3, LabelFacts
       DEF PrepInv, TypeInv, ObjectTypes, AtWork, Marked, CheckFile, At, Goto, Creating,
           Preparing, Past, Complete
  <2> QED  BY <2>2, <2>3 DEF Kinds
<1>10. Moved
  BY <1>3, <1>4, <1>5, <1>6, <1>7, <1>8, <1>9
<1> HIDE DEF Moved
<1> QED
  <2>1. Marked(o)' /\ (\/ pc'[o] = "idle"
                      \/ /\ pc'[o] \in Creating => pc[o] \in Creating
                         /\ \A i \in Ids :
                               sid[o] = i /\ i \notin touched => AtWork(o, i)')
    BY <1>10 DEF Moved
  <2> QED  BY <1>1, <1>2, <2>1, MovePrep

\* A scenario is listed.
LEMMA CreateScenarioPrep ==
  ASSUME PrepInv, FreshId, NEW o \in Objects, CreateScenario(o)
  PROVE  PrepInv'
<1>1. TypeInv' /\ Only(o)
  BY CallType DEF PrepInv, Call
<1>2. Marked(o)' /\ touched' = touched
  BY DEF PrepInv, TypeInv, ObjectTypes, Marked, CreateScenario, Goto, history
<1>3. PICK n \in Ids : n = List!GenerateId(scenarios) /\ scenarios[n] = None
  BY DEF FreshId, CreateScenario
<1>4. /\ sid' = [sid EXCEPT ![o] = n] /\ pc' = [pc EXCEPT ![o] = "upload ct"]
      /\ scenarios' = [scenarios EXCEPT
                         ![n] = [ct |-> draft[o] # Empty, state |-> "execute"]]
      /\ UNCHANGED <<statuses, inputs, jobs>>
  BY <1>3 DEF CreateScenario, Goto
<1>5. scenarios'[n] # None
  <2>1. scenarios'[n] = [ct |-> draft[o] # Empty, state |-> "execute"]
    BY <1>3, <1>4 DEF PrepInv, TypeInv, StoreTypes
  <2>2. scenarios'[n] \in Entries
    BY <2>1, SMT DEF Entries
  <2> QED  BY <2>2, NoneIsNoRow
<1>6. ASSUME n \notin touched  PROVE PrepOK(n)'
  <2>1. PrepOK(n) /\ statuses[n] = None
    BY <1>3, <1>6 DEF PrepInv, PrepOK
  <2>2. \A r \in Objects \ {o} : sid[r] = n => pc[r] \notin Creating
    BY <1>3, <2>1 DEF PrepOK, AtWork
  <2>3. pc'[o] = "upload ct" /\ \A r \in Objects \ {o} : sid'[r] = sid[r] /\ pc'[r] = pc[r]
    BY <1>4 DEF PrepInv, TypeInv, ObjectTypes
  <2>4. \A r \in Objects : (sid[r] = n => AtWork(r, n))'
    BY <1>4, <1>5, <2>1, <2>3 DEF PrepOK, AtWork, Past, Complete, Preparing, Creating
  <2>5. OneCreator(n)'
    BY <2>2, <2>3 DEF OneCreator
  <2> QED  BY <1>4, <1>5, <2>1, <2>4, <2>5 DEF PrepOK, Past, Complete, HasJobs
<1>7. ASSUME NEW i \in Ids, i # n  PROVE Undisturbed(i)
  BY <1>4, <1>7 DEF Undisturbed, PrepInv, TypeInv, ObjectTypes, StoreTypes
<1> QED  BY <1>1, <1>2, <1>6, <1>7, PrepStep

\* The end of create_scenario.
LEMMA AddStatusPrep ==
  ASSUME PrepInv, NEW o \in Objects, AddStatus(o)
  PROVE  PrepInv'
<1>1. TypeInv' /\ Only(o)
  BY CallType DEF PrepInv, Call
<1>2. Marked(o)' /\ touched' = touched
  BY DEF PrepInv, TypeInv, ObjectTypes, Marked, AddStatus, Goto
<1>3. /\ sid[o] \in Ids /\ sid' = sid /\ pc' = [pc EXCEPT ![o] = "idle"]
      /\ statuses' = [statuses EXCEPT ![sid[o]] = "created"]
      /\ UNCHANGED <<scenarios, inputs, jobs>>
  BY DEF PrepInv, TypeInv, ObjectOK, AddStatus, At, Goto
<1>4. ASSUME sid[o] \notin touched  PROVE PrepOK(sid[o])'
  <2>1. PrepOK(sid[o]) /\ statuses[sid[o]] = None /\ scenarios[sid[o]] # None
    BY <1>3, <1>4 DEF PrepInv, PrepOK, AtWork, AddStatus, At, Creating
  <2>2. \A r \in Objects \ {o} : sid[r] = sid[o] => pc[r] \notin Creating
    BY <2>1 DEF PrepOK, OneCreator, AddStatus, At, Creating
  <2>3. statuses'[sid[o]] = "created" /\ ~HasJobs(sid[o])
    BY <1>3, <2>1 DEF PrepInv, TypeInv, StoreTypes, PrepOK, Past
  <2>4. pc'[o] = "idle" /\ \A r \in Objects \ {o} : pc'[r] = pc[r]
    BY <1>3 DEF PrepInv, TypeInv, ObjectTypes
  <2>5. \A r \in Objects : (sid[r] = sid[o] => AtWork(r, sid[o]))'
    BY <1>3, <2>1, <2>2, <2>3, <2>4
       DEF PrepOK, AtWork, Past, Complete, Preparing, Creating
  <2>6. OneCreator(sid[o])'
    BY <1>3, <2>1, <2>2, <2>4 DEF OneCreator, Creating
  <2> QED  BY <1>3, <2>1, <2>3, <2>5, <2>6 DEF PrepOK, Past, HasJobs
<1>5. ASSUME NEW i \in Ids, i # sid[o]  PROVE Undisturbed(i)
  BY <1>3, <1>5 DEF Undisturbed, PrepInv, TypeInv, ObjectTypes, StoreTypes
<1> QED  BY <1>1, <1>2, <1>3, <1>4, <1>5, PrepStep
\* A file is copied.
LEMMA CopyFilePrep ==
  ASSUME PrepInv, NEW o \in Objects, NEW k \in Kinds, CopyFile(o, k)
  PROVE  PrepInv'
<1>1. TypeInv' /\ Only(o)
  BY CallType DEF PrepInv, Call
<1>2. PICK i \in Ids : i = sid[o]
  BY LabelFacts DEF PrepInv, TypeInv, ObjectOK, CopyFile, At, Kinds
<1>3. /\ sid' = sid /\ touched' = touched
      /\ UNCHANGED <<scenarios, statuses, jobs>>
      /\ pc'[o] = AfterCopy[k] /\ pc[o] = CopyLabel[k]
      /\ inputs' = [inputs EXCEPT ![i][k] = ct[o]]
  BY <1>2 DEF PrepInv, TypeInv, ObjectTypes, CopyFile, At, Goto
<1>4. ct[o] # None
  BY <1>3, KindLabels DEF PrepInv, TypeInv, ObjectOK
<1>5. Marked(o)'
  BY <1>3, LabelFacts DEF Marked, Kinds
<1>6. /\ inputs'[i][k] = ct[o] /\ \A l \in Kinds \ {k} : inputs'[i][l] = inputs[i][l]
      /\ \A j \in Ids \ {i} : inputs'[j] = inputs[j]
  BY <1>3 DEF PrepInv, TypeInv, StoreTypes
<1>7. ASSUME i \notin touched  PROVE PrepOK(i)'
  <2>1. PrepOK(i) /\ AtWork(o, i)
    BY <1>2, <1>7 DEF PrepInv, PrepOK
  <2>2. \A l \in Kinds : inputs[i][l] # None \/ l = k => inputs'[i][l] # None
    BY <1>4, <1>6
  <2>3. Complete(i) => Complete(i)'
    BY <2>2 DEF Complete
  <2>4. AtWork(o, i)'
    <3>1. CASE k = "profiles"
      BY <1>3, <2>1, <2>2, <3>1, LabelFacts DEF AtWork, Preparing, Creating, Kinds
    <3>2. CASE k = "grid"
      <4>1. Complete(i)'
        BY <1>3, <2>1, <2>2, <3>2, LabelFacts DEF AtWork, Complete, Kinds
      <4> QED  BY <1>3, <2>1, <3>2, <4>1, LabelFacts DEF AtWork, Preparing, Creating
    <3> QED  BY <3>1, <3>2 DEF Kinds
  <2>5. \A r \in Objects : (sid[r] = i => AtWork(r, i))'
    BY <1>1, <1>3, <2>1, <2>2, <2>3, <2>4 DEF PrepOK, AtWork, Only, Past, Kinds
  <2>6. OneCreator(i)'
    BY <1>1, <1>3, <2>1, LabelFacts DEF PrepOK, OneCreator, Only, Creating, Kinds
  <2> QED  BY <1>3, <2>1, <2>3, <2>5, <2>6 DEF PrepOK, Past, HasJobs
<1>8. ASSUME NEW j \in Ids, j # i  PROVE Undisturbed(j)
  BY <1>1, <1>2, <1>3, <1>6, <1>8 DEF Undisturbed, Only
<1> QED  BY <1>1, <1>3, <1>5, <1>7, <1>8, PrepStep

\* The preparation ends: the inputs are complete.
LEMMA SetPreparedPrep ==
  ASSUME PrepInv, NEW o \in Objects, SetPrepared(o)
  PROVE  PrepInv'
<1>1. TypeInv' /\ Only(o)
  BY CallType DEF PrepInv, Call
<1>2. PICK i \in Ids : i = sid[o]
  BY DEF PrepInv, TypeInv, ObjectOK, SetPrepared, At
<1>3. /\ sid' = sid /\ touched' = touched
      /\ UNCHANGED <<scenarios, inputs, jobs>>
      /\ pc'[o] = "idle" /\ pc[o] = "set prepared"
      /\ statuses'[i] = "prepared" /\ \A j \in Ids \ {i} : statuses'[j] = statuses[j]
  BY <1>2 DEF PrepInv, TypeInv, ObjectTypes, StoreTypes, SetPrepared, At, Goto
<1>4. Marked(o)'
  BY <1>3 DEF Marked
<1>5. ASSUME i \notin touched  PROVE PrepOK(i)'
  <2>1. PrepOK(i) /\ Complete(i) /\ statuses[i] # None
    BY <1>2, <1>3, <1>5 DEF PrepInv, PrepOK, AtWork, Preparing
  <2>2. Past(i)' /\ Complete(i)' /\ statuses'[i] # None
    BY <1>3, <2>1, NoneIsNoRow DEF Past, Complete, Statuses
  <2>3. \A r \in Objects : sid[r] = i => pc[r] \notin Creating
    BY <2>1 DEF PrepOK, AtWork
  <2>4. \A r \in Objects : (sid[r] = i => AtWork(r, i))'
    BY <1>1, <1>3, <2>1, <2>2, <2>3 DEF PrepOK, AtWork, Only, Preparing, Creating
  <2>5. OneCreator(i)'
    BY <1>1, <1>3, <2>3 DEF OneCreator, Only, Creating
  <2> QED  BY <1>3, <2>1, <2>2, <2>4, <2>5 DEF PrepOK
<1>6. ASSUME NEW j \in Ids, j # i  PROVE Undisturbed(j)
  BY <1>1, <1>2, <1>3, <1>6 DEF Undisturbed, Only
<1> QED  BY <1>1, <1>3, <1>4, <1>5, <1>6, PrepStep

\* The engine is started on a scenario that is prepared.
LEMMA StartPrep ==
  ASSUME PrepInv, NEW o \in Objects, Launch(o) \/ ExtractSimulationOutput(o)
  PROVE  PrepInv'
<1>1. TypeInv' /\ Only(o)
  BY CallType DEF PrepInv, Call
<1>2. PICK i \in Ids : i = sid[o]
  BY DEF PrepInv, TypeInv, ObjectOK, Launch, ExtractSimulationOutput, At
<1>3. /\ sid' = sid /\ UNCHANGED <<scenarios, statuses, inputs, touched>>
      /\ pc'[o] = "idle" /\ pc[o] \in {"launch", "extract"}
      /\ \A j \in Ids \ {i} : jobs'[j] = jobs[j]
  BY <1>2
     DEF PrepInv, TypeInv, ObjectTypes, CounterTypes, Launch, ExtractSimulationOutput,
         At, Goto, store, history
<1>4. Marked(o)'
  BY <1>3 DEF Marked
<1>5. ASSUME i \notin touched  PROVE PrepOK(i)'
  <2>1. PrepOK(i) /\ Past(i)
    BY <1>2, <1>3, <1>5 DEF PrepInv, PrepOK, AtWork
  <2>2. \A r \in Objects : (sid[r] = i => AtWork(r, i))'
    BY <1>1, <1>3, <2>1 DEF PrepOK, AtWork, Only, Past, Complete, Preparing, Creating
  <2>3. OneCreator(i)'
    BY <1>1, <1>3, <2>1 DEF PrepOK, OneCreator, Only, Creating
  <2> QED  BY <1>3, <2>1, <2>2, <2>3 DEF PrepOK, Past, Complete
<1>6. ASSUME NEW j \in Ids, j # i  PROVE Undisturbed(j)
  BY <1>1, <1>2, <1>3, <1>6 DEF Undisturbed, Only
<1> QED  BY <1>1, <1>3, <1>4, <1>5, <1>6, PrepStep

\* A deletion marks its scenario with the first removal,
LEMMA RemoveInputPrep ==
  ASSUME PrepInv, NEW o \in Objects, RemoveInput(o)
  PROVE  PrepInv'
<1>1. TypeInv' /\ Only(o)
  BY CallType DEF PrepInv, Call
<1>2. /\ sid' = sid /\ UNCHANGED <<scenarios, statuses, inputs, jobs>>
      /\ touched' = touched \cup {sid[o]}
  BY DEF RemoveInput
<1>3. Marked(o)'
  BY <1>2 DEF Marked
<1>4. ASSUME NEW j \in Ids, j \notin touched'  PROVE Undisturbed(j)
  BY <1>1, <1>2, <1>4 DEF Undisturbed, Only
<1> QED  BY <1>1, <1>2, <1>3, <1>4, PrepStep

\* and whatever it removes after that is of a marked scenario.
LEMMA DeletionPrep ==
  ASSUME PrepInv, NEW o \in Objects,
         RemoveTmp(o) \/ DeleteScenarioEntry(o) \/ DeleteStatusEntry(o)
  PROVE  PrepInv'
<1>1. TypeInv' /\ Only(o)
  BY CallType DEF PrepInv, Call
<1>2. sid[o] \in touched /\ touched' = touched /\ jobs' = jobs
  BY DEF PrepInv, Marked, RemoveTmp, DeleteScenarioEntry, DeleteStatusEntry, At, history
<1>3. pc'[o] = "idle" \/ sid'[o] = sid[o]
  BY DEF PrepInv, TypeInv, ObjectTypes, RemoveTmp, DeleteScenarioEntry,
         DeleteStatusEntry, Goto
<1>4. Marked(o)'
  BY <1>2, <1>3 DEF Marked
<1>5. ASSUME NEW j \in Ids, j \notin touched  PROVE Undisturbed(j)
  <2>1. /\ scenarios'[j] = scenarios[j] /\ statuses'[j] = statuses[j]
        /\ inputs'[j] = inputs[j]
    BY <1>2, <1>5
       DEF PrepInv, TypeInv, StoreTypes, RemoveTmp, DeleteScenarioEntry,
           DeleteStatusEntry
  <2> QED  BY <1>1, <1>2, <1>3, <1>5, <2>1 DEF Undisturbed, Only
<1> QED  BY <1>1, <1>2, <1>4, <1>5, PrepStep

\* What the engine does to the lists, seen from the preparations.
EngineEffect(i) ==
    /\ HasJobs(i)
    /\ statuses'[i] = IF statuses[i] = None THEN None ELSE statuses'[i]
    /\ statuses[i] # None =>
          statuses'[i] \in {"running", "failed", "finished", "extracted"}
    /\ scenarios[i] = None <=> scenarios'[i] = None
    /\ \A j \in Ids \ {i} : /\ scenarios'[j] = scenarios[j]
                            /\ statuses'[j] = statuses[j] /\ jobs'[j] = jobs[j]
    /\ inputs' = inputs /\ touched' = touched /\ errors' = errors /\ restarts' = restarts

\* What the engine changes: a status and its own jobs.
LEMMA EngineEffects ==
  ASSUME TypeInv, NEW i \in Ids, Engine(i)
  PROVE  EngineEffect(i)
<1> USE DEF TypeInv, StoreTypes, CounterTypes, EngineEffect, Report, HasJobs, Phases,
            history, bounds
<1>1. ASSUME EngineStart(i)  PROVE EngineEffect(i)
  BY <1>1 DEF EngineStart
<1>2. ASSUME NEW s \in {"finished", "failed"}, NEW x \in BOOLEAN, EngineFinish(i, s, x)
      PROVE  EngineEffect(i)
  BY <1>2 DEF EngineFinish
<1>3. ASSUME EngineExtract(i)  PROVE EngineEffect(i)
  <2>1. scenarios[i] # None => scenarios'[i] \in Entries
    BY <1>3, SMTT(20) DEF EngineExtract, Entries
  <2>2. scenarios[i] = None <=> scenarios'[i] = None
    BY <1>3, <2>1, NoneIsNoRow DEF EngineExtract
  <2> QED  BY <1>3, <2>2 DEF EngineExtract
<1> QED  BY <1>1, <1>2, <1>3 DEF Engine

\* It reports on scenarios with simulations under way only.
LEMMA EnginePrep ==
  ASSUME PrepInv, NEW i \in Ids, Engine(i)
  PROVE  PrepInv'
<1>1. TypeInv' /\ sid' = sid /\ pc' = pc
  BY EngineType DEF PrepInv, object
<1>2. EngineEffect(i)
  BY EngineEffects DEF PrepInv
<1>3. ASSUME i \notin touched  PROVE PrepOK(i)'
  <2>1. PrepOK(i) /\ Past(i) /\ Complete(i)
    BY <1>2, <1>3 DEF PrepInv, PrepOK, EngineEffect
  <2>2. Past(i)' /\ Complete(i)' /\ statuses'[i] # None /\ scenarios'[i] # None
    BY <1>2, <2>1, NoneIsNoRow DEF EngineEffect, Past, Complete, PrepOK, Statuses
  <2>3. \A r \in Objects : (sid[r] = i => AtWork(r, i))'
    BY <1>1, <1>2, <2>1, <2>2 DEF PrepOK, AtWork, Past, EngineEffect
  <2> QED  BY <1>1, <2>1, <2>2, <2>3 DEF PrepOK, OneCreator
<1>4. ASSUME NEW j \in Ids, j # i, j \notin touched  PROVE PrepOK(j)'
  BY <1>1, <1>2, <1>4, UndisturbedPrep DEF Undisturbed, EngineEffect
<1>5. \A o \in Objects : Marked(o)'
  BY <1>1, <1>2 DEF PrepInv, Marked, EngineEffect
<1> QED  BY <1>1, <1>2, <1>3, <1>4, <1>5 DEF PrepInv, EngineEffect

\* A restart drops objects, wherever they are.
LEMMA RestartPrep ==
  ASSUME PrepInv, NEW p \in Processes, Restart(p)
  PROVE  PrepInv'
<1>1. TypeInv'
  BY RestartType DEF PrepInv
<1>2. /\ UNCHANGED <<scenarios, statuses, inputs, jobs, touched>>
      /\ \A r \in Objects : pc'[r] = "idle" \/ (sid'[r] = sid[r] /\ pc'[r] = pc[r])
  BY DEF Restart, store, history
<1>3. ASSUME NEW i \in Ids, i \notin touched  PROVE PrepOK(i)'
  BY <1>2, <1>3, UndisturbedPrep DEF Undisturbed
<1>4. \A o \in Objects : Marked(o)'
  BY <1>2 DEF PrepInv, Marked
<1> QED  BY <1>1, <1>2, <1>3, <1>4 DEF PrepInv

\* At first nothing is prepared.
LEMMA InitPrep == Init => PrepInv
<1> SUFFICES ASSUME Init  PROVE PrepInv
  OBVIOUS
<1>1. TypeInv
  BY InitType
<1>2. \A o \in Objects : Marked(o)
  BY DEF Init, Marked
<1>3. ASSUME NEW i \in Ids  PROVE PrepOK(i)
  <2>1. statuses[i] = None /\ ~HasJobs(i)
    BY SMT DEF Init, HasJobs, Phases
  <2>2. \A o \in Objects : pc[o] = "idle"
    BY DEF Init
  <2>3. \A o \in Objects : AtWork(o, i)
    BY <2>2 DEF AtWork, Preparing, Creating
  <2> QED  BY <2>1, <2>2, <2>3 DEF PrepOK, Past, OneCreator, Creating
<1> QED  BY <1>1, <1>2, <1>3 DEF PrepInv

-----------------------------------------------------------------------------
\* A preparation that was cut off: nobody is past the first check, and no
\* simulation is under way, so that nobody sets another status.
LEMMA HalfPreparedStep ==
  ASSUME PrepInv, [Next]_vars, NEW i \in Ids, HalfPrepared(i), i \notin touched'
  PROVE  HalfPrepared(i)'
<1>1. ~HasJobs(i) /\ PrepOK(i)
  BY DEF PrepInv, PrepOK, HalfPrepared, Past
<1>2. \A r \in Objects : sid[r] = i =>
         /\ pc[r] \notin Preparing \ {"check profiles"}
         /\ pc[r] \notin {"remove tmp", "delete status"}
         /\ pc[r] \notin Creating
  BY <1>1, NoneIsNoRow DEF PrepInv, Marked, PrepOK, AtWork, HalfPrepared, Statuses
<1> DEFINE Kept == /\ statuses'[i] = "created" /\ inputs'[i]["profiles"] # None
                   /\ \A r \in Objects :
                         sid'[r] = i => pc'[r] \notin Preparing \ {"check profiles"}
<1>3. ASSUME NEW o \in Objects, Call(o)  PROVE Kept
  <2>1. TypeInv' /\ Only(o)
    BY <1>3, CallType DEF PrepInv
  <2>2. statuses'[i] = "created" /\ inputs'[i]["profiles"] # None
    <3>1. CASE AddStatus(o) \/ SetPrepared(o) \/ DeleteStatusEntry(o)
      <4>1. sid[o] # i
        BY <1>2, <3>1
           DEF AddStatus, SetPrepared, DeleteStatusEntry, At, Creating, Preparing
      <4> QED  BY <3>1, <4>1
                  DEF HalfPrepared, AddStatus, SetPrepared, DeleteStatusEntry, PrepInv,
                      TypeInv, StoreTypes
    <3>2. CASE RemoveTmp(o) \/ \E k \in Kinds : CopyFile(o, k)
      <4>1. sid[o] # i
        BY <1>2, <3>2, KindLabels DEF RemoveTmp, CopyFile, At
      <4> QED  BY <3>2, <4>1
                  DEF HalfPrepared, RemoveTmp, CopyFile, PrepInv, TypeInv, StoreTypes
    <3>3. CASE ~(AddStatus(o) \/ SetPrepared(o) \/ DeleteStatusEntry(o) \/ RemoveTmp(o)
                 \/ \E k \in Kinds : CopyFile(o, k))
      <4>1. UNCHANGED <<statuses, inputs>>
        BY <1>3, <3>3
           DEF Call, New, Open, CreateScenario, CreateRaises, UploadChangeTable,
               ChangeToExecute, PrepareSimulationInput, CheckFile, CheckIfReady, Launch,
               CheckIfFinished, ExtractSimulationOutput, ChangeToDelete, DeleteScenario,
               RemoveInput, RemoveOutput, CancelDeletion, DeleteScenarioEntry,
               ChangeToMove, MoveScenario, Raise, Stop, store
      <4> QED  BY <4>1 DEF HalfPrepared
    <3> QED  BY <3>1, <3>2, <3>3
  <2>3. sid'[o] = i => pc'[o] \notin Preparing \ {"check profiles"}
    <3> SUFFICES ASSUME sid'[o] = i  PROVE pc'[o] \notin Preparing \ {"check profiles"}
      OBVIOUS
    <3>1. ASSUME NEW k \in Kinds, CheckFile(o, k) \/ CopyFile(o, k)
          PROVE  pc'[o] \notin Preparing \ {"check profiles"}
      <4>1. sid[o] = i
        BY <3>1 DEF CheckFile, CopyFile
      <4>2. pc[o] = "check profiles" /\ CheckFile(o, "profiles")
        BY <1>2, <3>1, <4>1, LabelFacts DEF CheckFile, CopyFile, At, Preparing, Kinds
      <4> QED  BY <4>1, <4>2
                  DEF HalfPrepared, CheckFile, Goto, PrepInv, TypeInv, ObjectTypes,
                      Preparing
    <3>2. CASE ~ \E k \in Kinds : CheckFile(o, k) \/ CopyFile(o, k)
      <4>1. \/ pc'[o] \notin Preparing \/ pc'[o] = "check profiles"
        BY <1>3, <3>2
           DEF Call, New, Open, CreateScenario, CreateRaises, UploadChangeTable,
               AddStatus, ChangeToExecute, PrepareSimulationInput, SetPrepared,
               CheckIfReady, Launch, CheckIfFinished, ExtractSimulationOutput,
               ChangeToDelete, DeleteScenario, RemoveInput, RemoveOutput, RemoveTmp,
               CancelDeletion, DeleteScenarioEntry, DeleteStatusEntry, ChangeToMove,
               MoveScenario, Raise, Stop, Goto, At, In, object, PrepInv, TypeInv,
               ObjectTypes, Preparing
      <4> QED  BY <4>1
    <3> QED  BY <3>1, <3>2
  <2> QED  BY <1>2, <2>1, <2>2, <2>3 DEF Only
<1>4. ASSUME NEW j \in Ids, Engine(j)  PROVE Kept
  <2>1. EngineEffect(j) /\ sid' = sid /\ pc' = pc
    BY <1>4, EngineEffects, EngineType DEF PrepInv, object
  <2> QED  BY <1>1, <1>2, <2>1 DEF HalfPrepared, EngineEffect
<1>5. ASSUME NEW p \in Processes, Restart(p)  PROVE Kept
  BY <1>5 DEF HalfPrepared, Restart, store, Preparing
<1>6. CASE UNCHANGED vars
  BY <1>6 DEF HalfPrepared, vars, store, object
<1> QED  BY <1>3, <1>4, <1>5, <1>6 DEF Next, HalfPrepared
=============================================================================
