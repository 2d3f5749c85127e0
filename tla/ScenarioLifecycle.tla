-------------------------- MODULE ScenarioLifecycle --------------------------
(***************************************************************************)
(* Scenario objects and the data store they share (server deployment).     *)
(*                                                                         *)
(* A Scenario object goes through the states create, execute, analyze,     *)
(* delete and move; its methods update ScenarioList.csv and                *)
(* ExecuteList.csv and read, write and remove the files of a scenario.     *)
(* A list update is one step here (SshListStore models its inside), but    *)
(* the methods are not: they are cut at every access to the data store,    *)
(* and the steps of different objects and of the engine interleave.        *)
(*                                                                         *)
(* Objects of one Python process share what the code keeps per process:    *)
(* the lists Create.allowed and Analyze.allowed, which are class           *)
(* attributes, and the cache of InputData.  Each process has a local       *)
(* directory of its own.  A file is modelled by the change table its       *)
(* content was computed from.                                              *)
(***************************************************************************)
EXTENDS Naturals, FiniteSets

CONSTANTS
    Objects,     \* the variables of the users' sessions that hold a Scenario
    Processes,   \* the Python processes they live in
    ProcessOf,   \* the process of each object
    Tables,      \* change tables that are not empty
    Empty,       \* the empty change table
    None,        \* no such row, file, id or value
    MaxId,       \* bound: the largest scenario id
    MaxJobs,     \* bound: simulations of one scenario under way at once
    MaxMade,     \* bound: Scenario objects made in a run
    MaxErrors,   \* bound: accesses to the data store that raise
    MaxRestarts  \* bound: processes that stop and start again

ASSUME ScenarioLifecycleAssumption ==
    /\ ProcessOf \in [Objects -> Processes]
    /\ Empty \notin Tables /\ None \notin Tables /\ Empty # None
    /\ MaxId \in Nat \ {0}
    /\ MaxJobs \in Nat /\ MaxMade \in Nat
    /\ MaxErrors \in Nat /\ MaxRestarts \in Nat

Ids == 1 .. MaxId

\* What ScenarioList.csv says of a scenario: whether change_table is "Yes",
\* and its state.
Entries == [ct : BOOLEAN, state : {"execute", "analyze"}]

Statuses == {"created", "prepared", "running", "finished", "failed",
             "extracted", "moved"}

ASSUME NoneIsNoRow ==
    None \notin Entries /\ None \notin Statuses /\ None \notin Ids

List == INSTANCE CsvTable WITH Rows <- Entries, NoRow <- None

\* data/input/<id>_ct.pkl and data/input/<id>_grid.pkl.
Paths == Ids \X {"ct", "grid"}

\* tmp/scenario_<id>/: the profiles, then the grid, in the order of preparation.
Kinds == {"profiles", "grid"}

Content == Tables \cup {Empty}

VARIABLES
    scenarios,  \* ScenarioList.csv
    statuses,   \* ExecuteList.csv
    files,      \* the input directory of the data store
    inputs,     \* the execute directory: what simulations read
    output,     \* the scenarios with files in the output directory
    backup,     \* the scenarios with files on the backup disk
    jobs,       \* the simulations under way, by scenario and phase
    local,      \* each process's local copy of the input directory
    cache,      \* each process's _cache of InputData
    leaked,     \* the states that Create.allowed and Analyze.allowed gained
    state,      \* the state of each object
    sid,        \* _scenario_info["id"]
    draft,      \* the change table of the builder, or None
    tried,      \* create_scenario has filled in _scenario_info
    ct,         \* the change table in self.ct, applied to self.grid
    pc,         \* where in a method the object is
    touched,    \* history: the ids whose files a delete has begun to remove
    late,       \* history: the ids written to while unlisted or being removed
    made,       \* the objects made so far
    errors,     \* the accesses that raised so far
    restarts    \* the restarts so far

store == <<scenarios, statuses, files, inputs, output, backup>>
session == <<local, cache, leaked>>
object == <<state, sid, draft, tried, ct, pc>>
history == <<touched, late>>
bounds == <<made, errors, restarts>>
vars == <<store, jobs, session, object, history, bounds>>

States == {"none", "create", "execute", "analyze", "delete", "move", "deleted"}

Labels == {"idle", "upload ct", "add status", "check profiles", "copy profiles",
           "check grid", "copy grid", "set prepared", "launch", "extract",
           "remove input", "remove output", "remove tmp", "delete scenario",
           "delete status"}

Preparing == {"check profiles", "copy profiles", "check grid", "copy grid",
              "set prepared"}

Phases == {"queued", "running", "extracting"}

TypeOK ==
    /\ scenarios \in [Ids -> Entries \cup {None}]
    /\ statuses \in [Ids -> Statuses \cup {None}]
    /\ files \in [Paths -> Content \cup {None}]
    /\ inputs \in [Ids -> [Kinds -> Content \cup {None}]]
    /\ output \subseteq Ids
    /\ backup \subseteq Ids
    /\ jobs \in [Ids -> [Phases -> 0 .. MaxJobs]]
    /\ local \in [Processes -> [Paths -> Content \cup {None}]]
    /\ cache \in [Processes -> [Paths -> Content \cup {None}]]
    /\ leaked \in [Processes -> SUBSET {"execute", "move"}]
    /\ state \in [Objects -> States]
    /\ sid \in [Objects -> Ids \cup {None}]
    /\ draft \in [Objects -> Content \cup {None}]
    /\ tried \in [Objects -> BOOLEAN]
    /\ ct \in [Objects -> Content \cup {None}]
    /\ pc \in [Objects -> Labels]
    /\ touched \subseteq Ids
    /\ late \subseteq Ids
    /\ made \in 0 .. MaxMade
    /\ errors \in 0 .. MaxErrors
    /\ restarts \in 0 .. MaxRestarts

NoFiles == [q \in Paths |-> None]

Init ==
    /\ scenarios = [i \in Ids |-> None]
    /\ statuses = [i \in Ids |-> None]
    /\ files = NoFiles
    /\ inputs = [i \in Ids |-> [k \in Kinds |-> None]]
    /\ output = {}
    /\ backup = {}
    /\ jobs = [i \in Ids |-> [f \in Phases |-> 0]]
    /\ local = [p \in Processes |-> NoFiles]
    /\ cache = [p \in Processes |-> NoFiles]
    /\ leaked = [p \in Processes |-> {}]
    /\ state = [o \in Objects |-> "none"]
    /\ sid = [o \in Objects |-> None]
    /\ draft = [o \in Objects |-> None]
    /\ tried = [o \in Objects |-> FALSE]
    /\ ct = [o \in Objects |-> None]
    /\ pc = [o \in Objects |-> "idle"]
    /\ touched = {}
    /\ late = {}
    /\ made = 0
    /\ errors = 0
    /\ restarts = 0

\* Between the first removal of a deletion and the end of its files.
Removing == {"remove output", "remove tmp", "delete scenario"}

\* Something of scenario i is written; late keeps the times when that is too late.
Write(i) ==
    late' = IF scenarios[i] = None \/ \E o \in Objects : sid[o] = i /\ pc[o] \in Removing
            THEN late \cup {i} ELSE late

At(o, label) == pc[o] = label
Goto(o, label) == pc' = [pc EXCEPT ![o] = label]
In(o, states) == At(o, "idle") /\ state[o] \in states
Make == made < MaxMade /\ made' = made + 1
Become(o, s) == state' = [state EXCEPT ![o] = s]

\* A method of the object ends, normally or with an exception, and leaves
\* everything else as it is.
Stop(o) ==
    /\ Goto(o, "idle")
    /\ UNCHANGED <<store, jobs, session, state, sid, draft, tried, ct, history>>

-----------------------------------------------------------------------------
\* InputData.get_data: from the cache, else from the local copy, else from the
\* data store, which leaves a local copy; None when the file is nowhere.
Found(p, q) ==
    IF cache[p][q] # None THEN cache[p][q]
    ELSE IF local[p][q] # None THEN local[p][q] ELSE files[q]

\* The files that get_data reads for the fields of scenario i, and what stays.
Load(p, paths) ==
    /\ local' = [local EXCEPT ![p] = [q \in Paths |->
                   IF q \in paths /\ cache[p][q] = None
                   THEN Found(p, q) ELSE local[p][q]]]
    /\ cache' = [cache EXCEPT ![p] = [q \in Paths |->
                   IF q \in paths THEN Found(p, q) ELSE cache[p][q]]]

\* The files of scenario i that a state reads on entry.
CtPath(i, hasCt) == IF hasCt THEN {<<i, "ct">>} ELSE {}

-----------------------------------------------------------------------------
\* Scenario(), set_grid and the builder's setters: a draft with all the
\* information create_scenario asks for.  The variable's old object is dropped.
New(o, t) ==
    /\ At(o, "idle")
    /\ Make
    /\ Become(o, "create")
    /\ sid' = [sid EXCEPT ![o] = None]
    /\ draft' = [draft EXCEPT ![o] = t]
    /\ tried' = [tried EXCEPT ![o] = FALSE]
    /\ ct' = [ct EXCEPT ![o] = None]
    /\ UNCHANGED <<store, jobs, session, pc, history, errors, restarts>>

\* Scenario(i): get_scenario and get_status find their rows, and the files of
\* the state can be read; otherwise there is an exception and no object.
\* Analyze._set_allowed_state appends to the list of the class.
Open(o, i) ==
    LET p == ProcessOf[o]
        entry == scenarios[i]
        paths == CtPath(i, entry.ct)
                 \cup (IF entry.state = "analyze" THEN {<<i, "grid">>} ELSE {})
    IN  /\ At(o, "idle")
        /\ entry # None /\ statuses[i] # None
        /\ \A q \in paths : Found(p, q) # None
        /\ Make
        /\ Load(p, paths)
        /\ Become(o, entry.state)
        /\ sid' = [sid EXCEPT ![o] = i]
        /\ draft' = [draft EXCEPT ![o] = None]
        /\ tried' = [tried EXCEPT ![o] = FALSE]
        /\ ct' = [ct EXCEPT ![o] =
              IF entry.ct THEN Found(p, <<i, "ct">>) ELSE Empty]
        /\ leaked' = [leaked EXCEPT ![p] =
              @ \cup IF entry.state = "analyze" /\ statuses[i] = "extracted"
                     THEN {"move"} ELSE {}]
        /\ UNCHANGED <<store, jobs, pc, history, errors, restarts>>

\* create_scenario up to add_entry.  runtime and infeasibilities are set to ""
\* first, so that a second call only reports missing information.
CreateScenario(o) ==
    LET i == List!GenerateId(scenarios)
    IN  /\ In(o, {"create"})
        /\ ~tried[o]
        /\ i \in Ids
        /\ scenarios' = [scenarios EXCEPT ![i] =
              [ct |-> draft[o] # Empty, state |-> "execute"]]
        /\ sid' = [sid EXCEPT ![o] = i]
        /\ tried' = [tried EXCEPT ![o] = TRUE]
        /\ Goto(o, "upload ct")
        /\ UNCHANGED <<statuses, files, inputs, output, backup, jobs, session,
                       state, draft, ct, history, bounds>>

\* add_entry raises: the id is already in _scenario_info.
CreateRaises(o) ==
    LET i == List!GenerateId(scenarios)
    IN  /\ In(o, {"create"})
        /\ ~tried[o]
        /\ i \in Ids
        /\ errors < MaxErrors
        /\ errors' = errors + 1
        /\ sid' = [sid EXCEPT ![o] = i]
        /\ tried' = [tried EXCEPT ![o] = TRUE]
        /\ UNCHANGED <<store, jobs, session, state, draft, ct, pc, history,
                       made, restarts>>

\* _upload_change_table: write refuses to replace a file, and saves a local
\* copy of what it writes.
UploadChangeTable(o) ==
    LET p == ProcessOf[o]
        q == <<sid[o], "ct">>
    IN  /\ At(o, "upload ct")
        /\ \/ /\ draft[o] = Empty
              /\ Goto(o, "add status")
              /\ UNCHANGED <<files, local, late>>
           \/ /\ draft[o] # Empty /\ files[q] = None
              /\ files' = [files EXCEPT ![q] = draft[o]]
              /\ local' = [local EXCEPT ![p][q] = draft[o]]
              /\ Write(sid[o])
              /\ Goto(o, "add status")
           \/ /\ draft[o] # Empty /\ files[q] # None
              /\ Goto(o, "idle")
              /\ UNCHANGED <<files, local, late>>
        /\ UNCHANGED <<scenarios, statuses, inputs, output, backup, jobs, cache,
                       leaked, state, sid, draft, tried, ct, touched, bounds>>

\* State.switch to Execute: the builder goes, and refresh loads the change
\* table that _scenario_info speaks of.
SwitchToExecute(o, hasCt) ==
    LET p == ProcessOf[o]
    IN  /\ Become(o, "execute")
        /\ draft' = [draft EXCEPT ![o] = None]
        /\ ct' = [ct EXCEPT ![o] =
              IF hasCt THEN Found(p, <<sid[o], "ct">>) ELSE Empty]
        /\ Load(p, CtPath(sid[o], hasCt))

\* A faulty variant: the switch comes before change_table is filled in.
AddStatusUninformed(o) ==
    /\ At(o, "add status")
    /\ statuses' = [statuses EXCEPT ![sid[o]] = "created"]
    /\ Write(sid[o])
    /\ leaked' = [leaked EXCEPT ![ProcessOf[o]] = @ \cup {"execute"}]
    /\ SwitchToExecute(o, FALSE)
    /\ Goto(o, "idle")
    /\ UNCHANGED <<scenarios, files, inputs, output, backup, jobs, sid, tried,
                   touched, bounds>>

\* The end of create_scenario: add_entry of the execute list, allowed.append
\* and the switch.
AddStatus(o) ==
    /\ At(o, "add status")
    /\ statuses' = [statuses EXCEPT ![sid[o]] = "created"]
    /\ Write(sid[o])
    /\ leaked' = [leaked EXCEPT ![ProcessOf[o]] = @ \cup {"execute"}]
    /\ SwitchToExecute(o, draft[o] # Empty)
    /\ Goto(o, "idle")
    /\ UNCHANGED <<scenarios, files, inputs, output, backup, jobs, sid, tried,
                   touched, bounds>>

\* change(Execute), which Create.allowed permits to every object of a process
\* that has created a scenario.
ChangeToExecute(o) ==
    /\ In(o, {"create"})
    /\ "execute" \in leaked[ProcessOf[o]]
    /\ SwitchToExecute(o, tried[o] /\ draft[o] # Empty)
    /\ UNCHANGED <<store, jobs, leaked, sid, tried, pc, history, bounds>>

-----------------------------------------------------------------------------
\* An Execute object that has a scenario, a change table and a grid.
Ready(o) == In(o, {"execute"}) /\ sid[o] # None

\* prepare_simulation_input: the status must be "created".
PrepareSimulationInput(o) ==
    /\ Ready(o) /\ ct[o] # None
    /\ statuses[sid[o]] = "created"
    /\ Goto(o, "check profiles")
    /\ UNCHANGED <<store, jobs, session, state, sid, draft, tried, ct, history,
                   bounds>>

CheckLabel == [profiles |-> "check profiles", grid |-> "check grid"]
CopyLabel == [profiles |-> "copy profiles", grid |-> "copy grid"]

\* A faulty variant: the grid is forgotten.
AfterCopyEarly == [profiles |-> "set prepared", grid |-> "set prepared"]

AfterCopy == [profiles |-> "check grid", grid |-> "set prepared"]

\* A faulty variant: an existing file is replaced.
CheckNothing(o, k) ==
    /\ At(o, CheckLabel[k])
    /\ Goto(o, CopyLabel[k])
    /\ UNCHANGED <<store, jobs, session, state, sid, draft, tried, ct, history,
                   bounds>>

\* write: _check_file_exists(should_exist=False),
CheckFile(o, k) ==
    /\ At(o, CheckLabel[k])
    /\ Goto(o, IF inputs[sid[o]][k] = None THEN CopyLabel[k] ELSE "idle")
    /\ UNCHANGED <<store, jobs, session, state, sid, draft, tried, ct, history,
                   bounds>>

\* then the file, built from self.grid and self.ct, is copied to the store.
CopyFile(o, k) ==
    /\ At(o, CopyLabel[k])
    /\ inputs' = [inputs EXCEPT ![sid[o]][k] = ct[o]]
    /\ Write(sid[o])
    /\ Goto(o, AfterCopy[k])
    /\ UNCHANGED <<scenarios, statuses, files, output, backup, jobs, session,
                   state, sid, draft, tried, ct, touched, bounds>>

\* A faulty variant: a status nobody knows.
SetReady(o) ==
    /\ At(o, "set prepared")
    /\ statuses' = [statuses EXCEPT ![sid[o]] = "ready"]
    /\ Write(sid[o])
    /\ Goto(o, "idle")
    /\ UNCHANGED <<scenarios, files, inputs, output, backup, jobs, session,
                   state, sid, draft, tried, ct, touched, bounds>>

\* set_status, which adds the row when there is none.
SetPrepared(o) ==
    /\ At(o, "set prepared")
    /\ statuses' = [statuses EXCEPT ![sid[o]] = "prepared"]
    /\ Write(sid[o])
    /\ Goto(o, "idle")
    /\ UNCHANGED <<scenarios, files, inputs, output, backup, jobs, session,
                   state, sid, draft, tried, ct, touched, bounds>>

\* launch_simulation: _check_if_ready,
CheckIfReady(o) ==
    /\ Ready(o)
    /\ statuses[sid[o]] \in {"prepared", "failed", "finished"}
    /\ Goto(o, "launch")
    /\ UNCHANGED <<store, jobs, session, state, sid, draft, tried, ct, history,
                   bounds>>

Busy(i) == jobs[i]["queued"] + jobs[i]["running"] + jobs[i]["extracting"]

\* then _launch, which starts the engine and does not wait for it.
Launch(o) ==
    /\ At(o, "launch")
    /\ Busy(sid[o]) < MaxJobs
    /\ jobs' = [jobs EXCEPT ![sid[o]]["queued"] = @ + 1]
    /\ Goto(o, "idle")
    /\ UNCHANGED <<store, session, state, sid, draft, tried, ct, history, bounds>>

\* extract_simulation_output: the status must be "finished".
CheckIfFinished(o) ==
    /\ Ready(o)
    /\ statuses[sid[o]] = "finished"
    /\ Goto(o, "extract")
    /\ UNCHANGED <<store, jobs, session, state, sid, draft, tried, ct, history,
                   bounds>>

ExtractSimulationOutput(o) ==
    /\ At(o, "extract")
    /\ Busy(sid[o]) < MaxJobs
    /\ jobs' = [jobs EXCEPT ![sid[o]]["extracting"] = @ + 1]
    /\ Goto(o, "idle")
    /\ UNCHANGED <<store, session, state, sid, draft, tried, ct, history, bounds>>

-----------------------------------------------------------------------------
\* change(Delete) and change(Move): the allowed lists of Execute and Analyze.
\* Analyze._leave deletes the grid and the change table.
ChangeToDelete(o) ==
    /\ In(o, {"execute", "analyze"})
    /\ Become(o, "delete")
    /\ ct' = [ct EXCEPT ![o] = IF state[o] = "analyze" THEN None ELSE @]
    /\ UNCHANGED <<store, jobs, session, sid, draft, tried, pc, history, bounds>>

ChangeToMove(o) ==
    /\ In(o, {"analyze"})
    /\ "move" \in leaked[ProcessOf[o]]
    /\ Become(o, "move")
    /\ ct' = [ct EXCEPT ![o] = None]
    /\ UNCHANGED <<store, jobs, session, sid, draft, tried, pc, history, bounds>>

\* move_scenario: backup_scenario copies the input directory of the scenario
\* and then calls remove without a pattern, a TypeError.
MoveScenario(o) ==
    /\ In(o, {"move"})
    /\ backup' = backup \cup {sid[o]}
    /\ UNCHANGED <<scenarios, statuses, files, inputs, output, jobs, session,
                   object, history, bounds>>

\* delete_scenario: three directories are emptied of the scenario, each on a
\* prompt, in the data store and in the local directory,
DeleteScenario(o) ==
    /\ In(o, {"delete"}) /\ sid[o] # None
    /\ Goto(o, "remove input")
    /\ UNCHANGED <<store, jobs, session, state, sid, draft, tried, ct, history,
                   bounds>>

RemoveInput(o) ==
    LET without(f) == [q \in Paths |-> IF q[1] = sid[o] THEN None ELSE f[q]]
    IN  /\ At(o, "remove input")
        /\ files' = without(files)
        /\ local' = [local EXCEPT ![ProcessOf[o]] = without(@)]
        /\ touched' = touched \cup {sid[o]}
        /\ Goto(o, "remove output")
        /\ UNCHANGED <<scenarios, statuses, inputs, output, backup, jobs, cache,
                       leaked, late, state, sid, draft, tried, ct, bounds>>

RemoveOutput(o) ==
    /\ At(o, "remove output")
    /\ output' = output \ {sid[o]}
    /\ Goto(o, "remove tmp")
    /\ UNCHANGED <<scenarios, statuses, files, inputs, backup, jobs, session,
                   state, sid, draft, tried, ct, history, bounds>>

\* A faulty variant: the grid in the execute directory is forgotten.
RemoveTmpProfiles(o) ==
    /\ At(o, "remove tmp")
    /\ inputs' = [inputs EXCEPT ![sid[o]].profiles = None]
    /\ Goto(o, "delete scenario")
    /\ UNCHANGED <<scenarios, statuses, files, output, backup, jobs, session,
                   state, sid, draft, tried, ct, history, bounds>>

RemoveTmp(o) ==
    /\ At(o, "remove tmp")
    /\ inputs' = [inputs EXCEPT ![sid[o]] = [k \in Kinds |-> None]]
    /\ Goto(o, "delete scenario")
    /\ UNCHANGED <<scenarios, statuses, files, output, backup, jobs, session,
                   state, sid, draft, tried, ct, history, bounds>>

\* A prompt answered with no ends the deletion.
CancelDeletion(o) ==
    /\ pc[o] \in {"remove input", "remove output", "remove tmp"}
    /\ Stop(o)
    /\ UNCHANGED bounds

\* and the rows are dropped from the two lists; drop raises for a missing row.
DeleteScenarioEntry(o) ==
    /\ At(o, "delete scenario")
    /\ scenarios' = [scenarios EXCEPT ![sid[o]] = None]
    /\ Goto(o, IF scenarios[sid[o]] # None THEN "delete status" ELSE "idle")
    /\ UNCHANGED <<statuses, files, inputs, output, backup, jobs, session,
                   state, sid, draft, tried, ct, history, bounds>>

DeleteStatusEntry(o) ==
    LET found == statuses[sid[o]] # None
    IN  /\ At(o, "delete status")
        /\ statuses' = [statuses EXCEPT ![sid[o]] = None]
        /\ state' = [state EXCEPT ![o] = IF found THEN "deleted" ELSE @]
        /\ sid' = [sid EXCEPT ![o] = IF found THEN None ELSE @]
        /\ Goto(o, "idle")
        /\ UNCHANGED <<scenarios, files, inputs, output, backup, jobs, session,
                       draft, tried, ct, history, bounds>>

-----------------------------------------------------------------------------
\* The engine (REISE.jl) is not part of this repository: what it does to the
\* lists and the files is taken from how the code here relies on it.
Report(i, status) ==
    statuses' = [statuses EXCEPT ![i] = IF @ = None THEN None ELSE status]

EngineStart(i) ==
    LET complete == \A k \in Kinds : inputs[i][k] # None
    IN  /\ jobs[i]["queued"] > 0
        /\ jobs' = [jobs EXCEPT ![i]["queued"] = @ - 1,
                                ![i]["running"] = IF complete THEN @ + 1 ELSE @]
        /\ Report(i, IF complete THEN "running" ELSE "failed")
        /\ UNCHANGED <<scenarios, files, inputs, output, backup, session, object,
                       history, bounds>>

EngineFinish(i, status, extract) ==
    /\ jobs[i]["running"] > 0
    /\ extract => status = "finished"
    /\ jobs' = [jobs EXCEPT ![i]["running"] = @ - 1,
                            ![i]["extracting"] = IF extract THEN @ + 1 ELSE @]
    /\ Report(i, status)
    /\ UNCHANGED <<scenarios, files, inputs, output, backup, session, object,
                   history, bounds>>

EngineExtract(i) ==
    /\ jobs[i]["extracting"] > 0
    /\ jobs' = [jobs EXCEPT ![i]["extracting"] = @ - 1]
    /\ Report(i, "extracted")
    /\ scenarios' = [scenarios EXCEPT ![i] =
          IF @ = None THEN None ELSE [@ EXCEPT !.state = "analyze"]]
    /\ files' = [files EXCEPT ![<<i, "grid">>] = inputs[i]["grid"]]
    /\ output' = output \cup {i}
    /\ Write(i)
    /\ UNCHANGED <<inputs, backup, session, object, touched, bounds>>

-----------------------------------------------------------------------------
\* An access to the data store raises in the middle of a method.
Raise(o) ==
    /\ pc[o] # "idle"
    /\ errors < MaxErrors
    /\ errors' = errors + 1
    /\ Stop(o)
    /\ UNCHANGED <<made, restarts>>

\* A process stops, wherever its objects are, and a new one takes its place.
Restart(p) ==
    LET keep(f, v) ==
          [o \in Objects |-> IF ProcessOf[o] = p THEN v ELSE f[o]]
    IN  /\ restarts < MaxRestarts
        /\ restarts' = restarts + 1
        /\ cache' = [cache EXCEPT ![p] = NoFiles]
        /\ leaked' = [leaked EXCEPT ![p] = {}]
        /\ state' = keep(state, "none")
        /\ sid' = keep(sid, None)
        /\ draft' = keep(draft, None)
        /\ tried' = keep(tried, FALSE)
        /\ ct' = keep(ct, None)
        /\ pc' = keep(pc, "idle")
        /\ UNCHANGED <<store, jobs, local, history, made, errors>>

Call(o) ==
    \/ \E t \in Content : New(o, t)
    \/ \E i \in Ids : Open(o, i)
    \/ CreateScenario(o) \/ CreateRaises(o)
    \/ UploadChangeTable(o) \/ AddStatus(o) \/ ChangeToExecute(o)
    \/ PrepareSimulationInput(o)
    \/ \E k \in Kinds : CheckFile(o, k) \/ CopyFile(o, k)
    \/ SetPrepared(o)
    \/ CheckIfReady(o) \/ Launch(o)
    \/ CheckIfFinished(o) \/ ExtractSimulationOutput(o)
    \/ ChangeToDelete(o) \/ DeleteScenario(o)
    \/ RemoveInput(o) \/ RemoveOutput(o) \/ RemoveTmp(o) \/ CancelDeletion(o)
    \/ DeleteScenarioEntry(o) \/ DeleteStatusEntry(o)
    \/ ChangeToMove(o) \/ MoveScenario(o)
    \/ Raise(o)

Engine(i) ==
    \/ EngineStart(i)
    \/ \E status \in {"finished", "failed"}, extract \in BOOLEAN :
          EngineFinish(i, status, extract)
    \/ EngineExtract(i)

Next ==
    \/ \E o \in Objects : Call(o)
    \/ \E i \in Ids : Engine(i)
    \/ \E p \in Processes : Restart(p)

Spec == Init /\ [][Next]_vars

-----------------------------------------------------------------------------
\* The change table of a listed scenario.
TableOf(i) == IF scenarios[i].ct THEN files[<<i, "ct">>] ELSE Empty

(***************************************************************************)
(* As long as the files of a scenario have not begun to be removed and     *)
(* nothing has raised, everything agrees with the change table it was      *)
(* created with: the local copies and caches of every process, self.ct of  *)
(* every object that has the scenario open, and every simulation input,    *)
(* although two objects may be preparing the same scenario at once.        *)
(***************************************************************************)
FirstUseIsCoherent ==
    errors = 0 => \A i \in Ids \ touched :
        /\ \A p \in Processes :
              {local[p][<<i, "ct">>], cache[p][<<i, "ct">>]}
                 \subseteq {None, files[<<i, "ct">>]}
        /\ \A o \in Objects :
              sid[o] = i /\ state[o] \in {"execute", "analyze"} =>
                 ct[o] = TableOf(i)
        /\ \A k \in Kinds : inputs[i][k] # None => inputs[i][k] = TableOf(i)

(***************************************************************************)
(* A scenario whose status says that it is prepared, or further, has all   *)
(* of its simulation inputs, whoever prepared it and whatever raised or    *)
(* stopped on the way, until somebody begins to delete it.                 *)
(***************************************************************************)
PreparedHasInputs ==
    \A i \in Ids \ touched :
        statuses[i] \notin {None, "created"} =>
            \A k \in Kinds : inputs[i][k] # None

\* Its profiles are written, it is not prepared, and nobody is past looking for them.
HalfPrepared(i) ==
    /\ i \notin touched
    /\ statuses[i] = "created"
    /\ inputs[i]["profiles"] # None
    /\ \A o \in Objects :
          sid[o] = i => pc[o] \notin Preparing \ {"check profiles"}

(***************************************************************************)
(* A preparation that was cut off after its first file cannot be repeated: *)
(* write refuses to replace the file, so that the status stays "created"   *)
(* whatever the users do, short of deleting the scenario.                  *)
(***************************************************************************)
HalfPreparedIsPermanent ==
    [][\A i \in Ids : HalfPrepared(i) => HalfPrepared(i)' \/ i \in touched']_vars

(***************************************************************************)
(* Whatever is left of a scenario that is not listed was written too late: *)
(* while the scenario was being removed or after it.  Otherwise a deletion *)
(* that gets as far as the lists has left no file of the scenario, whoever *)
(* deleted it, in how many attempts and however many did so at once, and   *)
(* the status row is about to go unless the deletion was cut off.          *)
(***************************************************************************)
LeftoversAreLate ==
    \A i \in Ids \ late :
        scenarios[i] = None =>
            /\ \A q \in Paths : q[1] = i => files[q] = None
            /\ \A k \in Kinds : inputs[i][k] = None
            /\ i \notin output
            /\ \/ statuses[i] = None
               \/ errors + restarts > 0
               \/ \E o \in Objects : sid[o] = i /\ At(o, "delete status")

-----------------------------------------------------------------------------
(***************************************************************************)
(* What the documentation says.                                            *)
(***************************************************************************)

(***************************************************************************)
(* "Returns change table": self.ct of an object in the execute state is    *)
(* the change table its scenario was created with.                         *)
(***************************************************************************)
ObjectHasItsTable ==
    \A o \in Objects :
        In(o, {"execute"}) /\ sid[o] # None /\ scenarios[sid[o]] # None =>
            ct[o] = TableOf(sid[o])
=============================================================================
