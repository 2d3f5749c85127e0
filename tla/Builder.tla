------------------------------ MODULE Builder ------------------------------
(***************************************************************************)
(* How a scenario is described before it is created: Create, _Builder,     *)
(* FromCSV and FromPyPSA of scenario/create.py.  Several Scenario objects, *)
(* some of them in one process, are in the create state at once.  Each has *)
(* a builder of its own, made by set_grid; what they share is the scenario *)
(* list, the store of profiles and, within a process, the class attribute  *)
(* Create.allowed.                                                         *)
(*                                                                         *)
(* Updates of the list are single steps here; SshListStore has their       *)
(* steps.  The change table is the subject of ChangeTable, and what comes  *)
(* after create_scenario that of ScenarioLifecycle.                        *)
(***************************************************************************)
EXTENDS Integers, Sequences

CONSTANTS
    Objects,        \* Scenario objects
    ProcessOf,      \* the process each of them lives in
    Models,         \* the grid models of model2region
    PypsaModels,    \* those that get_builder hands to FromPyPSA
    Supported,      \* those that Grid builds: Grid.SUPPORTED_MODELS
    RegionOf,       \* model2region
    PossibleOf,     \* model2interconnect
    Requests,       \* the values of interconnect, sets of names
    Names,          \* the pairs of plan and scenario name
    Kinds,          \* the kinds of profile
    Versions,       \* the versions of profiles for models in CSV files
    Release,        \* the version of the record of the PyPSA models
    Times,          \* the arguments of set_time
    MaxTs,          \* the last hour of the year; the first one is 0
    Day,            \* the interval "24H"
    None,           \* no builder
    Unset,          \* the empty string
    MaxErrors       \* bound: how often create_scenario raises

ASSUME BuilderAssumption ==
    /\ PypsaModels \subseteq Models /\ Supported \subseteq Models
    /\ \A m \in Models : RegionOf[m] \notin PossibleOf[m] /\ PossibleOf[m] # {}
    /\ \A t \in Times : t.start \in Int /\ t.end \in Int /\ t.interval \in Nat \ {0}
    /\ MaxTs \in Nat /\ Day \in Nat \ {0} /\ (MaxTs + 1) % Day = 0
    /\ Release \notin Versions /\ Unset \notin Versions \cup {Release}
    /\ Unset \notin Names /\ MaxErrors \in Nat

VARIABLES
    list,     \* the scenario list, oldest entry first
    stored,   \* the stored profiles: model, kind and version
    state,    \* the state of each object: create or execute
    builder,  \* its builder
    tried,    \* create_scenario has filled in runtime and infeasibilities
    allowed,  \* the processes whose Create.allowed has "execute"
    errors    \* how often create_scenario has raised

vars == <<list, stored, state, builder, tried, allowed, errors>>

CsvModels == Models \ PypsaModels
Default == [start |-> 0, end |-> MaxTs, interval |-> Day]

\* The names of a grid: interconnect_to_name joins a set of names.
Interconnect == SUBSET (UNION {PossibleOf[m] \cup {RegionOf[m]} : m \in Models})

Profiles(vs) == [Kinds -> vs]

Builders ==
    [model : Models, interconnect : Interconnect, existing : SUBSET Names,
     name : Names \cup {Unset}, time : Times \cup {Default},
     profile : Profiles(Versions \cup {Release, Unset}), seen : Nat]

\* An entry of the list.  by and seen are history: the object that listed it,
\* and how long the list was when set_grid read it.
Entries ==
    [model : Models, interconnect : Interconnect, name : Names,
     time : Times \cup {Default}, profile : Profiles(Versions \cup {Release}),
     by : Objects, seen : Nat]

Init ==
    /\ list = <<>> /\ stored = {}
    /\ state = [o \in Objects |-> "create"]
    /\ builder = [o \in Objects |-> None]
    /\ tried = [o \in Objects |-> FALSE]
    /\ allowed = {} /\ errors = 0

-----------------------------------------------------------------------------
(* set_grid *)

\* check_and_format_interconnect refuses names of other models, and the region
\* in company.
IsRequest(m, r) ==
    /\ r # {} /\ r \subseteq PossibleOf[m] \cup {RegionOf[m]}
    /\ RegionOf[m] \in r => r = {RegionOf[m]}

\* The mutant of InterconnectToName keeps the interconnects that make up the
\* region.
InterconnectToNameUnmerged(m, r) == r

\* All the interconnects together are the region.
InterconnectToName(m, r) == IF PossibleOf[m] \subseteq r THEN {RegionOf[m]} ELSE r

\* The names that the scenario list had when set_grid read it, of every model.
Existing(i) == {list[n].name : n \in {k \in DOMAIN list : list[k].interconnect = i}}

\* _Builder.__init__, and the defaults of the class.
NewBuilder(m, i, profile) ==
    [model |-> m, interconnect |-> i, existing |-> Existing(i),
     name |-> Unset, time |-> Default, profile |-> profile, seen |-> Len(list)]

\* The mutant of FromCSV carries over the profiles of the last builder.
FromCSVOver(o, m, i) ==
    NewBuilder(m, i, IF builder[o] = None THEN [k \in Kinds |-> Unset]
                     ELSE builder[o].profile)

\* A builder for a model in CSV files; o is the object it is made for.
FromCSV(o, m, i) == NewBuilder(m, i, [k \in Kinds |-> Unset])

\* FromPyPSA.set_base_profile names the profiles by the version of the record.
FromPyPSA(o, m, i) == NewBuilder(m, i, [k \in Kinds |-> Release])

GetBuilder(o, m, i) == IF m \in PypsaModels THEN FromPyPSA(o, m, i) ELSE FromCSV(o, m, i)

\* set_grid.  Grid() of a PyPSA model uploads the profiles that are missing.
\* For a model that Grid does not support, or a wrong interconnect, it raises
\* and the object keeps the builder it had.
SetGrid(o, m, r) ==
    /\ state[o] = "create"
    /\ m \in Supported /\ IsRequest(m, r)
    /\ builder' = [builder EXCEPT ![o] = GetBuilder(o, m, InterconnectToName(m, r))]
    /\ stored' = stored \cup IF m \in PypsaModels THEN {m} \X Kinds \X {Release} ELSE {}
    /\ UNCHANGED <<list, state, tried, allowed, errors>>

-----------------------------------------------------------------------------
(* The setters of the builder. *)

HasBuilder(o) == state[o] = "create" /\ builder[o] # None

\* set_name compares with the table that set_grid has read.
SetName(o, n) ==
    /\ HasBuilder(o)
    /\ n \notin builder[o].existing
    /\ builder' = [builder EXCEPT ![o].name = n]
    /\ UNCHANGED <<list, stored, state, tried, allowed, errors>>

\* FromCSV._check_time_range; _Builder._check_time_range accepts everything.
CheckTimeRange(m, t) ==
    \/ m \in PypsaModels
    \/ /\ t.start <= t.end
       /\ t.start >= 0 /\ t.start <= MaxTs
       /\ t.end >= 0 /\ t.end <= MaxTs
       /\ (t.end - t.start + 1) % t.interval = 0

SetTime(o, t) ==
    /\ HasBuilder(o)
    /\ CheckTimeRange(builder[o].model, t)
    /\ builder' = [builder EXCEPT ![o].time = t]
    /\ UNCHANGED <<list, stored, state, tried, allowed, errors>>

\* FromCSV.set_base_profile: a version that get_base_profile finds.
SetBaseProfile(o, k, v) ==
    /\ HasBuilder(o)
    /\ builder[o].model \in CsvModels
    /\ <<builder[o].model, k, v>> \in stored
    /\ builder' = [builder EXCEPT ![o].profile[k] = v]
    /\ UNCHANGED <<list, stored, state, tried, allowed, errors>>

\* A profile for a model in CSV files is added to the store.
Upload(m, k, v) ==
    /\ stored' = stored \cup {<<m, k, v>>}
    /\ UNCHANGED <<list, state, builder, tried, allowed, errors>>

-----------------------------------------------------------------------------
(* create_scenario *)

\* The mutants of Missing forget runtime and infeasibilities, or the names.
MissingButOutcome(o) ==
    builder[o].name = Unset \/ \E k \in Kinds : builder[o].profile[k] = Unset

\* The values of _scenario_info that are empty strings.  A call that raised has
\* left runtime and infeasibilities among them, and set_grid keeps them.
Missing(o) ==
    \/ tried[o]
    \/ builder[o].name = Unset
    \/ \E k \in Kinds : builder[o].profile[k] = Unset

Entry(o) ==
    LET b == builder[o]
    IN  [model |-> b.model, interconnect |-> b.interconnect, name |-> b.name,
         time |-> b.time, profile |-> b.profile, by |-> o, seen |-> b.seen]

\* create_scenario: add_entry, the change table, the execute list, the switch.
CreateScenario(o) ==
    /\ HasBuilder(o) /\ ~ Missing(o)
    /\ tried' = [tried EXCEPT ![o] = TRUE]
    /\ list' = Append(list, Entry(o))
    /\ allowed' = allowed \cup {ProcessOf[o]}
    /\ state' = [state EXCEPT ![o] = "execute"]
    /\ builder' = [builder EXCEPT ![o] = None]
    /\ UNCHANGED <<stored, errors>>

\* It raises: get_grid or add_entry before the scenario is listed, or the
\* upload of the change table or the execute list after that.
CreateRaises(o, listed) ==
    /\ HasBuilder(o) /\ ~ Missing(o)
    /\ errors < MaxErrors
    /\ errors' = errors + 1
    /\ tried' = [tried EXCEPT ![o] = TRUE]
    /\ list' = IF listed THEN Append(list, Entry(o)) ELSE list
    /\ UNCHANGED <<stored, state, builder, allowed>>

\* The mutant of ChangeToExecute does not look at allowed.
ChangeUnchecked(o) ==
    /\ state[o] = "create"
    /\ state' = [state EXCEPT ![o] = "execute"]
    /\ builder' = [builder EXCEPT ![o] = None]
    /\ UNCHANGED <<list, stored, tried, allowed, errors>>

\* Scenario.change(Execute): State.switch looks at the list of the class.
ChangeToExecute(o) ==
    /\ state[o] = "create"
    /\ ProcessOf[o] \in allowed
    /\ state' = [state EXCEPT ![o] = "execute"]
    /\ builder' = [builder EXCEPT ![o] = None]
    /\ UNCHANGED <<list, stored, tried, allowed, errors>>

Next ==
    \/ \E o \in Objects :
          \/ \E m \in Models, r \in Requests : SetGrid(o, m, r)
          \/ \E n \in Names : SetName(o, n)
          \/ \E t \in Times : SetTime(o, t)
          \/ \E k \in Kinds, v \in Versions : SetBaseProfile(o, k, v)
          \/ CreateScenario(o)
          \/ \E listed \in BOOLEAN : CreateRaises(o, listed)
          \/ ChangeToExecute(o)
    \/ \E m \in CsvModels, k \in Kinds, v \in Versions : Upload(m, k, v)

Spec == Init /\ [][Next]_vars

-----------------------------------------------------------------------------
(* Properties. *)

\* The values of the variables.  An entry of the list has a name and a version
\* for every kind of profile: create_scenario lists nothing incomplete.
TypeOK ==
    /\ list \in Seq(Entries)
    /\ stored \subseteq Models \X Kinds \X (Versions \cup {Release})
    /\ state \in [Objects -> {"create", "execute"}]
    /\ builder \in [Objects -> Builders \cup {None}]
    /\ tried \in [Objects -> BOOLEAN]
    /\ allowed \subseteq {ProcessOf[o] : o \in Objects}
    /\ errors \in 0..MaxErrors

\* A time range that can be simulated: whole intervals within the year.
SplitsTheYear(t) ==
    /\ 0 <= t.start /\ t.end <= MaxTs
    /\ \E n \in 1..(MaxTs + 1) : t.end - t.start + 1 = n * t.interval

\* A listed scenario can be prepared, however often set_grid was called with
\* other models in between: the profiles it names are stored for its own grid
\* model, and a model with profiles of one year has a range of that year.
ListedIsRunnable ==
    \A n \in DOMAIN list :
        LET e == list[n]
        IN  /\ \A k \in Kinds : <<e.model, k, e.profile[k]>> \in stored
            /\ e.model \in CsvModels => SplitsTheYear(e.time)

\* No object lists two scenarios.  A call of create_scenario that raised after
\* add_entry does not list its scenario again when the user repeats it.
ListsAtMostOnce == \A m, n \in DOMAIN list : list[m].by = list[n].by => m = n

\* The interconnects that a name of a model stands for.
Covers(m, i) == IF RegionOf[m] \in i THEN PossibleOf[m] ELSE i

\* Two scenarios of one model, that cover the same interconnects, have the same
\* plan and name only if the older one was listed after set_grid had read the
\* list for the younger one: set_name misses nothing else.
DuplicateNameIsStale ==
    \A m, n \in DOMAIN list :
        LET e == list[m] f == list[n]
        IN  (/\ m < n /\ e.model = f.model /\ e.name = f.name
             /\ Covers(e.model, e.interconnect) = Covers(f.model, f.interconnect))
            => f.seen < m

\* An object is in the execute state without a listed scenario only in a process
\* in which another object has created one, since allowed is of the class.
ExecuteIsListed ==
    \A o \in Objects :
        state[o] = "execute" =>
            \/ \E n \in DOMAIN list : list[n].by = o
            \/ \E p \in Objects \ {o} :
                  /\ ProcessOf[p] = ProcessOf[o]
                  /\ \E n \in DOMAIN list : list[n].by = p
=============================================================================
