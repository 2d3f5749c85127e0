--------------------------- MODULE BuilderProofs ---------------------------
(***************************************************************************)
(* TLAPS proofs about Builder, for any objects, processes, grid models,    *)
(* names, kinds of profile, time ranges and number of errors.              *)
(***************************************************************************)
EXTENDS Builder, TLAPS

\* An interconnect as interconnect_to_name leaves it: the region alone, or some
\* of the interconnects and not all of them.
Normal(m, i) ==
    \/ i = {RegionOf[m]}
    \/ i \subseteq PossibleOf[m] /\ ~ PossibleOf[m] \subseteq i

\* A builder: what it was told when set_grid read the list still holds of the
\* entries that the list had then, set_name has respected it, its profiles are
\* stored for its model and its range is one that the model can run.
BuilderOK(b) ==
    /\ Normal(b.model, b.interconnect)
    /\ b.seen <= Len(list)
    /\ \A n \in 1..b.seen : list[n].interconnect = b.interconnect =>
                                list[n].name \in b.existing
    /\ b.name \notin b.existing
    /\ \A k \in Kinds : b.profile[k] # Unset => <<b.model, k, b.profile[k]>> \in stored
    /\ b.model \in CsvModels => SplitsTheYear(b.time)

\* The entry number n of the list, with what it has from its builder.
EntryOK(n) ==
    /\ Normal(list[n].model, list[n].interconnect)
    /\ list[n].seen < n
    /\ \A m \in 1..list[n].seen : list[m].interconnect = list[n].interconnect =>
                                      list[m].name # list[n].name
    /\ tried[list[n].by]

\* allowed is of the class: a process is in it once one of its objects has listed
\* a scenario.
AllowedOK ==
    /\ \A x \in allowed : \E n \in DOMAIN list : ProcessOf[list[n].by] = x
    /\ \A o \in Objects : state[o] = "execute" => ProcessOf[o] \in allowed

\* The inductive invariant.
IInv ==
    /\ TypeOK
    /\ \A o \in Objects : builder[o] # None => BuilderOK(builder[o])
    /\ \A n \in DOMAIN list : EntryOK(n)
    /\ AllowedOK
    /\ ListedIsRunnable
    /\ ListsAtMostOnce

-----------------------------------------------------------------------------
(* Time ranges. *)

\* A remainder of zero means whole intervals.
LEMMA Intervals ==
  ASSUME NEW a \in Int, NEW b \in Nat \ {0}, a % b = 0, a > 0,
         NEW max \in Nat, a <= max
  PROVE  \E n \in 1..max : a = n * b
<1>1. a = b * (a \div b) + (a % b) /\ (a \div b) \in Int
  BY SMT
<1> DEFINE n == a \div b
<1>2. n \in Int /\ a = n * b
  BY <1>1, SMT
<1> HIDE DEF n
<1>3. n > 0
  BY <1>2, SMT
<1>4. n <= a
  BY <1>2, <1>3, SMT
<1> QED  BY <1>2, <1>3, <1>4

\* What _check_time_range accepts for a model in CSV files can be run.
LEMMA CheckedSplits ==
  ASSUME NEW m \in CsvModels, NEW t \in Times, CheckTimeRange(m, t)
  PROVE  SplitsTheYear(t)
<1>1. /\ t.start \in Int /\ t.end \in Int /\ t.interval \in Nat \ {0} /\ MaxTs \in Nat
  BY BuilderAssumption
<1>2. /\ t.start <= t.end /\ t.start >= 0 /\ t.end <= MaxTs
      /\ (t.end - t.start + 1) % t.interval = 0
  BY DEF CheckTimeRange, CsvModels
<1> DEFINE hours == t.end - t.start + 1
           every == t.interval
           year == MaxTs + 1
<1>3. /\ hours \in Int /\ hours > 0 /\ hours <= year
      /\ every \in Nat \ {0} /\ hours % every = 0 /\ year \in Nat
  BY <1>1, <1>2
<1>4. \E n \in 1..year : hours = n * every
  <2> HIDE DEF hours, every, year
  <2> QED  BY <1>3, Intervals
<1> QED  BY <1>1, <1>2, <1>4 DEF SplitsTheYear

\* The range that a builder starts with is the whole year.
LEMMA DefaultSplits == SplitsTheYear(Default)
<1>1. MaxTs \in Nat /\ Day \in Nat \ {0} /\ (MaxTs + 1) % Day = 0
  BY BuilderAssumption
<1>2. \E n \in 1..(MaxTs + 1) : MaxTs + 1 = n * Day
  BY <1>1, Intervals
<1>3. Default.start = 0 /\ Default.end = MaxTs /\ Default.interval = Day
  BY DEF Default
<1>4. Default.end - Default.start + 1 = MaxTs + 1
  BY <1>1, <1>3
<1> QED  BY <1>1, <1>2, <1>3, <1>4 DEF SplitsTheYear

-----------------------------------------------------------------------------
(* Interconnects. *)

\* A request that is accepted is turned into a normal name.
LEMMA NameIsNormal ==
  ASSUME NEW m \in Models, NEW r, IsRequest(m, r)
  PROVE  /\ Normal(m, InterconnectToName(m, r))
         /\ InterconnectToName(m, r) \in Interconnect
  BY BuilderAssumption DEF IsRequest, Normal, InterconnectToName, Interconnect

\* Normal names that cover the same interconnects are the same.
LEMMA NormalIsUnique ==
  ASSUME NEW m \in Models, NEW i, NEW j, Normal(m, i), Normal(m, j),
         Covers(m, i) = Covers(m, j)
  PROVE  i = j
  BY BuilderAssumption DEF Normal, Covers

-----------------------------------------------------------------------------
(* The inductive invariant. *)

\* Nothing is listed and no object has a builder at first.
LEMMA InitIInv == Init => IInv
<1> SUFFICES ASSUME Init PROVE IInv
  OBVIOUS
<1>1. TypeOK
  BY BuilderAssumption DEF Init, TypeOK
<1>2. DOMAIN list = {}
  BY DEF Init
<1> QED
  BY <1>1, <1>2 DEF Init, IInv, AllowedOK, ListedIsRunnable, ListsAtMostOnce

\* A builder b that set_grid has just made, with the profiles stored by then.
FreshOK(b) ==
    /\ b \in Builders
    /\ Normal(b.model, b.interconnect)
    /\ b.seen = Len(list)
    /\ \A n \in 1..b.seen : list[n].interconnect = b.interconnect =>
                                list[n].name \in b.existing
    /\ b.name \notin b.existing
    /\ \A k \in Kinds : b.profile[k] # Unset => <<b.model, k, b.profile[k]>> \in stored'
    /\ SplitsTheYear(b.time)

\* The builder that set_grid makes.
LEMMA NewBuilderOK ==
  ASSUME IInv, NEW m \in Models, NEW r, IsRequest(m, r),
         NEW v \in Versions \cup {Release, Unset},
         \A k \in Kinds : v # Unset => <<m, k, v>> \in stored'
  PROVE  FreshOK(NewBuilder(m, InterconnectToName(m, r), [k \in Kinds |-> v]))
<1> DEFINE i == InterconnectToName(m, r)
           b == NewBuilder(m, i, [k \in Kinds |-> v])
<1>1. Normal(m, i) /\ i \in Interconnect
  BY NameIsNormal
<1> HIDE DEF i
<1>2. list \in Seq(Entries)
  BY DEF IInv, TypeOK
<1>3. \A n \in DOMAIN list : list[n].name \in Names
  <2>1. \A n \in DOMAIN list : list[n] \in Entries
    BY <1>2
  <2> QED  BY <2>1 DEF Entries
<1>4. Existing(i) \subseteq Names
  BY <1>3 DEF Existing
<1>5. b = [model |-> m, interconnect |-> i, existing |-> Existing(i), name |-> Unset,
           time |-> Default, profile |-> [k \in Kinds |-> v], seen |-> Len(list)]
  BY DEF NewBuilder
<1> HIDE DEF b
<1>6. b \in Builders
  BY <1>1, <1>2, <1>4, <1>5 DEF Builders, Profiles
<1>7. \A n \in 1..b.seen : list[n].interconnect = b.interconnect =>
                              list[n].name \in b.existing
  BY <1>2, <1>5 DEF Existing
<1>8. b.name \notin b.existing
  BY <1>4, <1>5, BuilderAssumption
<1>9. FreshOK(b)
  BY <1>1, <1>5, <1>6, <1>7, <1>8, DefaultSplits DEF FreshOK
<1> QED  BY <1>9 DEF b, i

\* set_grid replaces the builder of one object.
LEMMA SetGridKeeps ==
  ASSUME IInv, NEW o \in Objects, NEW m \in Models, NEW r, SetGrid(o, m, r)
  PROVE  IInv'
<1> DEFINE b == GetBuilder(o, m, InterconnectToName(m, r))
           v == IF m \in PypsaModels THEN Release ELSE Unset
<1>1. IsRequest(m, r) /\ builder' = [builder EXCEPT ![o] = b]
  BY DEF SetGrid
<1>2. b = NewBuilder(m, InterconnectToName(m, r), [k \in Kinds |-> v])
  BY DEF GetBuilder, FromCSV, FromPyPSA
<1>3. UNCHANGED <<list, state, tried, allowed, errors>>
  BY DEF SetGrid
<1>4. stored \subseteq stored' /\ stored' \subseteq stored \cup ({m} \X Kinds \X {Release})
  BY DEF SetGrid
<1>5. \A k \in Kinds : v # Unset => <<m, k, v>> \in stored'
  BY DEF SetGrid
<1>6. v \in Versions \cup {Release, Unset}
  OBVIOUS
<1>7. FreshOK(b)
  BY <1>1, <1>2, <1>5, <1>6, NewBuilderOK
<1> HIDE DEF b, v
<1>8. TypeOK'
  BY <1>1, <1>3, <1>4, <1>7 DEF IInv, TypeOK, FreshOK
<1>9. ASSUME NEW q \in Objects, builder'[q] # None  PROVE BuilderOK(builder[q])'
  <2>1. CASE q = o
    <3>1. builder'[q] = b
      BY <1>1, <2>1 DEF IInv, TypeOK
    <3>2. Len(list) \in Nat
      BY DEF IInv, TypeOK
    <3> QED  BY <1>3, <1>7, <3>1, <3>2 DEF BuilderOK, FreshOK
  <2>2. CASE q # o
    BY <1>1, <1>3, <1>4, <1>9, <2>2 DEF IInv, TypeOK, BuilderOK
  <2> QED  BY <2>1, <2>2
<1>10. (\A n \in DOMAIN list : EntryOK(n))' /\ AllowedOK' /\ ListsAtMostOnce'
  BY <1>3 DEF IInv, EntryOK, AllowedOK, ListsAtMostOnce
<1>11. ListedIsRunnable'
  BY <1>3, <1>4 DEF IInv, ListedIsRunnable
<1> QED  BY <1>8, <1>9, <1>10, <1>11 DEF IInv

\* A setter that leaves a builder in order.
LEMMA SetterKeeps ==
  ASSUME IInv, NEW o \in Objects,
         builder' = [builder EXCEPT ![o] = builder'[o]],
         builder'[o] \in Builders, BuilderOK(builder[o])',
         UNCHANGED <<list, stored, state, tried, allowed, errors>>
  PROVE  IInv'
<1>1. TypeOK'
  BY DEF IInv, TypeOK
<1>2. ASSUME NEW q \in Objects, builder'[q] # None  PROVE BuilderOK(builder[q])'
  <2>1. CASE q # o
    BY <1>2, <2>1 DEF IInv, TypeOK, BuilderOK
  <2> QED  BY <2>1
<1>3. (\A n \in DOMAIN list : EntryOK(n))' /\ AllowedOK' /\ ListsAtMostOnce'
  BY DEF IInv, EntryOK, AllowedOK, ListsAtMostOnce
<1>4. ListedIsRunnable'
  BY DEF IInv, ListedIsRunnable
<1> QED  BY <1>1, <1>2, <1>3, <1>4 DEF IInv

\* What a builder is like before one of its setters is called.
LEMMA HasBuilderOK ==
  ASSUME IInv, NEW o \in Objects, HasBuilder(o)
  PROVE  builder[o] \in Builders /\ BuilderOK(builder[o])
  BY DEF IInv, TypeOK, HasBuilder

\* set_name takes a name that the table of set_grid does not have.
LEMMA SetNameKeeps ==
  ASSUME IInv, NEW o \in Objects, NEW n \in Names, SetName(o, n)
  PROVE  IInv'
<1> DEFINE b == builder[o]  c == [b EXCEPT !.name = n]
<1>1. b \in Builders /\ BuilderOK(b)
  BY HasBuilderOK DEF SetName
<1>2. builder' = [builder EXCEPT ![o] = c] /\ builder'[o] = c /\ n \notin b.existing
  BY DEF SetName, IInv, TypeOK
<1>3. UNCHANGED <<list, stored, state, tried, allowed, errors>>
  BY DEF SetName
<1>4. c \in Builders
  BY <1>1 DEF Builders
<1>5. BuilderOK(builder[o])'
  BY <1>1, <1>2, <1>3 DEF BuilderOK, Builders
<1> QED  BY <1>2, <1>3, <1>4, <1>5, SetterKeeps

\* set_time takes a range that can be run.
LEMMA SetTimeKeeps ==
  ASSUME IInv, NEW o \in Objects, NEW t \in Times, SetTime(o, t)
  PROVE  IInv'
<1> DEFINE b == builder[o]  c == [b EXCEPT !.time = t]
<1>1. b \in Builders /\ BuilderOK(b)
  BY HasBuilderOK DEF SetTime
<1>2. builder' = [builder EXCEPT ![o] = c] /\ builder'[o] = c
  BY DEF SetTime, IInv, TypeOK
<1>3. UNCHANGED <<list, stored, state, tried, allowed, errors>>
  BY DEF SetTime
<1>4. c \in Builders
  BY <1>1 DEF Builders
<1>5. b.model \in CsvModels => SplitsTheYear(t)
  BY CheckedSplits DEF SetTime
<1>6. BuilderOK(builder[o])'
  BY <1>1, <1>2, <1>3, <1>5 DEF BuilderOK, Builders
<1> QED  BY <1>2, <1>3, <1>4, <1>6, SetterKeeps

\* set_base_profile takes a version that is stored for the model.
LEMMA SetBaseProfileKeeps ==
  ASSUME IInv, NEW o \in Objects, NEW k \in Kinds, NEW v \in Versions,
         SetBaseProfile(o, k, v)
  PROVE  IInv'
<1> DEFINE b == builder[o]  c == [b EXCEPT !.profile[k] = v]
<1>1. b \in Builders /\ BuilderOK(b)
  BY HasBuilderOK DEF SetBaseProfile
<1>2. /\ builder' = [builder EXCEPT ![o] = c] /\ builder'[o] = c
      /\ <<b.model, k, v>> \in stored
  BY DEF SetBaseProfile, IInv, TypeOK
<1>3. UNCHANGED <<list, stored, state, tried, allowed, errors>>
  BY DEF SetBaseProfile
<1>4. c \in Builders
  BY <1>1 DEF Builders, Profiles
<1>5. BuilderOK(builder[o])'
  BY <1>1, <1>2, <1>3 DEF BuilderOK, Builders, Profiles
<1> QED  BY <1>2, <1>3, <1>4, <1>5, SetterKeeps

\* A new profile takes nothing away.
LEMMA UploadKeeps ==
  ASSUME IInv, NEW m \in CsvModels, NEW k \in Kinds, NEW v \in Versions, Upload(m, k, v)
  PROVE  IInv'
<1>1. stored' = stored \cup {<<m, k, v>>}
  BY DEF Upload
<1>2. UNCHANGED <<list, state, builder, tried, allowed, errors>>
  BY DEF Upload
<1>3. TypeOK'
  BY <1>1, <1>2 DEF IInv, TypeOK, CsvModels
<1>4. (\A o \in Objects : builder[o] # None => BuilderOK(builder[o]))'
  BY <1>1, <1>2 DEF IInv, BuilderOK
<1>5. (\A n \in DOMAIN list : EntryOK(n))' /\ AllowedOK' /\ ListsAtMostOnce'
  BY <1>2 DEF IInv, EntryOK, AllowedOK, ListsAtMostOnce
<1>6. ListedIsRunnable'
  BY <1>1, <1>2 DEF IInv, ListedIsRunnable
<1> QED  BY <1>3, <1>4, <1>5, <1>6 DEF IInv

-----------------------------------------------------------------------------
(* create_scenario *)

\* add_entry with the builder of o: the new entry is in order and the old ones
\* stay as they are.
LEMMA ListingKeeps ==
  ASSUME IInv, NEW o \in Objects, HasBuilder(o), ~ Missing(o),
         tried' = [tried EXCEPT ![o] = TRUE], list' = Append(list, Entry(o)),
         UNCHANGED stored
  PROVE  /\ list' \in Seq(Entries)
         /\ tried' \in [Objects -> BOOLEAN]
         /\ Len(list') = Len(list) + 1
         /\ \A n \in DOMAIN list : n \in DOMAIN list' /\ list'[n] = list[n]
         /\ list'[Len(list')].by = o
         /\ (\A n \in DOMAIN list : EntryOK(n))'
         /\ ListedIsRunnable' /\ ListsAtMostOnce'
<1> DEFINE b == builder[o]  e == Entry(o)  last == Len(list) + 1
<1>1. b \in Builders /\ BuilderOK(b)
  BY HasBuilderOK
<1>2. /\ e.model = b.model /\ e.interconnect = b.interconnect /\ e.name = b.name
      /\ e.time = b.time /\ e.profile = b.profile /\ e.by = o /\ e.seen = b.seen
  BY DEF Entry
<1>3. ~ tried[o] /\ b.name # Unset /\ \A k \in Kinds : b.profile[k] # Unset
  BY DEF Missing
<1>4. b.profile \in Profiles(Versions \cup {Release})
  BY <1>1, <1>3 DEF Builders, Profiles
<1>5. e \in Entries
  BY <1>1, <1>3, <1>4 DEF Entry, Entries, Builders
<1>6. list \in Seq(Entries) /\ tried \in [Objects -> BOOLEAN]
  BY DEF IInv, TypeOK
<1> HIDE DEF e
<1>7. list' = Append(list, e)
  BY DEF e
<1>8. /\ list' \in Seq(Entries) /\ Len(list') = last /\ list'[last] = e
      /\ \A n \in DOMAIN list : n \in DOMAIN list' /\ list'[n] = list[n]
      /\ \A n \in DOMAIN list' : n \in DOMAIN list \/ n = last
      /\ last \notin DOMAIN list
  BY <1>5, <1>6, <1>7
<1>9. \A n \in DOMAIN list :
        list[n].seen < n /\ list[n].by \in Objects /\ list[n].seen \in Nat
  <2>1. \A n \in DOMAIN list : list[n] \in Entries
    BY <1>6
  <2> QED  BY <2>1 DEF IInv, EntryOK, Entries
<1>10. ASSUME NEW n \in DOMAIN list'  PROVE EntryOK(n)'
  <2>1. CASE n \in DOMAIN list
    <3>1. \A m \in 1..list[n].seen : list'[m] = list[m]
      BY <1>6, <1>8, <1>9, <2>1
    <3>2. list'[n] = list[n] /\ EntryOK(n)
      BY <1>8, <2>1 DEF IInv
    <3>3. tried'[list[n].by]
      BY <1>6, <1>9, <2>1, <3>2 DEF EntryOK
    <3> QED  BY <3>1, <3>2, <3>3 DEF EntryOK
  <2>2. CASE n = last
    <3>1. b.seen \in Nat /\ b.seen < last
      BY <1>1, <1>6 DEF BuilderOK, Builders
    <3>2. \A m \in 1..b.seen : list'[m] = list[m]
      BY <1>1, <1>6, <1>8, <3>1 DEF BuilderOK
    <3>3. tried'[o]
      BY <1>6
    <3> QED  BY <1>1, <1>2, <1>8, <2>2, <3>1, <3>2, <3>3 DEF BuilderOK, EntryOK
  <2> QED  BY <1>8, <2>1, <2>2
<1>11. ListedIsRunnable'
  <2>1. /\ \A k \in Kinds : <<e.model, k, e.profile[k]>> \in stored
        /\ e.model \in CsvModels => SplitsTheYear(e.time)
    BY <1>1, <1>2, <1>3 DEF BuilderOK
  <2> QED  BY <1>8, <2>1 DEF IInv, ListedIsRunnable
<1>12. ListsAtMostOnce'
  <2>1. \A n \in DOMAIN list : list[n].by # o
    BY <1>3 DEF IInv, EntryOK
  <2> QED  BY <1>2, <1>8, <2>1 DEF IInv, ListsAtMostOnce
<1> QED  BY <1>2, <1>6, <1>8, <1>10, <1>11, <1>12

\* The builders of the other objects do not notice a new entry.
LEMMA BuilderOKWhenListed ==
  ASSUME IInv, NEW q \in Objects, builder[q] # None, builder'[q] = builder[q],
         UNCHANGED stored, Len(list') = Len(list) + 1,
         \A n \in DOMAIN list : list'[n] = list[n]
  PROVE  BuilderOK(builder[q])'
<1>1. builder[q] \in Builders /\ BuilderOK(builder[q]) /\ list \in Seq(Entries)
  BY DEF IInv, TypeOK
<1>2. builder[q].seen \in Nat /\ Len(list) \in Nat
  BY <1>1 DEF Builders
<1>3. \A n \in 1..builder[q].seen : list'[n] = list[n]
  BY <1>1, <1>2 DEF BuilderOK
<1> QED  BY <1>1, <1>2, <1>3 DEF BuilderOK

\* create_scenario to the end.
LEMMA CreateScenarioKeeps ==
  ASSUME IInv, NEW o \in Objects, CreateScenario(o)
  PROVE  IInv'
<1>1. /\ HasBuilder(o) /\ ~ Missing(o) /\ UNCHANGED <<stored, errors>>
      /\ tried' = [tried EXCEPT ![o] = TRUE] /\ list' = Append(list, Entry(o))
      /\ allowed' = allowed \cup {ProcessOf[o]}
      /\ state' = [state EXCEPT ![o] = "execute"]
      /\ builder' = [builder EXCEPT ![o] = None]
  BY DEF CreateScenario
<1>2. /\ list' \in Seq(Entries) /\ tried' \in [Objects -> BOOLEAN]
      /\ Len(list') = Len(list) + 1
      /\ \A n \in DOMAIN list : n \in DOMAIN list' /\ list'[n] = list[n]
      /\ list'[Len(list')].by = o
      /\ (\A n \in DOMAIN list : EntryOK(n))'
      /\ ListedIsRunnable' /\ ListsAtMostOnce'
  BY <1>1, ListingKeeps
<1>3. TypeOK'
  BY <1>1, <1>2 DEF IInv, TypeOK
<1>4. ASSUME NEW q \in Objects, builder'[q] # None  PROVE BuilderOK(builder[q])'
  <2>1. builder'[q] = builder[q]
    BY <1>1, <1>4 DEF IInv, TypeOK
  <2> QED  BY <1>1, <1>2, <1>4, <2>1, BuilderOKWhenListed
<1>5. AllowedOK'
  <2>1. Len(list') \in DOMAIN list'
    <3>1. list \in Seq(Entries)
      BY DEF IInv, TypeOK
    <3> QED  BY <1>2, <3>1
  <2>2. \A x \in allowed' : \E n \in DOMAIN list' : ProcessOf[list'[n].by] = x
    BY <1>1, <1>2, <2>1 DEF IInv, AllowedOK
  <2>3. \A q \in Objects : state'[q] = "execute" => ProcessOf[q] \in allowed'
    BY <1>1 DEF IInv, AllowedOK, TypeOK
  <2> QED  BY <2>2, <2>3 DEF AllowedOK
<1> QED  BY <1>2, <1>3, <1>4, <1>5 DEF IInv

\* create_scenario raises, before or after its scenario is listed.
LEMMA CreateRaisesKeeps ==
  ASSUME IInv, NEW o \in Objects, NEW listed \in BOOLEAN, CreateRaises(o, listed)
  PROVE  IInv'
<1>1. /\ HasBuilder(o) /\ ~ Missing(o) /\ UNCHANGED <<stored, state, builder, allowed>>
      /\ tried' = [tried EXCEPT ![o] = TRUE]
      /\ errors < MaxErrors /\ errors' = errors + 1
  BY DEF CreateRaises
<1>2. errors' \in 0..MaxErrors
  BY <1>1, BuilderAssumption DEF IInv, TypeOK
<1>3. CASE listed
  <2>1. list' = Append(list, Entry(o))
    BY <1>3 DEF CreateRaises
  <2>2. /\ list' \in Seq(Entries) /\ tried' \in [Objects -> BOOLEAN]
        /\ Len(list') = Len(list) + 1
        /\ \A n \in DOMAIN list : n \in DOMAIN list' /\ list'[n] = list[n]
        /\ (\A n \in DOMAIN list : EntryOK(n))'
        /\ ListedIsRunnable' /\ ListsAtMostOnce'
    BY <1>1, <2>1, ListingKeeps
  <2>3. TypeOK'
    BY <1>1, <1>2, <2>2 DEF IInv, TypeOK
  <2>4. ASSUME NEW q \in Objects, builder'[q] # None  PROVE BuilderOK(builder[q])'
    BY <1>1, <2>2, <2>4, BuilderOKWhenListed
  <2>5. AllowedOK'
    BY <1>1, <2>2 DEF IInv, AllowedOK
  <2> QED  BY <2>2, <2>3, <2>4, <2>5 DEF IInv
<1>4. CASE ~ listed
  <2>1. UNCHANGED list
    BY <1>4 DEF CreateRaises
  <2>2. TypeOK'
    BY <1>1, <1>2, <2>1 DEF IInv, TypeOK
  <2>3. (\A q \in Objects : builder[q] # None => BuilderOK(builder[q]))'
    BY <1>1, <2>1 DEF IInv, BuilderOK
  <2>4. (\A n \in DOMAIN list : EntryOK(n))'
    <3>1. list \in Seq(Entries) /\ tried \in [Objects -> BOOLEAN]
      BY DEF IInv, TypeOK
    <3>2. \A n \in DOMAIN list : list[n].by \in Objects
      <4>1. \A n \in DOMAIN list : list[n] \in Entries
        BY <3>1
      <4> QED  BY <4>1 DEF Entries
    <3>3. \A n \in DOMAIN list : tried'[list[n].by]
      BY <1>1, <3>1, <3>2 DEF IInv, EntryOK
    <3> QED  BY <2>1, <3>3 DEF IInv, EntryOK
  <2>5. AllowedOK' /\ ListedIsRunnable' /\ ListsAtMostOnce'
    BY <1>1, <2>1 DEF IInv, AllowedOK, ListedIsRunnable, ListsAtMostOnce
  <2> QED  BY <2>2, <2>3, <2>4, <2>5 DEF IInv
<1> QED  BY <1>3, <1>4

\* The switch to execute that another object of the process has made possible.
LEMMA ChangeToExecuteKeeps ==
  ASSUME IInv, NEW o \in Objects, ChangeToExecute(o)
  PROVE  IInv'
<1>1. /\ ProcessOf[o] \in allowed
      /\ state' = [state EXCEPT ![o] = "execute"]
      /\ builder' = [builder EXCEPT ![o] = None]
      /\ UNCHANGED <<list, stored, tried, allowed, errors>>
  BY DEF ChangeToExecute
<1>2. TypeOK'
  BY <1>1 DEF IInv, TypeOK
<1>3. ASSUME NEW q \in Objects, builder'[q] # None  PROVE BuilderOK(builder[q])'
  BY <1>1, <1>3 DEF IInv, TypeOK, BuilderOK
<1>4. AllowedOK'
  BY <1>1 DEF IInv, TypeOK, AllowedOK
<1>5. (\A n \in DOMAIN list : EntryOK(n))' /\ ListedIsRunnable' /\ ListsAtMostOnce'
  BY <1>1 DEF IInv, EntryOK, ListedIsRunnable, ListsAtMostOnce
<1> QED  BY <1>2, <1>3, <1>4, <1>5 DEF IInv

\* Every step keeps the invariant.
LEMMA NextIInv == IInv /\ [Next]_vars => IInv'
<1> SUFFICES ASSUME IInv, [Next]_vars PROVE IInv'
  OBVIOUS
<1>1. CASE UNCHANGED vars
  <2>1. UNCHANGED <<list, stored, state, builder, tried, allowed, errors>>
    BY <1>1 DEF vars
  <2> QED
    BY <2>1
       DEF IInv, TypeOK, BuilderOK, EntryOK, AllowedOK, ListedIsRunnable,
           ListsAtMostOnce
<1>2. CASE Next
  BY <1>2, SetGridKeeps, SetNameKeeps, SetTimeKeeps, SetBaseProfileKeeps,
     CreateScenarioKeeps, CreateRaisesKeeps, ChangeToExecuteKeeps, UploadKeeps DEF Next
<1> QED  BY <1>1, <1>2

-----------------------------------------------------------------------------
(* Theorems *)

\* create_scenario lists nothing incomplete: every entry has a name and a version
\* of each kind of profile.
THEOREM TypeCorrect == Spec => []TypeOK
<1>1. IInv => TypeOK
  BY DEF IInv
<1> QED  BY <1>1, InitIInv, NextIInv, PTL DEF Spec

\* What is listed can be prepared: its profiles are stored for its own model, and
\* its time range splits into whole intervals.
THEOREM ListedScenariosAreRunnable == Spec => []ListedIsRunnable
<1>1. IInv => ListedIsRunnable
  BY DEF IInv
<1> QED  BY <1>1, InitIInv, NextIInv, PTL DEF Spec

\* No object lists two scenarios, since a call that raised leaves empty values
\* in _scenario_info.
THEOREM ObjectsListOnce == Spec => []ListsAtMostOnce
<1>1. IInv => ListsAtMostOnce
  BY DEF IInv
<1> QED  BY <1>1, InitIInv, NextIInv, PTL DEF Spec

\* Two scenarios of a model with the same plan and name, for the same
\* interconnects, need a list that was read before the older one was in it.
THEOREM DuplicatesAreStale == Spec => []DuplicateNameIsStale
<1>1. ASSUME IInv PROVE DuplicateNameIsStale
  <2> SUFFICES ASSUME NEW m \in DOMAIN list, NEW n \in DOMAIN list,
                      m < n, list[m].model = list[n].model, list[m].name = list[n].name,
                      Covers(list[m].model, list[m].interconnect)
                        = Covers(list[n].model, list[n].interconnect)
               PROVE  list[n].seen < m
    BY DEF DuplicateNameIsStale
  <2>1. list \in Seq(Entries) /\ list[m] \in Entries /\ list[n] \in Entries
    BY <1>1 DEF IInv, TypeOK
  <2>2. list[m].model \in Models /\ list[n].seen \in Nat /\ m \in Nat /\ m >= 1
    BY <2>1 DEF Entries
  <2>3. EntryOK(m) /\ EntryOK(n)
    BY <1>1 DEF IInv
  <2>4. list[m].interconnect = list[n].interconnect
    BY <2>2, <2>3, NormalIsUnique DEF EntryOK
  <2>5. m \notin 1..list[n].seen
    BY <2>3, <2>4 DEF EntryOK
  <2> QED  BY <2>2, <2>5
<1> QED  BY <1>1, InitIInv, NextIInv, PTL DEF Spec

\* An object that is in the execute state has a listed scenario, or shares its
\* process, and so Create.allowed, with an object that has.
THEOREM ExecuteNeedsAListing == Spec => []ExecuteIsListed
<1>1. ASSUME IInv PROVE ExecuteIsListed
  <2> SUFFICES ASSUME NEW o \in Objects, state[o] = "execute",
                      ~ \E n \in DOMAIN list : list[n].by = o
               PROVE  \E p \in Objects \ {o} :
                        /\ ProcessOf[p] = ProcessOf[o]
                        /\ \E n \in DOMAIN list : list[n].by = p
    BY DEF ExecuteIsListed
  <2>1. PICK n \in DOMAIN list : ProcessOf[list[n].by] = ProcessOf[o]
    BY <1>1 DEF IInv, AllowedOK
  <2>2. list[n] \in Entries
    BY <1>1 DEF IInv, TypeOK
  <2>3. list[n].by \in Objects \ {o}
    BY <2>2 DEF Entries
  <2> QED  BY <2>1, <2>3
<1> QED  BY <1>1, InitIInv, NextIInv, PTL DEF Spec
=============================================================================
