---------------------------- MODULE NetworkData ----------------------------
(***************************************************************************)
(* How a grid of the europe_tub model comes into being: Grid() of          *)
(* input/grid.py, TUB of network/europe_tub/model.py and Zenodo.load_data  *)
(* of network/zenodo.py.  Several processes of one machine share           *)
(*                                                                         *)
(*   the directory data_<version> next to the code, into which the files   *)
(*   of the Zenodo record are downloaded and, if archives, unpacked;       *)
(*   the store of profiles, keyed by kind and version of the record.       *)
(*                                                                         *)
(* Each process has a cache of networks of its own.  Files are written in  *)
(* pieces: a process may die, or a request fail, half way, and another     *)
(* process may look at the directory in between.                           *)
(***************************************************************************)
EXTENDS Integers, Sequences, Functions

CONSTANTS
    Processes,      \* the processes that build grids
    Files,          \* the files of the record, a sequence of names
    Archives,       \* the files of type zip
    Loads,          \* the loads of the full network, a sequence of zones
    Region,         \* the name of the whole region
    Interconnects,  \* the names a grid can be asked for
    ZonesOf,        \* the zones of each of them
    Kinds,          \* the kinds of profile; "demand" is one
    None,           \* no process, no profile, no network
    MaxGrids,       \* bound: how many grids are asked for in a run
    MaxFaults       \* bound: how many requests fail and processes die

ASSUME NetworkDataAssumption ==
    /\ Files \in Seq(Range(Files)) /\ Files # <<>> /\ Archives \subseteq Range(Files)
    /\ Loads \in Seq(Range(Loads))
    /\ IsInjective(Files) /\ IsInjective(Loads)
    /\ Region \in Interconnects /\ ZonesOf \in [Interconnects -> SUBSET Range(Loads)]
    /\ ZonesOf[Region] = Range(Loads)
    /\ "demand" \in Kinds /\ None \notin Processes
    /\ \A S \in SUBSET (0 .. Len(Loads) - 1) : None \notin [S -> Range(Loads)]
    /\ \A S \in SUBSET Range(Loads) : None \notin [S -> Range(Loads)]
    /\ MaxGrids \in Nat /\ MaxFaults \in Nat

VARIABLES
    dir,      \* data_<version> exists
    raw,      \* each file of the record on disk: none, partial or full
    writer,   \* the process that opened it last and has not closed it
    unpacked, \* the directory each archive unpacks to: none, partial or full
    unpacker, \* the process that began to unpack it last and has not ended
    profiles, \* the stored profile of each kind: its columns and their zones
    job,      \* what each process is doing
    cache,    \* the networks each process has cached, by interconnect
    alone,    \* history: no other process was at work since its job began
    raced,    \* history: two processes have been at work at once
    torn,     \* history: archives left by a process that died unpacking them
    grids, faults \* the grids asked for and the faults so far

disk == <<dir, raw, writer, unpacked, unpacker>>
history == <<alone, raced, torn>>
vars == <<disk, profiles, job, cache, history, grids, faults>>

FileNames == Range(Files)
Extent == {"none", "partial", "full"}

\* A stored profile maps its columns to the zones whose data they hold.
Column == Int \cup Range(Loads)

Phases ==
    {"idle", "record", "mkdir", "check", "remove", "rmtree", "open", "write",
     "unzip", "unzipping", "network", "number", "exists", "upload", "put", "cache"}

Idle == [pc |-> "idle", interconnect |-> Region, i |-> 0, repair |-> FALSE,
         network |-> <<>>, zone2id |-> <<>>, ask |-> {}, missing |-> {}]

Init ==
    /\ dir = FALSE
    /\ raw = [f \in FileNames |-> "none"] /\ writer = [f \in FileNames |-> None]
    /\ unpacked = [f \in FileNames |-> "none"] /\ unpacker = [f \in FileNames |-> None]
    /\ profiles = [k \in Kinds |-> None]
    /\ job = [p \in Processes |-> Idle]
    /\ cache = [p \in Processes |-> [c \in Interconnects |-> None]]
    /\ alone = [p \in Processes |-> TRUE] /\ raced = FALSE /\ torn = {}
    /\ grids = 0 /\ faults = 0

-----------------------------------------------------------------------------
(* Moving through a job. *)

At(p, phase) == job[p].pc = phase
Working(p) == ~ At(p, "idle")
File(p) == Files[job[p].i]

Goto(p, phase) == job' = [job EXCEPT ![p].pc = phase]

\* An exception that leaves Grid(): the process can go on with something else.
Raise(p) == job' = [job EXCEPT ![p] = Idle]

FirstPhase(repair) == IF repair THEN "check" ELSE "open"

\* The mutant of NextFile checks a file that it has repaired again and again.
NextFileStays(p) ==
    job' = IF job[p].repair THEN [job EXCEPT ![p].pc = "check"]
           ELSE IF job[p].i < Len(Files)
           THEN [job EXCEPT ![p].i = @ + 1, ![p].pc = "open"]
           ELSE [job EXCEPT ![p].pc = "network"]

\* The end of the body of the loop over the files of the record.
NextFile(p) ==
    job' = IF job[p].i < Len(Files)
           THEN [job EXCEPT ![p].i = @ + 1, ![p].pc = FirstPhase(job[p].repair)]
           ELSE [job EXCEPT ![p].pc = "network"]

\* Grid(interconnect): a cached network is taken, otherwise one is loaded.
NewGrid(p, c) ==
    /\ At(p, "idle") /\ grids < MaxGrids
    /\ grids' = grids + 1
    /\ job' = [job EXCEPT ![p] = [Idle EXCEPT
          !.pc = IF cache[p][c] = None THEN "record" ELSE "number",
          !.interconnect = c,
          !.network = IF cache[p][c] = None THEN <<>> ELSE cache[p][c]]]
    /\ LET others == {q \in Processes \ {p} : Working(q)}
       IN  /\ alone' = [q \in Processes |->
                          IF q = p THEN others = {} ELSE alone[q] /\ q \notin others]
           /\ raced' = (raced \/ others # {})
    /\ UNCHANGED <<disk, profiles, cache, torn, faults>>

\* Zenodo(): the description of the record is fetched; load_data begins.
GetRecord(p) ==
    /\ At(p, "record")
    /\ Goto(p, "mkdir")
    /\ UNCHANGED <<disk, profiles, cache, history, grids, faults>>

-----------------------------------------------------------------------------
(* load_data *)

\* os.mkdir: the process that creates the directory downloads every file, the
\* others (FileExistsError) compare checksums.
MkDir(p) ==
    /\ At(p, "mkdir")
    /\ dir' = TRUE
    /\ job' = [job EXCEPT ![p].pc = FirstPhase(dir), ![p].repair = dir, ![p].i = 1]
    /\ UNCHANGED <<raw, writer, unpacked, unpacker, profiles, cache, history, grids, faults>>

\* The mutant of CompareChecksum also accepts an incomplete file.
CompareExistence(p) ==
    /\ At(p, "check")
    /\ IF raw[File(p)] # "none" THEN NextFile(p) ELSE Goto(p, "remove")
    /\ UNCHANGED <<disk, profiles, cache, history, grids, faults>>

\* The checksum of the local file: a missing file has the checksum "invalid".
CompareChecksum(p) ==
    /\ At(p, "check")
    /\ IF raw[File(p)] = "full" THEN NextFile(p) ELSE Goto(p, "remove")
    /\ UNCHANGED <<disk, profiles, cache, history, grids, faults>>

\* The mutant of OsRemove takes a missing file for a removed one.
RemoveIfPresent(p) ==
    /\ At(p, "remove")
    /\ raw' = [raw EXCEPT ![File(p)] = "none"]
    /\ writer' = [writer EXCEPT ![File(p)] = None]
    /\ Goto(p, IF File(p) \in Archives THEN "rmtree" ELSE "open")
    /\ UNCHANGED <<dir, unpacked, unpacker, profiles, cache, history, grids, faults>>

\* _delete_data: os.remove raises if there is no such file.
OsRemove(p) ==
    /\ At(p, "remove")
    /\ IF raw[File(p)] = "none"
       THEN Raise(p) /\ UNCHANGED <<raw, writer>>
       ELSE /\ raw' = [raw EXCEPT ![File(p)] = "none"]
            /\ writer' = [writer EXCEPT ![File(p)] = None]
            /\ Goto(p, IF File(p) \in Archives THEN "rmtree" ELSE "open")
    /\ UNCHANGED <<dir, unpacked, unpacker, profiles, cache, history, grids, faults>>

\* _delete_data: shutil.rmtree raises if there is no such directory.
RmTree(p) ==
    /\ At(p, "rmtree")
    /\ IF unpacked[File(p)] = "none"
       THEN Raise(p) /\ UNCHANGED <<unpacked, unpacker>>
       ELSE /\ unpacked' = [unpacked EXCEPT ![File(p)] = "none"]
            /\ unpacker' = [unpacker EXCEPT ![File(p)] = None]
            /\ Goto(p, "open")
    /\ UNCHANGED <<dir, raw, writer, profiles, cache, history, grids, faults>>

\* _download_data: open(..., "wb") creates or truncates the file.
OpenFile(p) ==
    /\ At(p, "open")
    /\ raw' = [raw EXCEPT ![File(p)] = "partial"]
    /\ writer' = [writer EXCEPT ![File(p)] = p]
    /\ Goto(p, "write")
    /\ UNCHANGED <<dir, unpacked, unpacker, profiles, cache, history, grids, faults>>

\* The last chunk is written.  The file is complete unless another process has
\* removed or truncated it since it was opened.
CloseFile(p) ==
    /\ At(p, "write")
    /\ IF writer[File(p)] = p
       THEN /\ raw' = [raw EXCEPT ![File(p)] = "full"]
            /\ writer' = [writer EXCEPT ![File(p)] = None]
       ELSE UNCHANGED <<raw, writer>>
    /\ IF File(p) \in Archives THEN Goto(p, "unzip") ELSE NextFile(p)
    /\ UNCHANGED <<dir, unpacked, unpacker, profiles, cache, history, grids, faults>>

\* _unzip_data: ZipFile raises if the archive is missing or incomplete.
BeginUnzip(p) ==
    /\ At(p, "unzip")
    /\ IF raw[File(p)] = "full"
       THEN /\ unpacked' = [unpacked EXCEPT ![File(p)] = "partial"]
            /\ unpacker' = [unpacker EXCEPT ![File(p)] = p]
            /\ Goto(p, "unzipping")
       ELSE Raise(p) /\ UNCHANGED <<unpacked, unpacker>>
    /\ UNCHANGED <<dir, raw, writer, profiles, cache, history, grids, faults>>

\* The last member is extracted.  A process whose directory was removed
\* meanwhile has recreated the part of it that it had still to extract.
EndUnzip(p) ==
    /\ At(p, "unzipping")
    /\ LET f == File(p)
       IN  IF unpacker[f] = p
           THEN /\ unpacked' = [unpacked EXCEPT ![f] = "full"]
                /\ unpacker' = [unpacker EXCEPT ![f] = None]
           ELSE /\ \E left \in {unpacked[f], "partial"} :
                     unpacked' = [unpacked EXCEPT ![f] = IF @ = "none" THEN left ELSE @]
                /\ UNCHANGED unpacker
    /\ NextFile(p)
    /\ UNCHANGED <<dir, raw, writer, profiles, cache, history, grids, faults>>

-----------------------------------------------------------------------------
(* The network, its zones and its profiles. *)

\* _get_network reads one of the unpacked files: of a directory that was not
\* unpacked completely it may or may not be there.
GetNetwork(p) ==
    /\ At(p, "network")
    /\ \/ /\ \A f \in Archives : unpacked[f] # "none"
          /\ job' = [job EXCEPT ![p].network = Loads, ![p].pc = "number"]
       \/ /\ \E f \in Archives : unpacked[f] # "full"
          /\ Raise(p)
    /\ UNCHANGED <<disk, profiles, cache, history, grids, faults>>

Position(zones, z) == CHOOSE i \in DOMAIN zones : zones[i] = z

\* The loads of a network that are in some zones.
Kept(network, zones) == SelectSeq(network, LAMBDA z : z \in zones)

\* The mutant of BuildEur numbers the loads that are left.
BuildEurAfterFilter(p) ==
    /\ At(p, "number")
    /\ LET kept == Kept(job[p].network, ZonesOf[job[p].interconnect])
       IN  job' = [job EXCEPT
                     ![p].network = kept,
                     ![p].zone2id = [z \in Range(kept) |-> Position(kept, z) - 1],
                     ![p].ask = Kinds, ![p].missing = {}, ![p].pc = "exists"]
    /\ UNCHANGED <<disk, profiles, cache, history, grids, faults>>

\* build_eur: the loads of the network are numbered from 0, then those outside
\* of the interconnect are dropped from the network and from the numbering.
BuildEur(p) ==
    /\ At(p, "number")
    /\ LET c == job[p].interconnect
           all == job[p].network
           zones == {z \in Range(all) : c = Region \/ z \in ZonesOf[c]}
       IN  job' = [job EXCEPT
                     ![p].network = Kept(all, zones),
                     ![p].zone2id = [z \in zones |-> Position(all, z) - 1],
                     ![p].ask = Kinds, ![p].missing = {}, ![p].pc = "exists"]
    /\ UNCHANGED <<disk, profiles, cache, history, grids, faults>>

\* _profile_exists, for one kind after the other.
ProfileExists(p) ==
    /\ At(p, "exists")
    /\ \/ \E k \in job[p].ask :
            job' = [job EXCEPT ![p].ask = @ \ {k},
                               ![p].missing = IF profiles[k] = None THEN @ \cup {k} ELSE @]
       \/ job[p].ask = {} /\ Goto(p, "upload")
    /\ UNCHANGED <<disk, profiles, cache, history, grids, faults>>

\* The columns of a profile of the network: zone ids for demand, names otherwise.
Extracted(p, k) ==
    LET zones == DOMAIN job[p].zone2id
    IN  IF k = "demand"
        THEN [i \in {job[p].zone2id[z] : z \in zones} |->
                CHOOSE z \in zones : job[p].zone2id[z] = i]
        ELSE [z \in zones |-> z]

\* ProfileInput.upload: data_access.write refuses a file that exists.
BeginUpload(p) ==
    /\ At(p, "upload")
    /\ \/ \E k \in job[p].missing :
            IF profiles[k] = None
            THEN job' = [job EXCEPT ![p].ask = {k}, ![p].pc = "put"]
            ELSE Raise(p)
       \/ job[p].missing = {} /\ Goto(p, "cache")
    /\ UNCHANGED <<disk, profiles, cache, history, grids, faults>>

EndUpload(p) ==
    /\ At(p, "put")
    /\ \E k \in job[p].ask :
         /\ profiles' = [profiles EXCEPT ![k] = Extracted(p, k)]
         /\ job' = [job EXCEPT ![p].missing = @ \ {k}, ![p].ask = {}, ![p].pc = "upload"]
    /\ UNCHANGED <<disk, cache, history, grids, faults>>

\* The grid is complete: its network, as filtered, goes into the cache.
CachePut(p) ==
    /\ At(p, "cache")
    /\ cache' = [cache EXCEPT ![p][job[p].interconnect] = job[p].network]
    /\ Raise(p)
    /\ UNCHANGED <<disk, profiles, history, grids, faults>>

-----------------------------------------------------------------------------
(* Faults. *)

\* A request to zenodo.org fails before or during the transfer.
RequestFails(p) ==
    /\ At(p, "record") \/ At(p, "open") \/ At(p, "write")
    /\ faults < MaxFaults /\ faults' = faults + 1
    /\ writer' = [f \in FileNames |-> IF writer[f] = p THEN None ELSE writer[f]]
    /\ Raise(p)
    /\ UNCHANGED <<dir, raw, unpacked, unpacker, profiles, cache, history, grids>>

\* The process dies; its memory is lost and what it wrote stays.
Crash(p) ==
    /\ faults < MaxFaults /\ faults' = faults + 1
    /\ writer' = [f \in FileNames |-> IF writer[f] = p THEN None ELSE writer[f]]
    /\ unpacker' = [f \in FileNames |-> IF unpacker[f] = p THEN None ELSE unpacker[f]]
    /\ torn' = IF At(p, "unzip") \/ At(p, "unzipping") THEN torn \cup {File(p)} ELSE torn
    /\ Raise(p)
    /\ cache' = [cache EXCEPT ![p] = [c \in Interconnects |-> None]]
    /\ UNCHANGED <<dir, raw, unpacked, profiles, alone, raced, grids>>

\* A step of the program itself.
Step(p) ==
    \/ GetRecord(p) \/ MkDir(p) \/ CompareChecksum(p) \/ OsRemove(p) \/ RmTree(p)
    \/ OpenFile(p) \/ CloseFile(p) \/ BeginUnzip(p) \/ EndUnzip(p) \/ GetNetwork(p)
    \/ BuildEur(p) \/ ProfileExists(p) \/ BeginUpload(p) \/ EndUpload(p) \/ CachePut(p)

Next ==
    \E p \in Processes :
        \/ \E c \in Interconnects : NewGrid(p, c)
        \/ Step(p)
        \/ RequestFails(p)
        \/ Crash(p)

\* A running program takes its next step; nothing makes a user ask for a grid,
\* and nothing makes a fault happen.
Fairness == \A p \in Processes : WF_vars(Step(p))

Spec == Init /\ [][Next]_vars /\ Fairness

-----------------------------------------------------------------------------
(* Properties *)

TypeOK ==
    /\ dir \in BOOLEAN /\ raced \in BOOLEAN
    /\ raw \in [FileNames -> Extent] /\ unpacked \in [FileNames -> Extent]
    /\ writer \in [FileNames -> Processes \cup {None}]
    /\ unpacker \in [FileNames -> Processes \cup {None}]
    /\ DOMAIN profiles = Kinds
    /\ \A p \in Processes : job[p].pc \in Phases /\ job[p].i \in 0 .. Len(Files)
    /\ alone \in [Processes -> BOOLEAN] /\ torn \subseteq Archives
    /\ grids \in 0 .. MaxGrids /\ faults \in 0 .. MaxFaults

\* When load_data returns to a process that was at work alone, every file of the
\* record is complete, and every archive is unpacked completely unless an earlier
\* process died between the download and the end of the unpacking (load_data of
\* zenodo.py compares the checksum of the archive, not what was unpacked), or two
\* processes have once been at work in the directory together.
LoadedAloneIsComplete ==
    \A p \in Processes :
        At(p, "network") /\ alone[p] =>
            \A f \in FileNames :
                /\ raw[f] = "full"
                /\ f \in Archives => unpacked[f] = "full" \/ f \in torn \/ raced

\* The demand profile that _extract_profiles uploads is always numbered like the
\* loads of the full network, whichever interconnect was built first and whatever
\* was cached: a network that has been filtered and cached, which build_eur numbers
\* differently when it is built again, is never the one that is uploaded.
UploadedIdsAreCanonical ==
    profiles["demand"] # None =>
        \A i \in DOMAIN profiles["demand"] : profiles["demand"][i] = Loads[i + 1]

\* The processes that will still create file f: those that download all files and
\* have not come to f, and those that have removed it to download it again.
WillCreate(p, f) ==
    \/ At(p, "mkdir") /\ ~ dir
    \/ /\ Working(p) /\ ~ job[p].repair /\ job[p].i > 0
       /\ job[p].pc \in {"open", "write", "unzip", "unzipping"}
       /\ \E i \in job[p].i .. Len(Files) :
            Files[i] = f /\ (i = job[p].i => At(p, "open"))
    \/ job[p].repair /\ File(p) = f /\ job[p].pc \in {"rmtree", "open"}

Lost(f) == dir /\ raw[f] = "none" /\ \A p \in Processes : ~ WillCreate(p, f)

\* Once the directory exists, a file is missing and no process is on the way to
\* creating it, it is missing for ever: every later load_data finds the checksum
\* "invalid" and fails in os.remove.
MissingFileIsPermanent == [][\A f \in FileNames : Lost(f) => Lost(f)']_vars

\* Every Grid() ends, with a grid, an exception or the end of the process: the loop
\* over the files and the uploads come to an end whatever the other processes do.
GridTerminates == \A p \in Processes : Working(p) ~> ~ Working(p)
=============================================================================
