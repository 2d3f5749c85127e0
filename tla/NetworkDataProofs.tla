------------------------- MODULE NetworkDataProofs --------------------------
(***************************************************************************)
(* TLAPS proofs about NetworkData, for any processes, record of files,     *)
(* network, interconnects, kinds of profile and number of faults: the      *)
(* types and the places of the processes in load_data, then the data       *)
(* directory, then the profiles that are uploaded.                         *)
(***************************************************************************)
EXTENDS NetworkData, TLAPS

\* Most leaves are first-order; those that need arithmetic, functions or records say SMT.
USE Zenon

-----------------------------------------------------------------------------
(* Types *)

Fields == {"pc", "interconnect", "i", "repair", "network", "zone2id", "ask", "missing"}

\* The phases of the loop over the files of the record.
InLoop == {"check", "remove", "rmtree", "open", "write", "unzip", "unzipping"}

\* What a process knows of its place in load_data: the file it is at, that it has
\* found the directory if it compares or deletes, and that it unpacks or deletes
\* a directory only for an archive.
JobOK(j) ==
    /\ DOMAIN j = Fields
    /\ j.interconnect \in Interconnects
    /\ j.pc \in Phases /\ j.repair \in BOOLEAN /\ j.i \in 0 .. Len(Files)
    /\ j.pc \in InLoop => j.i >= 1
    /\ j.pc \in {"rmtree", "unzip", "unzipping"} => Files[j.i] \in Archives
    /\ j.pc \in {"check", "remove", "rmtree"} => j.repair

JobsOK ==
    /\ DOMAIN job = Processes
    /\ \A p \in Processes : JobOK(job[p])

\* Nothing but the phase changes.
LEMMA GotoEffect ==
  ASSUME JobsOK, NEW p \in Processes, NEW phase, Goto(p, phase)
  PROVE  /\ DOMAIN job' = Processes
         /\ \A q \in Processes \ {p} : job'[q] = job[q]
         /\ DOMAIN job'[p] = Fields
         /\ job'[p].pc = phase
         /\ job'[p].interconnect = job[p].interconnect
         /\ job'[p].i = job[p].i
         /\ job'[p].repair = job[p].repair
         /\ job'[p].network = job[p].network
         /\ job'[p].zone2id = job[p].zone2id
         /\ job'[p].ask = job[p].ask
         /\ job'[p].missing = job[p].missing
  BY DEF JobsOK, JobOK, Goto, Fields

\* The job is over.
LEMMA RaiseEffect ==
  ASSUME JobsOK, NEW p \in Processes, Raise(p)
  PROVE  /\ DOMAIN job' = Processes
         /\ \A q \in Processes \ {p} : job'[q] = job[q]
         /\ job'[p] = Idle
         /\ DOMAIN Idle = Fields
  BY DEF JobsOK, JobOK, Raise, Fields, Idle

\* The next file, or the end of the loop.
LEMMA NextFileEffect ==
  ASSUME JobsOK, NEW p \in Processes, NextFile(p)
  PROVE  /\ DOMAIN job' = Processes
         /\ \A q \in Processes \ {p} : job'[q] = job[q]
         /\ DOMAIN job'[p] = Fields
         /\ job'[p].repair = job[p].repair
         /\ job'[p].interconnect = job[p].interconnect
         /\ \/ /\ job[p].i < Len(Files)
               /\ job'[p].i = job[p].i + 1
               /\ job'[p].pc = FirstPhase(job[p].repair)
            \/ /\ job[p].i = Len(Files)
               /\ job'[p].i = job[p].i
               /\ job'[p].pc = "network"
  BY NetworkDataAssumption, SMT DEF JobsOK, JobOK, NextFile, Fields

-----------------------------------------------------------------------------
(* Types *)

\* The types, with the places of the processes in load_data.
TypeInv == TypeOK /\ JobsOK

\* The files of the record have names.
LEMMA FilesType ==
  /\ Len(Files) \in Nat /\ Len(Files) >= 1
  /\ \A n \in 1..Len(Files) : Files[n] \in FileNames
  /\ \A f \in FileNames : \E n \in 1..Len(Files) : Files[n] = f
  /\ \A m, n \in 1..Len(Files) : Files[m] = Files[n] => m = n
  BY NetworkDataAssumption, SMT DEF FileNames, Range, IsInjective

\* A job that has not begun or is over.
LEMMA IdleOK == JobOK(Idle)
  BY FilesType, NetworkDataAssumption, SMT DEF JobOK, Idle, Fields, InLoop, Phases

\* At first there is no directory and no process is at work.
LEMMA InitTypeInv == Init => TypeInv
<1> SUFFICES ASSUME Init PROVE TypeInv
  OBVIOUS
<1>1. JobsOK
  BY IdleOK DEF Init, JobsOK
<1>2. \A p \in Processes : job[p].pc \in Phases /\ job[p].i \in 0 .. Len(Files)
  BY <1>1 DEF JobsOK, JobOK
<1>3. dir \in BOOLEAN /\ raced \in BOOLEAN /\ alone \in [Processes -> BOOLEAN]
  BY Zenon DEF Init
<1>4. /\ raw \in [FileNames -> Extent] /\ unpacked \in [FileNames -> Extent]
      /\ writer \in [FileNames -> Processes \cup {None}]
      /\ unpacker \in [FileNames -> Processes \cup {None}]
      /\ DOMAIN profiles = Kinds /\ torn \subseteq Archives
  BY DEF Init, Extent
<1>5. grids \in 0 .. MaxGrids /\ faults \in 0 .. MaxFaults
  BY NetworkDataAssumption, SMT DEF Init
<1> QED  BY <1>1, <1>2, <1>3, <1>4, <1>5 DEF TypeInv, TypeOK

\* A step of p alone changes the job of p.
Only(p) == DOMAIN job' = Processes /\ \A q \in Processes \ {p} : job'[q] = job[q]

\* It is enough to look at the job of p, and at the variables that change.
LEMMA TypeStep ==
  ASSUME TypeInv, NEW p \in Processes, Only(p), JobOK(job'[p]),
         dir' \in BOOLEAN, raced' \in BOOLEAN,
         raw' \in [FileNames -> Extent], unpacked' \in [FileNames -> Extent],
         writer' \in [FileNames -> Processes \cup {None}],
         unpacker' \in [FileNames -> Processes \cup {None}],
         DOMAIN profiles' = Kinds,
         alone' \in [Processes -> BOOLEAN], torn' \subseteq Archives,
         grids' \in 0 .. MaxGrids, faults' \in 0 .. MaxFaults
  PROVE  TypeInv'
<1>1. JobsOK'
  BY DEF TypeInv, JobsOK, JobOK, Only
<1>2. (\A q \in Processes : job[q].pc \in Phases /\ job[q].i \in 0 .. Len(Files))'
  BY <1>1 DEF JobsOK, JobOK
<1> QED  BY <1>1, <1>2 DEF TypeInv, TypeOK

\* The variables of TypeOK other than the jobs, for steps that leave them alone.
LEMMA TypeFacts ==
  ASSUME TypeInv
  PROVE  /\ dir \in BOOLEAN /\ raced \in BOOLEAN
         /\ raw \in [FileNames -> Extent] /\ unpacked \in [FileNames -> Extent]
         /\ writer \in [FileNames -> Processes \cup {None}]
         /\ unpacker \in [FileNames -> Processes \cup {None}]
         /\ DOMAIN profiles = Kinds
         /\ alone \in [Processes -> BOOLEAN] /\ torn \subseteq Archives
         /\ grids \in 0 .. MaxGrids /\ faults \in 0 .. MaxFaults
         /\ JobsOK /\ \A p \in Processes : JobOK(job[p])
  BY DEF TypeInv, TypeOK, JobsOK

\* The file that a process in the loop is at.
LEMMA FileType ==
  ASSUME TypeInv, NEW p \in Processes, job[p].pc \in InLoop
  PROVE  File(p) \in FileNames /\ job[p].i \in 1..Len(Files)
  BY TypeFacts, FilesType, SMT DEF JobOK, File

\* The next file is a place in the loop, too.
LEMMA NextFileType ==
  ASSUME TypeInv, NEW p \in Processes, NextFile(p)
  PROVE  Only(p) /\ JobOK(job'[p])
<1>1. JobsOK /\ JobOK(job[p])
  BY TypeFacts
<1> QED  BY <1>1, NextFileEffect, FilesType, SMTT(20)
            DEF Only, JobOK, FirstPhase, InLoop, Phases

\* A job that is over is in order.
LEMMA RaiseType ==
  ASSUME TypeInv, NEW p \in Processes, Raise(p)
  PROVE  Only(p) /\ job'[p] = Idle /\ JobOK(job'[p])
  BY TypeFacts, RaiseEffect, IdleOK DEF Only

\* Moving to a phase that the place in the loop allows.
LEMMA GotoType ==
  ASSUME TypeInv, NEW p \in Processes, NEW phase \in Phases, Goto(p, phase),
         phase \in InLoop => job[p].i >= 1,
         phase \in {"rmtree", "unzip", "unzipping"} => File(p) \in Archives,
         phase \in {"check", "remove", "rmtree"} => job[p].repair
  PROVE  Only(p) /\ JobOK(job'[p])
<1>1. JobsOK /\ JobOK(job[p])
  BY TypeFacts
<1> QED  BY <1>1, GotoEffect, SMT DEF Only, JobOK, File

\* A new job, from the cache or from the record.
LEMMA NewGridType ==
  ASSUME TypeInv, NEW p \in Processes, NEW c \in Interconnects, NewGrid(p, c)
  PROVE  TypeInv' /\ Only(p)
<1>1. Only(p) /\ JobOK(job'[p])
  BY TypeFacts, IdleOK, SMT
     DEF NewGrid, Only, JobsOK, JobOK, Idle, Fields, InLoop, Phases
<1>2. raced' \in BOOLEAN
  BY Zenon DEF NewGrid
<1>3. alone' \in [Processes -> BOOLEAN]
  <2>1. PICK others : alone' = [q \in Processes |->
                          IF q = p THEN others = {} ELSE alone[q] /\ q \notin others]
    BY DEF NewGrid
  <2> QED  BY <2>1, Zenon
<1>4. grids' \in 0 .. MaxGrids
  BY TypeFacts, NetworkDataAssumption, SMT DEF NewGrid
<1> QED  BY <1>1, <1>2, <1>3, <1>4, TypeFacts, TypeStep DEF NewGrid, disk

\* The record is fetched.
LEMMA GetRecordType ==
  ASSUME TypeInv, NEW p \in Processes, GetRecord(p)
  PROVE  TypeInv' /\ Only(p)
<1>1. Only(p) /\ JobOK(job'[p])
  BY GotoType DEF GetRecord, Phases, InLoop
<1> QED  BY <1>1, TypeFacts, TypeStep DEF GetRecord, disk, history

\* The directory exists, and the first file is next.
LEMMA MkDirType ==
  ASSUME TypeInv, NEW p \in Processes, MkDir(p)
  PROVE  TypeInv' /\ Only(p)
<1>1. Only(p) /\ JobOK(job'[p])
  BY TypeFacts, FilesType, SMT
     DEF MkDir, Only, JobsOK, JobOK, FirstPhase, Fields, InLoop, Phases
<1> QED  BY <1>1, TypeFacts, TypeStep DEF MkDir, history

\* A file is skipped, or is to be deleted.
LEMMA CompareChecksumType ==
  ASSUME TypeInv, NEW p \in Processes, CompareChecksum(p)
  PROVE  TypeInv' /\ Only(p)
<1>1. Only(p) /\ JobOK(job'[p])
  BY GotoType, NextFileType, TypeFacts DEF CompareChecksum, At, JobOK, Phases, InLoop
<1> QED  BY <1>1, TypeFacts, TypeStep DEF CompareChecksum, disk, history

\* The file is gone, or the call raises.
LEMMA OsRemoveType ==
  ASSUME TypeInv, NEW p \in Processes, OsRemove(p)
  PROVE  TypeInv' /\ Only(p)
<1>1. File(p) \in FileNames /\ JobOK(job[p]) /\ job[p].pc = "remove"
  BY FileType, TypeFacts DEF OsRemove, At, InLoop
<1>2. Only(p) /\ JobOK(job'[p])
  BY <1>1, GotoType, RaiseType DEF OsRemove, JobOK, Phases, InLoop
<1>3. raw' \in [FileNames -> Extent] /\ writer' \in [FileNames -> Processes \cup {None}]
  BY <1>1, TypeFacts DEF OsRemove, Extent
<1> QED  BY <1>2, <1>3, TypeFacts, TypeStep DEF OsRemove, history

\* The directory of an archive is gone, or the call raises.
LEMMA RmTreeType ==
  ASSUME TypeInv, NEW p \in Processes, RmTree(p)
  PROVE  TypeInv' /\ Only(p)
<1>1. File(p) \in FileNames /\ JobOK(job[p]) /\ job[p].pc = "rmtree"
  BY FileType, TypeFacts DEF RmTree, At, InLoop
<1>2. Only(p) /\ JobOK(job'[p])
  BY <1>1, GotoType, RaiseType DEF RmTree, JobOK, Phases, InLoop
<1>3. /\ unpacked' \in [FileNames -> Extent]
      /\ unpacker' \in [FileNames -> Processes \cup {None}]
  BY <1>1, TypeFacts DEF RmTree, Extent
<1> QED  BY <1>2, <1>3, TypeFacts, TypeStep DEF RmTree, history

\* A file is opened for writing.
LEMMA OpenFileType ==
  ASSUME TypeInv, NEW p \in Processes, OpenFile(p)
  PROVE  TypeInv' /\ Only(p)
<1>1. File(p) \in FileNames /\ JobOK(job[p]) /\ job[p].pc = "open"
  BY FileType, TypeFacts DEF OpenFile, At, InLoop
<1>2. Only(p) /\ JobOK(job'[p])
  BY <1>1, GotoType DEF OpenFile, JobOK, Phases, InLoop
<1>3. raw' \in [FileNames -> Extent] /\ writer' \in [FileNames -> Processes \cup {None}]
  BY <1>1, TypeFacts DEF OpenFile, Extent
<1> QED  BY <1>2, <1>3, TypeFacts, TypeStep DEF OpenFile, history

\* A file is written to the end.
LEMMA CloseFileType ==
  ASSUME TypeInv, NEW p \in Processes, CloseFile(p)
  PROVE  TypeInv' /\ Only(p)
<1>1. File(p) \in FileNames /\ JobOK(job[p]) /\ job[p].pc = "write"
  BY FileType, TypeFacts DEF CloseFile, At, InLoop
<1>2. Only(p) /\ JobOK(job'[p])
  BY <1>1, GotoType, NextFileType DEF CloseFile, JobOK, Phases, InLoop
<1>3. raw' \in [FileNames -> Extent] /\ writer' \in [FileNames -> Processes \cup {None}]
  BY <1>1, TypeFacts DEF CloseFile, Extent
<1> QED  BY <1>2, <1>3, TypeFacts, TypeStep DEF CloseFile, history

\* An archive is opened, or the call raises.
LEMMA BeginUnzipType ==
  ASSUME TypeInv, NEW p \in Processes, BeginUnzip(p)
  PROVE  TypeInv' /\ Only(p)
<1>1. File(p) \in FileNames /\ JobOK(job[p]) /\ job[p].pc = "unzip"
  BY FileType, TypeFacts DEF BeginUnzip, At, InLoop
<1>2. Only(p) /\ JobOK(job'[p])
  BY <1>1, GotoType, RaiseType DEF BeginUnzip, JobOK, Phases, InLoop, File
<1>3. /\ unpacked' \in [FileNames -> Extent]
      /\ unpacker' \in [FileNames -> Processes \cup {None}]
  BY <1>1, TypeFacts DEF BeginUnzip, Extent
<1> QED  BY <1>2, <1>3, TypeFacts, TypeStep DEF BeginUnzip, history

\* An archive is unpacked to the end.
LEMMA EndUnzipType ==
  ASSUME TypeInv, NEW p \in Processes, EndUnzip(p)
  PROVE  TypeInv' /\ Only(p)
<1>1. File(p) \in FileNames
  BY FileType DEF EndUnzip, At, InLoop
<1>2. Only(p) /\ JobOK(job'[p])
  BY NextFileType DEF EndUnzip
<1>3. /\ unpacked' \in [FileNames -> Extent]
      /\ unpacker' \in [FileNames -> Processes \cup {None}]
  BY <1>1, TypeFacts DEF EndUnzip, Extent
<1> QED  BY <1>2, <1>3, TypeFacts, TypeStep DEF EndUnzip, history

\* The network is read, or the call raises.
LEMMA GetNetworkType ==
  ASSUME TypeInv, NEW p \in Processes, GetNetwork(p)
  PROVE  TypeInv' /\ Only(p)
<1>1. Only(p) /\ JobOK(job'[p])
  <2>1. CASE Raise(p)
    BY <2>1, RaiseType
  <2>2. CASE job' = [job EXCEPT ![p].network = Loads, ![p].pc = "number"]
    BY <2>2, TypeFacts DEF Only, JobsOK, JobOK, Fields, InLoop, Phases
  <2> QED  BY <2>1, <2>2 DEF GetNetwork
<1> QED  BY <1>1, TypeFacts, TypeStep DEF GetNetwork, disk, history

\* The loads are numbered.
LEMMA BuildEurType ==
  ASSUME TypeInv, NEW p \in Processes, BuildEur(p)
  PROVE  TypeInv' /\ Only(p)
<1>1. Only(p) /\ JobOK(job'[p])
  <2>1. PICK network, zone2id :
          job' = [job EXCEPT ![p].network = network, ![p].zone2id = zone2id,
                             ![p].ask = Kinds, ![p].missing = {}, ![p].pc = "exists"]
    BY DEF BuildEur
  <2> QED  BY <2>1, TypeFacts, SMT DEF Only, JobsOK, JobOK, Fields, InLoop, Phases
<1> QED  BY <1>1, TypeFacts, TypeStep DEF BuildEur, disk, history

\* One more kind of profile has been looked for.
LEMMA ProfileExistsType ==
  ASSUME TypeInv, NEW p \in Processes, ProfileExists(p)
  PROVE  TypeInv' /\ Only(p)
<1>1. Only(p) /\ JobOK(job'[p])
  <2>1. CASE Goto(p, "upload")
    BY <2>1, GotoType DEF InLoop, Phases
  <2>2. CASE ~ Goto(p, "upload")
    <3>1. PICK k, missing : job' = [job EXCEPT ![p].ask = @ \ {k}, ![p].missing = missing]
      BY <2>2 DEF ProfileExists
    <3>2. job[p].pc = "exists"
      BY DEF ProfileExists, At
    <3> QED  BY <3>1, <3>2, TypeFacts DEF Only, JobsOK, JobOK, Fields, InLoop, Phases
  <2> QED  BY <2>1, <2>2
<1> QED  BY <1>1, TypeFacts, TypeStep DEF ProfileExists, disk, history

\* An upload begins, or the call raises, or nothing is left to upload.
LEMMA BeginUploadType ==
  ASSUME TypeInv, NEW p \in Processes, BeginUpload(p)
  PROVE  TypeInv' /\ Only(p)
<1>1. Only(p) /\ JobOK(job'[p])
  <2>1. CASE Goto(p, "cache")
    BY <2>1, GotoType DEF InLoop, Phases
  <2>2. CASE Raise(p)
    BY <2>2, RaiseType
  <2>3. CASE \E k \in job[p].missing : job' = [job EXCEPT ![p].ask = {k}, ![p].pc = "put"]
    BY <2>3, TypeFacts, SMT DEF Only, JobsOK, JobOK, Fields, InLoop, Phases
  <2> QED  BY <2>1, <2>2, <2>3 DEF BeginUpload
<1> QED  BY <1>1, TypeFacts, TypeStep DEF BeginUpload, disk, history

\* An upload ends.
LEMMA EndUploadType ==
  ASSUME TypeInv, NEW p \in Processes, EndUpload(p)
  PROVE  TypeInv' /\ Only(p)
<1>1. PICK k \in job[p].ask :
        /\ profiles' = [profiles EXCEPT ![k] = Extracted(p, k)]
        /\ job' = [job EXCEPT ![p].missing = @ \ {k}, ![p].ask = {}, ![p].pc = "upload"]
  BY DEF EndUpload
<1>2. Only(p) /\ JobOK(job'[p])
  BY <1>1, TypeFacts DEF Only, JobsOK, JobOK, Fields, InLoop, Phases
<1>3. DOMAIN profiles' = Kinds
  BY <1>1, TypeFacts
<1> QED  BY <1>2, <1>3, TypeFacts, TypeStep DEF EndUpload, disk, history

\* The grid is complete.
LEMMA CachePutType ==
  ASSUME TypeInv, NEW p \in Processes, CachePut(p)
  PROVE  TypeInv' /\ Only(p)
<1>1. Only(p) /\ JobOK(job'[p])
  BY RaiseType DEF CachePut
<1> QED  BY <1>1, TypeFacts, TypeStep DEF CachePut, disk, history

\* A request fails.
LEMMA RequestFailsType ==
  ASSUME TypeInv, NEW p \in Processes, RequestFails(p)
  PROVE  TypeInv' /\ Only(p)
<1>1. Only(p) /\ JobOK(job'[p])
  BY RaiseType DEF RequestFails
<1>2. writer' \in [FileNames -> Processes \cup {None}]
  BY TypeFacts DEF RequestFails
<1>3. faults' \in 0 .. MaxFaults
  BY TypeFacts, NetworkDataAssumption, SMT DEF RequestFails
<1> QED  BY <1>1, <1>2, <1>3, TypeFacts, TypeStep DEF RequestFails, history

\* A process dies.
LEMMA CrashType ==
  ASSUME TypeInv, NEW p \in Processes, Crash(p)
  PROVE  TypeInv' /\ Only(p)
<1>1. Only(p) /\ JobOK(job'[p])
  BY RaiseType DEF Crash
<1>2. /\ writer' \in [FileNames -> Processes \cup {None}]
      /\ unpacker' \in [FileNames -> Processes \cup {None}]
  BY TypeFacts DEF Crash
<1>3. torn' \subseteq Archives
  BY TypeFacts DEF Crash, At, File, JobOK
<1>4. faults' \in 0 .. MaxFaults
  BY TypeFacts, NetworkDataAssumption, SMT DEF Crash
<1> QED  BY <1>1, <1>2, <1>3, <1>4, TypeFacts, TypeStep DEF Crash

\* Every step keeps the types, and is a step of one process.
LEMMA NextType ==
  ASSUME TypeInv, Next
  PROVE  TypeInv'
  BY NewGridType, GetRecordType, MkDirType, CompareChecksumType, OsRemoveType,
     RmTreeType, OpenFileType, CloseFileType, BeginUnzipType, EndUnzipType,
     GetNetworkType, BuildEurType, ProfileExistsType, BeginUploadType, EndUploadType,
     CachePutType, RequestFailsType, CrashType DEF Next, Step

\* Nothing else changes the types.
LEMMA InductiveTypes == (Init => TypeInv) /\ (TypeInv /\ [Next]_vars => TypeInv')
<1>1. ASSUME TypeInv, UNCHANGED vars  PROVE TypeInv'
  BY <1>1 DEF vars, disk, history, TypeInv, TypeOK, JobsOK, JobOK
<1> QED  BY <1>1, InitTypeInv, NextType

\* The files, the jobs and the counters are what they are meant to be, and the
\* loop over the files never runs past the last one.
THEOREM TypeCorrect == Spec => []TypeOK
<1>1. TypeInv => TypeOK
  BY DEF TypeInv
<1> QED  BY <1>1, InductiveTypes, PTL DEF Spec

-----------------------------------------------------------------------------
(* The directory *)

Unzipping == {"unzip", "unzipping"}

\* A process that has been alone since its job began finds on disk what it wrote:
\* the files that it has left behind are complete, and nobody has touched the one
\* that it is at.
LoadOK(p) ==
    /\ job[p].pc \in InLoop => \A n \in 1 .. job[p].i - 1 : raw[Files[n]] = "full"
    /\ At(p, "network") => \A f \in FileNames : raw[f] = "full"
    /\ At(p, "rmtree") => raw[File(p)] # "full"
    /\ At(p, "write") => writer[File(p)] = p
    /\ job[p].pc \in Unzipping => raw[File(p)] = "full"
    /\ At(p, "unzipping") => unpacker[File(p)] = p

\* A complete archive is unpacked, or is being unpacked, unless a process died
\* before that or two of them met.
UnpackedOK(f) ==
    \/ unpacked[f] = "full" \/ f \in torn \/ raced
    \/ \E p \in Processes : job[p].pc \in Unzipping /\ File(p) = f

WritersOK == \A f \in FileNames : writer[f] # None => raw[f] = "partial"

\* What alone and raced say of the processes at work.
MeetingsOK ==
    /\ \A p \in Processes : raced \/ alone[p]
    /\ \A p, q \in Processes : p # q /\ Working(p) /\ Working(q) => raced /\ ~ alone[p]

DiskInv ==
    /\ WritersOK
    /\ MeetingsOK
    /\ \A p \in Processes : alone[p] => LoadOK(p)
    /\ \A f \in Archives : raw[f] = "full" => UnpackedOK(f)

\* The directory is not there at first.
LEMMA InitDiskInv == Init => DiskInv
<1> SUFFICES ASSUME Init PROVE DiskInv
  OBVIOUS
<1>1. \A p \in Processes : job[p].pc = "idle"
  BY DEF Init, Idle
<1>2. WritersOK
  BY DEF Init, WritersOK
<1>3. MeetingsOK
  BY <1>1 DEF Init, MeetingsOK, Working, At
<1>4. \A p \in Processes : LoadOK(p)
  BY <1>1 DEF LoadOK, At, InLoop, Unzipping
<1>5. \A f \in Archives : raw[f] # "full"
  BY NetworkDataAssumption DEF Init, FileNames
<1> QED  BY <1>2, <1>3, <1>4, <1>5 DEF DiskInv

\* A step of a process at work: the others that are alone are idle, and so it is
\* enough to look at this one.
LEMMA DiskStep ==
  ASSUME TypeInv, DiskInv, NEW p \in Processes, Only(p), Working(p),
         UNCHANGED <<alone, raced>>, WritersOK', alone[p] => LoadOK(p)',
         ~ raced => \A f \in Archives : raw'[f] = "full" =>
             \/ unpacked'[f] = "full" \/ f \in torn'
             \/ job'[p].pc \in Unzipping /\ File(p)' = f
  PROVE  DiskInv'
<1>1. ASSUME NEW q \in Processes, q # p, alone[q]
      PROVE  job'[q] = job[q] /\ job[q].pc = "idle"
  BY <1>1 DEF DiskInv, MeetingsOK, Only, Working, At
<1>2. MeetingsOK'
  <2>1. \A q \in Processes : raced' \/ alone'[q]
    BY DEF DiskInv, MeetingsOK
  <2>2. ASSUME NEW q \in Processes, NEW r \in Processes, q # r, Working(q)', Working(r)'
        PROVE  raced' /\ ~ alone'[q]
    <3>1. Working(q) /\ Working(r)
      BY <2>2 DEF Only, Working, At
    <3> QED  BY <2>2, <3>1 DEF DiskInv, MeetingsOK
  <2> QED  BY <2>1, <2>2 DEF MeetingsOK
<1>3. ASSUME NEW q \in Processes, alone'[q]  PROVE LoadOK(q)'
  <2>1. CASE q = p
    BY <1>3, <2>1
  <2>2. CASE q # p
    <3>1. job'[q].pc = "idle"
      BY <1>1, <1>3, <2>2
    <3> QED  BY <3>1 DEF LoadOK, At, InLoop, Unzipping
  <2> QED  BY <2>1, <2>2
<1>4. ASSUME NEW f \in Archives, raw'[f] = "full"  PROVE UnpackedOK(f)'
  BY <1>4 DEF UnpackedOK
<1> QED  BY <1>2, <1>3, <1>4 DEF DiskInv

\* An archive that is complete while p is the only one at work.
LEMMA AloneUnpacked ==
  ASSUME DiskInv, NEW p \in Processes, Working(p), ~ raced,
         NEW f \in Archives, raw[f] = "full"
  PROVE  \/ unpacked[f] = "full" \/ f \in torn
         \/ job[p].pc \in Unzipping /\ File(p) = f
  BY DEF DiskInv, MeetingsOK, UnpackedOK, Working, At, Unzipping

\* A step that leaves the directory alone and is not at a file of the loop after
\* it, or at the first one.
LEMMA QuietStep ==
  ASSUME TypeInv, DiskInv, NEW p \in Processes, Only(p), Working(p),
         UNCHANGED <<raw, writer, unpacked, torn, alone, raced>>,
         job[p].pc \notin Unzipping,
         \/ job'[p].pc \notin InLoop \cup {"network"}
         \/ job'[p].pc \in {"check", "open"} /\ job'[p].i = 1
  PROVE  DiskInv'
<1>1. WritersOK'
  BY DEF DiskInv, WritersOK
<1>2. LoadOK(p)'
  BY SMT DEF LoadOK, At, InLoop, Unzipping
<1>3. ASSUME ~ raced, NEW f \in Archives, raw'[f] = "full"
      PROVE  unpacked'[f] = "full" \/ f \in torn'
  BY <1>3, AloneUnpacked
<1> QED  BY <1>1, <1>2, <1>3, DiskStep

\* The record is fetched.
LEMMA GetRecordDisk ==
  ASSUME TypeInv, DiskInv, NEW p \in Processes, GetRecord(p)
  PROVE  DiskInv'
<1>1. Only(p)
  BY GetRecordType
<1>2. job'[p].pc = "mkdir"
  BY TypeFacts, GotoEffect DEF GetRecord
<1> QED  BY <1>1, <1>2, QuietStep
            DEF GetRecord, disk, history, At, Working, InLoop, Unzipping

\* The first file is next.
LEMMA MkDirDisk ==
  ASSUME TypeInv, DiskInv, NEW p \in Processes, MkDir(p)
  PROVE  DiskInv'
<1>1. Only(p)
  BY MkDirType
<1>2. job'[p].pc \in {"check", "open"} /\ job'[p].i = 1
  BY TypeFacts DEF MkDir, JobsOK, JobOK, Fields, FirstPhase
<1> QED  BY <1>1, <1>2, QuietStep
            DEF MkDir, disk, history, At, Working, InLoop, Unzipping

\* The network is read, or the call raises.
LEMMA GetNetworkDisk ==
  ASSUME TypeInv, DiskInv, NEW p \in Processes, GetNetwork(p)
  PROVE  DiskInv'
<1>1. Only(p)
  BY GetNetworkType
<1>2. job'[p].pc \in {"idle", "number"}
  BY TypeFacts, RaiseEffect, SMT DEF GetNetwork, JobsOK, JobOK, Fields, Idle
<1> QED  BY <1>1, <1>2, QuietStep
            DEF GetNetwork, disk, history, At, Working, InLoop, Unzipping

\* The loads are numbered.
LEMMA BuildEurDisk ==
  ASSUME TypeInv, DiskInv, NEW p \in Processes, BuildEur(p)
  PROVE  DiskInv'
<1>1. Only(p)
  BY BuildEurType
<1>2. job'[p].pc = "exists"
  <2>1. PICK network, zone2id :
          job' = [job EXCEPT ![p].network = network, ![p].zone2id = zone2id,
                             ![p].ask = Kinds, ![p].missing = {}, ![p].pc = "exists"]
    BY DEF BuildEur
  <2> QED  BY <2>1, TypeFacts DEF JobsOK, JobOK, Fields
<1> QED  BY <1>1, <1>2, QuietStep
            DEF BuildEur, disk, history, At, Working, InLoop, Unzipping

\* One more kind of profile has been looked for.
LEMMA ProfileExistsDisk ==
  ASSUME TypeInv, DiskInv, NEW p \in Processes, ProfileExists(p)
  PROVE  DiskInv'
<1>1. Only(p)
  BY ProfileExistsType
<1>2. job'[p].pc \in {"exists", "upload"}
  <2>1. CASE Goto(p, "upload")
    BY <2>1, TypeFacts, GotoEffect
  <2>2. CASE ~ Goto(p, "upload")
    <3>1. PICK k, missing : job' = [job EXCEPT ![p].ask = @ \ {k}, ![p].missing = missing]
      BY <2>2 DEF ProfileExists
    <3>2. job[p].pc = "exists"
      BY DEF ProfileExists, At
    <3> QED  BY <3>1, <3>2, TypeFacts DEF JobsOK, JobOK, Fields
  <2> QED  BY <2>1, <2>2
<1> QED  BY <1>1, <1>2, QuietStep
            DEF ProfileExists, disk, history, At, Working, InLoop, Unzipping

\* An upload begins, or the call raises, or nothing is left to upload.
LEMMA BeginUploadDisk ==
  ASSUME TypeInv, DiskInv, NEW p \in Processes, BeginUpload(p)
  PROVE  DiskInv'
<1>1. Only(p)
  BY BeginUploadType
<1>2. job'[p].pc \in {"put", "idle", "cache"}
  <2>1. CASE Goto(p, "cache")
    BY <2>1, TypeFacts, GotoEffect
  <2>2. CASE Raise(p)
    BY <2>2, TypeFacts, RaiseEffect, SMT DEF Idle
  <2>3. CASE \E k \in job[p].missing : job' = [job EXCEPT ![p].ask = {k}, ![p].pc = "put"]
    BY <2>3, TypeFacts DEF JobsOK, JobOK, Fields
  <2> QED  BY <2>1, <2>2, <2>3 DEF BeginUpload
<1> QED  BY <1>1, <1>2, QuietStep
            DEF BeginUpload, disk, history, At, Working, InLoop, Unzipping

\* An upload ends.
LEMMA EndUploadDisk ==
  ASSUME TypeInv, DiskInv, NEW p \in Processes, EndUpload(p)
  PROVE  DiskInv'
<1>1. Only(p)
  BY EndUploadType
<1>2. job'[p].pc = "upload"
  BY TypeFacts, SMT DEF EndUpload, JobsOK, JobOK, Fields
<1> QED  BY <1>1, <1>2, QuietStep
            DEF EndUpload, disk, history, At, Working, InLoop, Unzipping

\* The grid is complete.
LEMMA CachePutDisk ==
  ASSUME TypeInv, DiskInv, NEW p \in Processes, CachePut(p)
  PROVE  DiskInv'
<1>1. Only(p)
  BY CachePutType
<1>2. job'[p].pc = "idle"
  BY TypeFacts, RaiseEffect, SMT DEF CachePut, Idle
<1> QED  BY <1>1, <1>2, QuietStep
            DEF CachePut, disk, history, At, Working, InLoop, Unzipping

\* After a file that is complete comes the next one.
LEMMA NextFileLoadOK ==
  ASSUME TypeInv, NEW p \in Processes, NextFile(p), job[p].pc \in InLoop,
         \A n \in 1 .. job[p].i : raw'[Files[n]] = "full"
  PROVE  LoadOK(p)' /\ job'[p].pc \notin Unzipping
<1>1. job[p].i \in 1..Len(Files)
  BY FileType
<1>2. CASE job[p].i < Len(Files)
  <2>1. job'[p].i = job[p].i + 1 /\ job'[p].pc \in {"check", "open"}
    BY <1>2, TypeFacts, NextFileEffect, SMT DEF FirstPhase
  <2>2. 1 .. job'[p].i - 1 = 1 .. job[p].i
    BY <1>1, <2>1, SMT
  <2> QED  BY <2>1, <2>2 DEF LoadOK, At, Unzipping
<1>3. CASE job[p].i = Len(Files)
  <2>1. job'[p].pc = "network"
    BY <1>3, TypeFacts, FilesType, NextFileEffect, SMT
  <2> QED  BY <1>3, <2>1, FilesType, SMT DEF LoadOK, At, InLoop, Unzipping
<1> QED  BY <1>1, <1>2, <1>3, SMT

\* The checksum is that of a complete file, or the file is to be deleted.
LEMMA CompareChecksumDisk ==
  ASSUME TypeInv, DiskInv, NEW p \in Processes, CompareChecksum(p)
  PROVE  DiskInv'
<1>1. Only(p) /\ Working(p) /\ job[p].pc = "check" /\ job[p].pc \in InLoop
  BY CompareChecksumType DEF CompareChecksum, Working, At, InLoop
<1>2. UNCHANGED <<raw, writer, unpacked, torn, alone, raced>>
  BY DEF CompareChecksum, disk, history
<1>3. WritersOK'
  BY <1>2 DEF DiskInv, WritersOK
<1>4. ASSUME alone[p]  PROVE LoadOK(p)'
  <2>1. \A n \in 1 .. job[p].i - 1 : raw[Files[n]] = "full"
    BY <1>1, <1>4 DEF DiskInv, LoadOK
  <2>2. CASE raw[File(p)] = "full"
    <3>1. \A n \in 1 .. job[p].i : raw'[Files[n]] = "full"
      BY <1>1, <1>2, <2>1, <2>2, FileType, SMT DEF File
    <3> QED  BY <1>1, <2>2, <3>1, NextFileLoadOK DEF CompareChecksum
  <2>3. CASE raw[File(p)] # "full"
    <3>1. job'[p].pc = "remove" /\ job'[p].i = job[p].i
      BY <2>3, TypeFacts, GotoEffect DEF CompareChecksum
    <3> QED  BY <1>2, <2>1, <3>1 DEF LoadOK, At, Unzipping
  <2> QED  BY <2>2, <2>3
<1>5. ASSUME ~ raced, NEW f \in Archives, raw'[f] = "full"
      PROVE  unpacked'[f] = "full" \/ f \in torn'
  BY <1>1, <1>2, <1>5, AloneUnpacked DEF Unzipping
<1> QED  BY <1>1, <1>2, <1>3, <1>4, <1>5, DiskStep

\* A file that is deleted is not one of those before it.
LEMMA EarlierFiles ==
  ASSUME TypeInv, NEW p \in Processes, job[p].pc \in InLoop,
         NEW n \in 1 .. job[p].i - 1
  PROVE  Files[n] \in FileNames /\ Files[n] # File(p)
  BY FileType, FilesType, SMTT(20) DEF File

\* The file is gone, or the call raises.
LEMMA OsRemoveDisk ==
  ASSUME TypeInv, DiskInv, NEW p \in Processes, OsRemove(p)
  PROVE  DiskInv'
<1>1. /\ Only(p) /\ Working(p) /\ job[p].pc = "remove" /\ job[p].pc \in InLoop
      /\ File(p) \in FileNames
  BY OsRemoveType, FileType DEF OsRemove, Working, At, InLoop
<1>2. UNCHANGED <<unpacked, torn, alone, raced>>
  BY DEF OsRemove, history
<1>3. CASE raw[File(p)] = "none"
  BY <1>1, <1>2, <1>3, TypeFacts, RaiseEffect, QuietStep, SMT
     DEF OsRemove, Idle, InLoop, Unzipping
<1>4. CASE raw[File(p)] # "none"
  <2>1. /\ raw' = [raw EXCEPT ![File(p)] = "none"]
        /\ writer' = [writer EXCEPT ![File(p)] = None]
        /\ job'[p].pc \in {"rmtree", "open"} /\ job'[p].i = job[p].i
    BY <1>4, TypeFacts, GotoEffect, SMT DEF OsRemove
  <2>2. WritersOK'
    BY <1>1, <2>1, TypeFacts DEF DiskInv, WritersOK
  <2>3. ASSUME alone[p]  PROVE LoadOK(p)'
    <3>1. \A n \in 1 .. job'[p].i - 1 : raw'[Files[n]] = "full"
      BY <1>1, <2>1, <2>3, TypeFacts, EarlierFiles DEF DiskInv, LoadOK
    <3>2. File(p)' = File(p) /\ raw'[File(p)] = "none"
      BY <1>1, <2>1, TypeFacts DEF File
    <3> QED  BY <2>1, <3>1, <3>2 DEF LoadOK, At, Unzipping
  <2>4. ASSUME ~ raced, NEW f \in Archives, raw'[f] = "full"
        PROVE  unpacked'[f] = "full" \/ f \in torn'
    <3>1. f \in FileNames
      BY NetworkDataAssumption DEF FileNames
    <3>2. raw[f] = "full"
      BY <2>1, <2>4, <3>1, TypeFacts
    <3> QED  BY <1>1, <1>2, <2>4, <3>2, AloneUnpacked DEF Unzipping
  <2> QED  BY <1>1, <1>2, <2>2, <2>3, <2>4, DiskStep
<1> QED  BY <1>3, <1>4

\* The directory of an archive is gone, or the call raises.
LEMMA RmTreeDisk ==
  ASSUME TypeInv, DiskInv, NEW p \in Processes, RmTree(p)
  PROVE  DiskInv'
<1>1. /\ Only(p) /\ Working(p) /\ job[p].pc = "rmtree" /\ job[p].pc \in InLoop
      /\ File(p) \in FileNames
  BY RmTreeType, FileType DEF RmTree, Working, At, InLoop
<1>2. UNCHANGED <<raw, writer, torn, alone, raced>>
  BY DEF RmTree, history
<1>3. CASE unpacked[File(p)] = "none"
  BY <1>1, <1>2, <1>3, TypeFacts, RaiseEffect, QuietStep, SMT
     DEF RmTree, Idle, InLoop, Unzipping
<1>4. CASE unpacked[File(p)] # "none"
  <2>1. /\ unpacked' = [unpacked EXCEPT ![File(p)] = "none"]
        /\ job'[p].pc = "open" /\ job'[p].i = job[p].i
    BY <1>4, TypeFacts, GotoEffect DEF RmTree
  <2>2. WritersOK'
    BY <1>2 DEF DiskInv, WritersOK
  <2>3. ASSUME alone[p]  PROVE LoadOK(p)'
    BY <1>1, <1>2, <2>1, <2>3 DEF DiskInv, LoadOK, At, Unzipping
  <2>4. ASSUME ~ raced, NEW f \in Archives, raw'[f] = "full"
        PROVE  unpacked'[f] = "full" \/ f \in torn'
    <3>1. f \in FileNames
      BY NetworkDataAssumption DEF FileNames
    <3>2. f # File(p)
      BY <1>1, <1>2, <2>4 DEF DiskInv, MeetingsOK, LoadOK, At
    <3>3. unpacked[f] = "full" \/ f \in torn
      BY <1>1, <1>2, <2>4, AloneUnpacked DEF Unzipping
    <3> QED  BY <1>2, <2>1, <3>1, <3>2, <3>3, TypeFacts
  <2> QED  BY <1>1, <1>2, <2>2, <2>3, <2>4, DiskStep
<1> QED  BY <1>3, <1>4

\* A file is opened for writing.
LEMMA OpenFileDisk ==
  ASSUME TypeInv, DiskInv, NEW p \in Processes, OpenFile(p)
  PROVE  DiskInv'
<1>1. /\ Only(p) /\ Working(p) /\ job[p].pc = "open" /\ job[p].pc \in InLoop
      /\ File(p) \in FileNames
  BY OpenFileType, FileType DEF OpenFile, Working, At, InLoop
<1>2. UNCHANGED <<unpacked, torn, alone, raced>>
  BY DEF OpenFile, history
<1>3. /\ raw' = [raw EXCEPT ![File(p)] = "partial"]
      /\ writer' = [writer EXCEPT ![File(p)] = p]
      /\ job'[p].pc = "write" /\ job'[p].i = job[p].i
  BY TypeFacts, GotoEffect DEF OpenFile
<1>4. WritersOK'
  BY <1>1, <1>3, TypeFacts DEF DiskInv, WritersOK
<1>5. ASSUME alone[p]  PROVE LoadOK(p)'
  <2>1. \A n \in 1 .. job'[p].i - 1 : raw'[Files[n]] = "full"
    BY <1>1, <1>3, <1>5, TypeFacts, EarlierFiles DEF DiskInv, LoadOK
  <2>2. File(p)' = File(p) /\ writer'[File(p)] = p
    BY <1>1, <1>3, TypeFacts DEF File
  <2> QED  BY <1>3, <2>1, <2>2 DEF LoadOK, At, Unzipping
<1>6. ASSUME ~ raced, NEW f \in Archives, raw'[f] = "full"
      PROVE  unpacked'[f] = "full" \/ f \in torn'
  <2>1. f \in FileNames
    BY NetworkDataAssumption DEF FileNames
  <2>2. raw[f] = "full"
    BY <1>3, <1>6, <2>1, TypeFacts
  <2> QED  BY <1>1, <1>2, <1>6, <2>2, AloneUnpacked DEF Unzipping
<1> QED  BY <1>1, <1>2, <1>4, <1>5, <1>6, DiskStep

\* A file is written to the end.
LEMMA CloseFileDisk ==
  ASSUME TypeInv, DiskInv, NEW p \in Processes, CloseFile(p)
  PROVE  DiskInv'
<1>1. /\ Only(p) /\ Working(p) /\ job[p].pc = "write" /\ job[p].pc \in InLoop
      /\ File(p) \in FileNames
  BY CloseFileType, FileType DEF CloseFile, Working, At, InLoop
<1>2. UNCHANGED <<unpacked, torn, alone, raced>>
  BY DEF CloseFile, history
<1>3. WritersOK'
  BY <1>1, TypeFacts DEF CloseFile, DiskInv, WritersOK
<1>4. ASSUME alone[p]
      PROVE  /\ raw' = [raw EXCEPT ![File(p)] = "full"]
             /\ \A n \in 1 .. job[p].i : raw'[Files[n]] = "full"
  <2>1. writer[File(p)] = p
    BY <1>1, <1>4 DEF DiskInv, LoadOK, At
  <2>2. raw' = [raw EXCEPT ![File(p)] = "full"]
    BY <2>1 DEF CloseFile
  <2>3. \A n \in 1 .. job[p].i - 1 : raw'[Files[n]] = "full"
    BY <1>1, <1>4, <2>2, TypeFacts, EarlierFiles DEF DiskInv, LoadOK
  <2>4. raw'[Files[job[p].i]] = "full"
    BY <1>1, <2>2, TypeFacts DEF File
  <2> QED  BY <1>1, <2>2, <2>3, <2>4, FileType, SMT
<1>5. CASE File(p) \in Archives
  <2>1. job'[p].pc = "unzip" /\ job'[p].i = job[p].i
    BY <1>5, TypeFacts, GotoEffect DEF CloseFile
  <2>2. File(p)' = File(p)
    BY <2>1 DEF File
  <2>3. ASSUME alone[p]  PROVE LoadOK(p)'
    <3>1. /\ \A n \in 1 .. job'[p].i - 1 : raw'[Files[n]] = "full"
          /\ raw'[File(p)] = "full"
      BY <1>1, <1>4, <2>1, <2>3, FileType, SMT DEF File
    <3> QED  BY <2>1, <2>2, <3>1 DEF LoadOK, At, Unzipping
  <2>4. ASSUME ~ raced, NEW f \in Archives, raw'[f] = "full"
        PROVE  \/ unpacked'[f] = "full" \/ f \in torn'
               \/ job'[p].pc \in Unzipping /\ File(p)' = f
    <3>1. CASE f = File(p)
      BY <2>1, <2>2, <3>1 DEF Unzipping
    <3>2. CASE f # File(p)
      <4>1. f \in FileNames
        BY NetworkDataAssumption DEF FileNames
      <4>2. raw[f] = "full"
        BY <2>4, <3>2, <4>1, TypeFacts DEF CloseFile
      <4> QED  BY <1>1, <1>2, <2>4, <4>2, AloneUnpacked DEF Unzipping
    <3> QED  BY <3>1, <3>2
  <2> QED  BY <1>1, <1>2, <1>3, <2>3, <2>4, DiskStep
<1>6. CASE File(p) \notin Archives
  <2>1. NextFile(p)
    BY <1>6 DEF CloseFile
  <2>2. ASSUME alone[p]  PROVE LoadOK(p)'
    BY <1>1, <1>4, <2>1, <2>2, NextFileLoadOK
  <2>3. ASSUME ~ raced, NEW f \in Archives, raw'[f] = "full"
        PROVE  unpacked'[f] = "full" \/ f \in torn'
    <3>1. f \in FileNames /\ f # File(p)
      BY <1>6, NetworkDataAssumption DEF FileNames
    <3>2. raw[f] = "full"
      BY <2>3, <3>1, TypeFacts DEF CloseFile
    <3> QED  BY <1>1, <1>2, <2>3, <3>2, AloneUnpacked DEF Unzipping
  <2> QED  BY <1>1, <1>2, <1>3, <2>2, <2>3, DiskStep
<1> QED  BY <1>5, <1>6

\* An archive is opened, or the call raises.
LEMMA BeginUnzipDisk ==
  ASSUME TypeInv, DiskInv, NEW p \in Processes, BeginUnzip(p)
  PROVE  DiskInv'
<1>1. /\ Only(p) /\ Working(p) /\ job[p].pc = "unzip" /\ job[p].pc \in InLoop
      /\ File(p) \in FileNames
  BY BeginUnzipType, FileType DEF BeginUnzip, Working, At, InLoop
<1>2. UNCHANGED <<raw, writer, torn, alone, raced>>
  BY DEF BeginUnzip, history
<1>3. WritersOK'
  BY <1>2 DEF DiskInv, WritersOK
<1>4. CASE raw[File(p)] = "full"
  <2>1. /\ unpacked' = [unpacked EXCEPT ![File(p)] = "partial"]
        /\ unpacker' = [unpacker EXCEPT ![File(p)] = p]
        /\ job'[p].pc = "unzipping" /\ job'[p].i = job[p].i
    BY <1>4, TypeFacts, GotoEffect DEF BeginUnzip
  <2>2. File(p)' = File(p) /\ unpacker'[File(p)] = p
    BY <1>1, <2>1, TypeFacts DEF File
  <2>3. ASSUME alone[p]  PROVE LoadOK(p)'
    BY <1>1, <1>2, <1>4, <2>1, <2>2, <2>3 DEF DiskInv, LoadOK, At, Unzipping
  <2>4. ASSUME ~ raced, NEW f \in Archives, raw'[f] = "full"
        PROVE  \/ unpacked'[f] = "full" \/ f \in torn'
               \/ job'[p].pc \in Unzipping /\ File(p)' = f
    <3>1. CASE f = File(p)
      BY <2>1, <2>2, <3>1 DEF Unzipping
    <3>2. CASE f # File(p)
      <4>1. f \in FileNames
        BY NetworkDataAssumption DEF FileNames
      <4>2. unpacked[f] = "full" \/ f \in torn
        BY <1>1, <1>2, <2>4, <3>2, AloneUnpacked
      <4> QED  BY <1>2, <2>1, <3>2, <4>1, <4>2, TypeFacts
    <3> QED  BY <3>1, <3>2
  <2> QED  BY <1>1, <1>2, <1>3, <2>3, <2>4, DiskStep
<1>5. CASE raw[File(p)] # "full"
  <2>1. job'[p].pc = "idle" /\ UNCHANGED unpacked
    BY <1>5, TypeFacts, RaiseEffect, SMT DEF BeginUnzip, Idle
  <2>2. LoadOK(p)'
    BY <2>1 DEF LoadOK, At, InLoop, Unzipping
  <2>3. ASSUME ~ raced, NEW f \in Archives, raw'[f] = "full"
        PROVE  unpacked'[f] = "full" \/ f \in torn'
    BY <1>1, <1>2, <1>5, <2>1, <2>3, AloneUnpacked
  <2> QED  BY <1>1, <1>2, <1>3, <2>2, <2>3, DiskStep
<1> QED  BY <1>4, <1>5

\* An archive is unpacked to the end.
LEMMA EndUnzipDisk ==
  ASSUME TypeInv, DiskInv, NEW p \in Processes, EndUnzip(p)
  PROVE  DiskInv'
<1>1. /\ Only(p) /\ Working(p) /\ job[p].pc = "unzipping" /\ job[p].pc \in InLoop
      /\ File(p) \in FileNames
  BY EndUnzipType, FileType DEF EndUnzip, Working, At, InLoop
<1>2. NextFile(p) /\ UNCHANGED <<raw, writer, torn, alone, raced>>
  BY DEF EndUnzip, history
<1>3. WritersOK'
  BY <1>2 DEF DiskInv, WritersOK
<1>4. ASSUME alone[p]  PROVE LoadOK(p)'
  <2>1. \A n \in 1 .. job[p].i - 1 : raw[Files[n]] = "full"
    BY <1>1, <1>4 DEF DiskInv, LoadOK
  <2>2. raw[Files[job[p].i]] = "full"
    BY <1>1, <1>4 DEF DiskInv, LoadOK, Unzipping, File
  <2>3. \A n \in 1 .. job[p].i : raw'[Files[n]] = "full"
    BY <1>1, <1>2, <2>1, <2>2, FileType, SMT
  <2> QED  BY <1>1, <1>2, <2>3, NextFileLoadOK
<1>5. ASSUME ~ raced, NEW f \in Archives, raw'[f] = "full"
      PROVE  unpacked'[f] = "full" \/ f \in torn'
  <2>1. unpacker[File(p)] = p
    BY <1>1, <1>5 DEF DiskInv, MeetingsOK, LoadOK, At
  <2>2. unpacked' = [unpacked EXCEPT ![File(p)] = "full"]
    BY <2>1 DEF EndUnzip
  <2>3. f \in FileNames
    BY NetworkDataAssumption DEF FileNames
  <2>4. unpacked[f] = "full" \/ f \in torn \/ f = File(p)
    BY <1>1, <1>2, <1>5, AloneUnpacked
  <2> QED  BY <1>2, <2>2, <2>3, <2>4, TypeFacts
<1> QED  BY <1>1, <1>2, <1>3, <1>4, <1>5, DiskStep

\* A request fails: the file is left as it is.
LEMMA RequestFailsDisk ==
  ASSUME TypeInv, DiskInv, NEW p \in Processes, RequestFails(p)
  PROVE  DiskInv'
<1>1. Only(p) /\ Working(p) /\ job[p].pc \notin Unzipping /\ job'[p].pc = "idle"
  BY RequestFailsType, TypeFacts, RaiseEffect, SMT
     DEF RequestFails, Working, At, Unzipping, Idle
<1>2. UNCHANGED <<raw, unpacked, torn, alone, raced>>
  BY DEF RequestFails, history
<1>3. WritersOK'
  BY <1>2 DEF RequestFails, DiskInv, WritersOK
<1>4. LoadOK(p)'
  BY <1>1 DEF LoadOK, At, InLoop, Unzipping
<1>5. ASSUME ~ raced, NEW f \in Archives, raw'[f] = "full"
      PROVE  unpacked'[f] = "full" \/ f \in torn'
  BY <1>1, <1>2, <1>5, AloneUnpacked
<1> QED  BY <1>1, <1>2, <1>3, <1>4, <1>5, DiskStep

\* A process dies: if it had an archive to unpack, that one is torn.
LEMMA CrashDisk ==
  ASSUME TypeInv, DiskInv, NEW p \in Processes, Crash(p)
  PROVE  DiskInv'
<1>1. Only(p) /\ job'[p].pc = "idle"
  <2>1. Raise(p)
    BY DEF Crash
  <2> QED  BY <2>1, RaiseType, SMT DEF Idle
<1>2. UNCHANGED <<raw, unpacked, alone, raced>> /\ torn \subseteq torn'
  BY DEF Crash
<1>3. WritersOK'
  BY <1>2 DEF Crash, DiskInv, WritersOK
<1>4. MeetingsOK'
  <2>1. \A q \in Processes : Working(q)' => Working(q)
    BY <1>1 DEF Only, Working, At
  <2> QED  BY <1>2, <2>1 DEF DiskInv, MeetingsOK
<1>5. ASSUME NEW q \in Processes, alone'[q]  PROVE LoadOK(q)'
  <2>1. CASE q = p
    BY <1>1, <2>1 DEF LoadOK, At, InLoop, Unzipping
  <2>2. CASE q # p
    <3>1. job'[q] = job[q] /\ File(q)' = File(q) /\ LoadOK(q)
      BY <1>1, <1>2, <1>5, <2>2 DEF Only, File, DiskInv
    <3>2. At(q, "write") => writer'[File(q)] = q
      BY <2>2, <3>1, FileType DEF LoadOK, Crash, At, InLoop
    <3>3. At(q, "unzipping") => unpacker'[File(q)] = q
      BY <2>2, <3>1, FileType DEF LoadOK, Crash, At, InLoop
    <3> QED  BY <1>2, <3>1, <3>2, <3>3 DEF LoadOK, At
  <2> QED  BY <2>1, <2>2
<1>6. ASSUME NEW f \in Archives, raw'[f] = "full"  PROVE UnpackedOK(f)'
  <2>1. UnpackedOK(f)
    BY <1>2, <1>6 DEF DiskInv
  <2>2. ASSUME NEW r \in Processes, job[r].pc \in Unzipping, File(r) = f
        PROVE  UnpackedOK(f)'
    <3>1. CASE r = p
      BY <2>2, <3>1 DEF Crash, At, Unzipping, UnpackedOK
    <3>2. CASE r # p
      BY <1>1, <2>2, <3>2 DEF Only, File, UnpackedOK
    <3> QED  BY <3>1, <3>2
  <2> QED  BY <1>2, <2>1, <2>2 DEF UnpackedOK
<1> QED  BY <1>3, <1>4, <1>5, <1>6 DEF DiskInv

\* A new job: if others are at work, they have met.
LEMMA NewGridDisk ==
  ASSUME TypeInv, DiskInv, NEW p \in Processes, NEW c \in Interconnects, NewGrid(p, c)
  PROVE  DiskInv'
<1> DEFINE others == {q \in Processes \ {p} : Working(q)}
<1>1. Only(p) /\ job[p].pc = "idle"
  BY NewGridType DEF NewGrid, At
<1>2. job'[p].pc \in {"record", "number"}
  BY TypeFacts DEF NewGrid, JobsOK, Idle
<1>3. UNCHANGED <<raw, writer, unpacked, unpacker, torn>>
  BY DEF NewGrid, disk
<1>4. /\ alone' = [q \in Processes |->
                       IF q = p THEN others = {} ELSE alone[q] /\ q \notin others]
      /\ raced' = (raced \/ others # {})
  BY DEF NewGrid
<1>5. WritersOK'
  BY <1>3 DEF DiskInv, WritersOK
<1>6. \A q \in Processes : raced' \/ alone'[q]
  BY <1>4 DEF DiskInv, MeetingsOK
<1>7. ASSUME NEW q \in Processes, NEW r \in Processes, q # r, Working(q)', Working(r)'
      PROVE  raced' /\ ~ alone'[q]
  <2>1. q # p => Working(q)
    BY <1>1, <1>7 DEF Only, Working, At
  <2>2. r # p => Working(r)
    BY <1>1, <1>7 DEF Only, Working, At
  <2> QED  BY <1>4, <1>7, <2>1, <2>2 DEF DiskInv, MeetingsOK
<1>8. ASSUME NEW q \in Processes, alone'[q]  PROVE LoadOK(q)'
  <2>1. CASE q = p
    BY <1>2, <2>1 DEF LoadOK, At, InLoop, Unzipping
  <2>2. CASE q # p
    <3>1. job'[q].pc = "idle"
      BY <1>1, <1>4, <1>8, <2>2 DEF Only, Working, At
    <3> QED  BY <3>1 DEF LoadOK, At, InLoop, Unzipping
  <2> QED  BY <2>1, <2>2
<1>9. ASSUME NEW f \in Archives, raw'[f] = "full"  PROVE UnpackedOK(f)'
  <2>1. UnpackedOK(f)
    BY <1>3, <1>9 DEF DiskInv
  <2>2. ASSUME NEW r \in Processes, job[r].pc \in Unzipping, File(r) = f
        PROVE  UnpackedOK(f)'
    BY <1>1, <2>2 DEF Only, File, UnpackedOK, Unzipping
  <2> QED  BY <1>3, <1>4, <2>1, <2>2 DEF UnpackedOK
<1> QED  BY <1>5, <1>6, <1>7, <1>8, <1>9 DEF DiskInv, MeetingsOK

\* Every step keeps what is known of the directory.
LEMMA NextDisk ==
  ASSUME TypeInv, DiskInv, Next
  PROVE  DiskInv'
  BY NewGridDisk, GetRecordDisk, MkDirDisk, CompareChecksumDisk, OsRemoveDisk,
     RmTreeDisk, OpenFileDisk, CloseFileDisk, BeginUnzipDisk, EndUnzipDisk,
     GetNetworkDisk, BuildEurDisk, ProfileExistsDisk, BeginUploadDisk, EndUploadDisk,
     CachePutDisk, RequestFailsDisk, CrashDisk DEF Next, Step

-----------------------------------------------------------------------------
(* Files that are lost *)

\* A step of p: it is enough that p is not about to create the file.
LEMMA LostStep ==
  ASSUME NEW f \in FileNames, Lost(f), NEW p \in Processes, Only(p),
         dir', raw'[f] = "none", ~ WillCreate(p, f)'
  PROVE  Lost(f)'
<1>1. ASSUME NEW q \in Processes, q # p  PROVE ~ WillCreate(q, f)'
  <2>1. ~ WillCreate(q, f) /\ job'[q] = job[q]
    BY <1>1 DEF Lost, Only
  <2> QED  BY <2>1 DEF WillCreate, Working, At, File
<1> QED  BY <1>1 DEF Lost

\* A process outside of the loop, or comparing checksums, creates nothing next.
LEMMA CreatesNothing ==
  ASSUME NEW f \in FileNames, NEW p \in Processes, dir',
         job'[p].pc \notin {"rmtree", "open", "write", "unzip", "unzipping"}
  PROVE  ~ WillCreate(p, f)'
  BY DEF WillCreate, At

\* The loop goes on: of a file that p was not going to create it stays true.
LEMMA NextFileCreatesNothing ==
  ASSUME TypeInv, NEW f \in FileNames, NEW p \in Processes, NextFile(p), dir',
         job[p].pc \in {"check", "write", "unzipping"}, ~ WillCreate(p, f)
  PROVE  ~ WillCreate(p, f)'
<1>1. JobOK(job[p]) /\ job[p].i \in 1..Len(Files) /\ Len(Files) \in Nat
  BY TypeFacts, FileType, FilesType DEF InLoop
<1>2. CASE job[p].repair \/ job[p].i = Len(Files)
  <2>1. job'[p].pc \in {"check", "network"}
    BY <1>1, <1>2, TypeFacts, NextFileEffect, SMT DEF FirstPhase
  <2> QED  BY <2>1, CreatesNothing
<1>3. CASE ~ job[p].repair /\ job[p].i # Len(Files)
  <2>1. /\ job'[p].i = job[p].i + 1 /\ job'[p].pc = "open" /\ ~ job'[p].repair
        /\ job[p].pc \in {"write", "unzipping"}
    BY <1>1, <1>3, TypeFacts, NextFileEffect DEF FirstPhase, JobOK
  <2>2. \A i \in job[p].i .. Len(Files) : i # job[p].i => Files[i] # f
    BY <1>1, <1>3, <2>1, SMT DEF WillCreate, Working, At
  <2>3. \A i \in job'[p].i .. Len(Files) : Files[i] # f
    BY <1>1, <2>1, <2>2, SMT
  <2> QED  BY <2>1, <2>3 DEF WillCreate, At
<1> QED  BY <1>2, <1>3

\* No step of load_data brings back a file that is lost.
LEMMA LoadDataKeepsLost ==
  ASSUME TypeInv, WritersOK, NEW f \in FileNames, Lost(f), NEW p \in Processes,
         \/ MkDir(p) \/ CompareChecksum(p) \/ OsRemove(p) \/ RmTree(p)
         \/ OpenFile(p) \/ CloseFile(p) \/ BeginUnzip(p) \/ EndUnzip(p)
  PROVE  Lost(f)'
<1>1. dir /\ raw[f] = "none" /\ ~ WillCreate(p, f) /\ JobOK(job[p]) /\ JobsOK
  BY TypeFacts DEF Lost
<1>2. CASE MkDir(p)
  <2>1. job'[p].pc = "check"
    BY <1>1, <1>2 DEF MkDir, JobsOK, JobOK, Fields, FirstPhase
  <2> QED  BY <1>1, <1>2, <2>1, MkDirType, CreatesNothing, LostStep DEF MkDir
<1>3. CASE CompareChecksum(p)
  <2>1. Only(p) /\ dir' /\ raw'[f] = "none" /\ job[p].pc = "check"
    BY <1>1, <1>3, CompareChecksumType DEF CompareChecksum, disk, At
  <2>2. ~ WillCreate(p, f)'
    <3>1. CASE NextFile(p)
      BY <1>1, <2>1, <3>1, NextFileCreatesNothing
    <3>2. CASE Goto(p, "remove")
      BY <1>1, <2>1, <3>2, GotoEffect, CreatesNothing, SMT
    <3> QED  BY <1>3, <3>1, <3>2 DEF CompareChecksum
  <2> QED  BY <2>1, <2>2, LostStep
<1>4. CASE OsRemove(p)
  <2>1. Only(p) /\ dir' /\ job[p].pc = "remove"
    BY <1>1, <1>4, OsRemoveType DEF OsRemove, At
  <2>2. CASE raw[File(p)] = "none"
    <3>1. Raise(p) /\ UNCHANGED raw
      BY <1>4, <2>2 DEF OsRemove
    <3>2. job'[p].pc = "idle"
      BY <3>1, RaiseType, SMT DEF Idle
    <3> QED  BY <1>1, <2>1, <3>1, <3>2, CreatesNothing, LostStep
  <2>3. CASE raw[File(p)] # "none"
    <3>1. /\ raw' = [raw EXCEPT ![File(p)] = "none"]
          /\ job'[p].i = job[p].i /\ job'[p].repair = job[p].repair
      BY <1>1, <1>4, <2>3, GotoEffect DEF OsRemove
    <3>2. raw'[f] = "none" /\ File(p)' # f
      BY <1>1, <2>3, <3>1, TypeFacts DEF File
    <3>3. ~ WillCreate(p, f)'
      BY <1>1, <2>1, <3>1, <3>2 DEF WillCreate, At, JobOK, JobsOK
    <3> QED  BY <2>1, <3>2, <3>3, LostStep
  <2> QED  BY <2>2, <2>3
<1>5. CASE RmTree(p)
  <2>1. Only(p) /\ dir' /\ raw'[f] = "none" /\ job[p].pc = "rmtree"
    BY <1>1, <1>5, RmTreeType DEF RmTree, At
  <2>2. CASE Raise(p)
    BY <2>1, <2>2, RaiseType, CreatesNothing, LostStep, SMT DEF Idle
  <2>3. CASE Goto(p, "open")
    <3>1. job'[p].i = job[p].i /\ job'[p].repair = job[p].repair
      BY <1>1, <2>3, GotoEffect
    <3>2. job[p].repair /\ File(p) # f
      BY <1>1, <2>1 DEF WillCreate, At, JobOK
    <3>3. ~ WillCreate(p, f)'
      BY <2>1, <3>1, <3>2 DEF WillCreate, At, File
    <3> QED  BY <2>1, <3>3, LostStep
  <2> QED  BY <1>5, <2>2, <2>3 DEF RmTree
<1>6. CASE OpenFile(p)
  <2>1. /\ Only(p) /\ dir' /\ job[p].pc = "open" /\ File(p) \in FileNames
        /\ job[p].i \in 1..Len(Files) /\ Len(Files) \in Nat
    BY <1>1, <1>6, OpenFileType, FileType, FilesType DEF OpenFile, At, InLoop
  <2>2. File(p) # f
    BY <1>1, <2>1, SMT DEF WillCreate, Working, At, File, JobOK
  <2>3. job'[p].i = job[p].i /\ job'[p].repair = job[p].repair /\ job'[p].pc = "write"
    BY <1>1, <1>6, GotoEffect DEF OpenFile
  <2>4. raw'[f] = "none"
    BY <1>1, <1>6, <2>1, <2>2, TypeFacts DEF OpenFile
  <2>5. ~ WillCreate(p, f)'
    BY <1>1, <2>1, <2>2, <2>3 DEF WillCreate, Working, At, File
  <2> QED  BY <2>1, <2>4, <2>5, LostStep
<1>7. CASE CloseFile(p)
  <2>1. Only(p) /\ dir' /\ job[p].pc = "write" /\ File(p) \in FileNames
    BY <1>1, <1>7, CloseFileType, FileType DEF CloseFile, At, InLoop
  <2>2. raw'[f] = "none"
    <3>1. CASE writer[File(p)] = p
      <4>1. raw[File(p)] = "partial"
        BY <2>1, <3>1, NetworkDataAssumption DEF WritersOK
      <4> QED  BY <1>1, <1>7, <2>1, <4>1, TypeFacts DEF CloseFile
    <3>2. CASE writer[File(p)] # p
      BY <1>1, <1>7, <3>2 DEF CloseFile
    <3> QED  BY <3>1, <3>2
  <2>3. ~ WillCreate(p, f)'
    <3>1. CASE NextFile(p)
      BY <1>1, <2>1, <3>1, NextFileCreatesNothing
    <3>2. CASE Goto(p, "unzip")
      <4>1. job'[p].i = job[p].i /\ job'[p].repair = job[p].repair /\ job'[p].pc = "unzip"
        BY <1>1, <3>2, GotoEffect
      <4> QED  BY <1>1, <2>1, <4>1 DEF WillCreate, Working, At, File
    <3> QED  BY <1>7, <3>1, <3>2 DEF CloseFile
  <2> QED  BY <2>1, <2>2, <2>3, LostStep
<1>8. CASE BeginUnzip(p)
  <2>1. Only(p) /\ dir' /\ raw'[f] = "none" /\ job[p].pc = "unzip"
    BY <1>1, <1>8, BeginUnzipType DEF BeginUnzip, At
  <2>2. CASE Raise(p)
    BY <2>1, <2>2, RaiseType, CreatesNothing, LostStep, SMT DEF Idle
  <2>3. CASE Goto(p, "unzipping")
    <3>1. job'[p].i = job[p].i /\ job'[p].repair = job[p].repair /\ job'[p].pc = "unzipping"
      BY <1>1, <2>3, GotoEffect
    <3>2. ~ WillCreate(p, f)'
      BY <1>1, <2>1, <3>1 DEF WillCreate, Working, At, File
    <3> QED  BY <2>1, <3>2, LostStep
  <2> QED  BY <1>8, <2>2, <2>3 DEF BeginUnzip
<1>9. CASE EndUnzip(p)
  <2>1. Only(p) /\ dir' /\ raw'[f] = "none" /\ job[p].pc = "unzipping" /\ NextFile(p)
    BY <1>1, <1>9, EndUnzipType DEF EndUnzip, At
  <2> QED  BY <1>1, <2>1, NextFileCreatesNothing, LostStep
<1> QED  BY <1>2, <1>3, <1>4, <1>5, <1>6, <1>7, <1>8, <1>9

\* Neither does a step outside of the loop over the files.
LEMMA OtherStepsKeepLost ==
  ASSUME TypeInv, NEW f \in FileNames, Lost(f), NEW p \in Processes,
         \/ \E c \in Interconnects : NewGrid(p, c)
         \/ GetRecord(p) \/ GetNetwork(p) \/ BuildEur(p) \/ ProfileExists(p)
         \/ BeginUpload(p) \/ EndUpload(p) \/ CachePut(p) \/ RequestFails(p) \/ Crash(p)
  PROVE  Lost(f)'
<1> DEFINE out == job'[p].pc \notin {"rmtree", "open", "write", "unzip", "unzipping"}
<1>1. Only(p)
  BY NewGridType, GetRecordType, GetNetworkType, BuildEurType, ProfileExistsType,
     BeginUploadType, EndUploadType, CachePutType, RequestFailsType, CrashType
<1>2. dir' /\ raw'[f] = "none"
  BY DEF Lost, NewGrid, GetRecord, GetNetwork, BuildEur, ProfileExists, BeginUpload,
         EndUpload, CachePut, RequestFails, Crash, disk
<1>3. ASSUME Raise(p)  PROVE out
  BY <1>3, RaiseType, SMT DEF Idle
<1>4. ASSUME NEW phase \in {"mkdir", "upload", "cache"}, Goto(p, phase)  PROVE out
  BY <1>4, TypeFacts, GotoEffect
<1>5. CASE \E c \in Interconnects : NewGrid(p, c)
  <2>1. PICK c \in Interconnects : NewGrid(p, c)
    BY <1>5
  <2>2. job'[p].pc \in {"record", "number"}
    BY <2>1, TypeFacts DEF NewGrid, JobsOK, Idle
  <2> QED  BY <1>1, <1>2, <2>2, CreatesNothing, LostStep
<1>6. CASE GetRecord(p) \/ CachePut(p) \/ RequestFails(p) \/ Crash(p)
  <2>1. out
    <3> HIDE DEF out
    <3> QED  BY <1>3, <1>4, <1>6 DEF GetRecord, CachePut, RequestFails, Crash
  <2> QED  BY <1>1, <1>2, <2>1, CreatesNothing, LostStep
<1>7. CASE GetNetwork(p) \/ EndUpload(p)
  <2>1. ASSUME job' = [job EXCEPT ![p].network = Loads, ![p].pc = "number"]  PROVE out
    BY <2>1, TypeFacts DEF JobsOK, JobOK, Fields
  <2>2. ASSUME EndUpload(p)  PROVE out
    <3>1. PICK k : job' = [job EXCEPT ![p].missing = @ \ {k}, ![p].ask = {},
                                      ![p].pc = "upload"]
      BY <2>2 DEF EndUpload
    <3> QED  BY <3>1, TypeFacts DEF JobsOK, JobOK, Fields
  <2>3. out
    BY <1>3, <1>7, <2>1, <2>2 DEF GetNetwork
  <2> QED  BY <1>1, <1>2, <2>3, CreatesNothing, LostStep
<1>8. CASE BuildEur(p)
  <2>1. PICK network, zone2id :
          job' = [job EXCEPT ![p].network = network, ![p].zone2id = zone2id,
                             ![p].ask = Kinds, ![p].missing = {}, ![p].pc = "exists"]
    BY <1>8 DEF BuildEur
  <2>2. out
    BY <2>1, TypeFacts DEF JobsOK, JobOK, Fields
  <2> QED  BY <1>1, <1>2, <2>2, CreatesNothing, LostStep
<1>9. CASE ProfileExists(p) /\ ~ Goto(p, "upload")
  <2>1. PICK k, missing : job' = [job EXCEPT ![p].ask = @ \ {k}, ![p].missing = missing]
    BY <1>9 DEF ProfileExists
  <2>2. job[p].pc = "exists"
    BY <1>9 DEF ProfileExists, At
  <2>3. out
    BY <2>1, <2>2, TypeFacts DEF JobsOK, JobOK, Fields
  <2> QED  BY <1>1, <1>2, <2>3, CreatesNothing, LostStep
<1>10. CASE Goto(p, "upload")
  BY <1>1, <1>2, <1>4, <1>10, CreatesNothing, LostStep
<1>11. CASE BeginUpload(p)
  <2>1. CASE \E k \in job[p].missing : job' = [job EXCEPT ![p].ask = {k}, ![p].pc = "put"]
    <3>1. out
      BY <2>1, TypeFacts, SMT DEF JobsOK, JobOK, Fields
    <3> QED  BY <1>1, <1>2, <3>1, CreatesNothing, LostStep
  <2>2. CASE Raise(p) \/ Goto(p, "cache")
    BY <1>1, <1>2, <1>3, <1>4, <2>2, CreatesNothing, LostStep
  <2> QED  BY <1>11, <2>1, <2>2 DEF BeginUpload
<1> QED  BY <1>5, <1>6, <1>7, <1>8, <1>9, <1>10, <1>11

-----------------------------------------------------------------------------
(* Theorems on the directory *)

\* The inductive invariant.
LoadInv == TypeInv /\ DiskInv

\* It holds at first with the types, and every step keeps both.
LEMMA InductiveLoads == (Init => LoadInv) /\ (LoadInv /\ [Next]_vars => LoadInv')
<1>1. ASSUME LoadInv, UNCHANGED vars  PROVE LoadInv'
  <2>1. TypeInv'
    BY <1>1, InductiveTypes DEF LoadInv
  <2>2. /\ UNCHANGED <<dir, raw, writer, unpacked, unpacker, profiles, job, cache>>
        /\ UNCHANGED <<alone, raced, torn>>
    BY <1>1 DEF vars, disk, history
  <2>3. DiskInv'
    BY <1>1, <2>2, SMT
       DEF LoadInv, DiskInv, WritersOK, MeetingsOK, LoadOK, UnpackedOK, Working, At,
           File
  <2> QED  BY <2>1, <2>3 DEF LoadInv
<1> QED  BY <1>1, InitTypeInv, InitDiskInv, NextType, NextDisk DEF LoadInv

\* What load_data has put on disk when it returns to a process that was alone.
THEOREM LoadingAloneIsComplete == Spec => []LoadedAloneIsComplete
<1>1. ASSUME LoadInv PROVE LoadedAloneIsComplete
  <2> SUFFICES ASSUME NEW p \in Processes, At(p, "network"), alone[p], NEW f \in FileNames
               PROVE  /\ raw[f] = "full"
                      /\ f \in Archives => unpacked[f] = "full" \/ f \in torn \/ raced
    BY DEF LoadedAloneIsComplete
  <2>1. raw[f] = "full"
    BY <1>1 DEF LoadInv, DiskInv, LoadOK
  <2>2. ASSUME f \in Archives, ~ raced  PROVE unpacked[f] = "full" \/ f \in torn
    BY <1>1, <2>1, <2>2, AloneUnpacked DEF LoadInv, Working, At, Unzipping
  <2> QED  BY <2>1, <2>2
<1> QED  BY <1>1, InductiveLoads, PTL DEF Spec

\* A file that is missing when no process is on the way to creating it is missing
\* for ever: every later call fails in os.remove.
THEOREM LostFilesStayLost == Spec => MissingFileIsPermanent
<1>1. ASSUME LoadInv, [Next]_vars
      PROVE  [\A f \in FileNames : Lost(f) => Lost(f)']_vars
  <2>1. CASE Next
    BY <1>1, <2>1, LoadDataKeepsLost, OtherStepsKeepLost
       DEF LoadInv, DiskInv, Next, Step
  <2> QED  BY <1>1, <2>1
<1> QED  BY <1>1, InductiveLoads, PTL DEF Spec, MissingFileIsPermanent

-----------------------------------------------------------------------------
(* The profiles *)

Stored(k) == profiles[k] # None
AllStored == \A k \in Kinds : Stored(k)

Profiling == {"exists", "upload", "put"}

\* The numbers are those of the loads of the full network.
Canonical(zone2id) ==
    /\ DOMAIN zone2id \subseteq Range(Loads)
    /\ \A z \in DOMAIN zone2id : zone2id[z] = Position(Loads, z) - 1

\* A process numbers the full network, or one from its cache; in the second case
\* all profiles were stored before, and it has none to upload.
UploadOK(p) ==
    /\ At(p, "number") => job[p].network = Loads \/ AllStored
    /\ job[p].pc \in Profiling =>
          /\ job[p].ask \subseteq Kinds /\ job[p].missing \subseteq Kinds
          /\ Canonical(job[p].zone2id) \/ (AllStored /\ job[p].missing = {})
    /\ At(p, "exists") => \A k \in Kinds \ job[p].ask : Stored(k) \/ k \in job[p].missing
    /\ job[p].pc \in {"upload", "put"} => \A k \in Kinds : Stored(k) \/ k \in job[p].missing
    /\ At(p, "put") => job[p].ask \subseteq job[p].missing
    /\ At(p, "cache") => AllStored

CacheOK ==
    /\ DOMAIN cache = Processes
    /\ \A p \in Processes : /\ DOMAIN cache[p] = Interconnects
                            /\ \A c \in Interconnects : cache[p][c] # None => AllStored

UploadInv ==
    /\ UploadedIdsAreCanonical
    /\ CacheOK
    /\ \A p \in Processes : UploadOK(p)

\* Nothing is stored and nothing is cached at first.
LEMMA InitUploadInv == Init => UploadInv
<1> SUFFICES ASSUME Init PROVE UploadInv
  OBVIOUS
<1>1. UploadedIdsAreCanonical
  BY NetworkDataAssumption DEF Init, UploadedIdsAreCanonical
<1>2. CacheOK
  BY DEF Init, CacheOK
<1>3. \A p \in Processes : job[p].pc = "idle"
  BY DEF Init, Idle
<1> QED  BY <1>1, <1>2, <1>3 DEF UploadInv, UploadOK, At, Profiling

\* Stored profiles stay, and the others keep what they know.
LEMMA UploadStep ==
  ASSUME UploadInv, NEW p \in Processes, Only(p),
         \A k \in Kinds : Stored(k) => Stored(k)',
         UploadedIdsAreCanonical', CacheOK', UploadOK(p)'
  PROVE  UploadInv'
<1>1. AllStored => AllStored'
  BY DEF AllStored
<1>2. ASSUME NEW q \in Processes, q # p  PROVE UploadOK(q)'
  <2>1. UploadOK(q) /\ job'[q] = job[q]
    BY <1>2 DEF UploadInv, Only
  <2> QED  BY <1>1, <2>1 DEF UploadOK, At
<1> QED  BY <1>2 DEF UploadInv

\* A step that uploads and caches nothing.
LEMMA QuietUpload ==
  ASSUME UploadInv, NEW p \in Processes, Only(p), UNCHANGED <<profiles, cache>>,
         UploadOK(p)'
  PROVE  UploadInv'
<1>1. \A k \in Kinds : Stored(k) => Stored(k)'
  BY DEF Stored
<1>2. UploadedIdsAreCanonical' /\ CacheOK'
  BY DEF UploadInv, UploadedIdsAreCanonical, CacheOK, AllStored, Stored
<1> QED  BY <1>1, <1>2, UploadStep

\* A step to a phase without a network.
LEMMA PlainUpload ==
  ASSUME UploadInv, NEW p \in Processes, Only(p), UNCHANGED <<profiles, cache>>,
         job'[p].pc \notin Profiling \cup {"number", "cache"}
  PROVE  UploadInv'
<1>1. UploadOK(p)'
  BY DEF UploadOK, At, Profiling
<1> QED  BY <1>1, QuietUpload

\* load_data has no profiles.
LEMMA LoadDataUpload ==
  ASSUME TypeInv, UploadInv, NEW p \in Processes,
         \/ GetRecord(p) \/ MkDir(p) \/ CompareChecksum(p) \/ OsRemove(p) \/ RmTree(p)
         \/ OpenFile(p) \/ CloseFile(p) \/ BeginUnzip(p) \/ EndUnzip(p) \/ RequestFails(p)
  PROVE  UploadInv'
<1> DEFINE plain == job'[p].pc \notin Profiling \cup {"number", "cache"}
<1>1. Only(p) /\ UNCHANGED <<profiles, cache>>
  BY GetRecordType, MkDirType, CompareChecksumType, OsRemoveType, RmTreeType,
     OpenFileType, CloseFileType, BeginUnzipType, EndUnzipType, RequestFailsType
     DEF GetRecord, MkDir, CompareChecksum, OsRemove, RmTree, OpenFile, CloseFile,
         BeginUnzip, EndUnzip, RequestFails
<1>2. ASSUME NEW phase \in Phases \ (Profiling \cup {"number", "cache"}), Goto(p, phase)
      PROVE  plain
  BY <1>2, TypeFacts, GotoEffect
<1>3. ASSUME NextFile(p)  PROVE plain
  BY <1>3, TypeFacts, NextFileEffect DEF FirstPhase, Profiling
<1>4. ASSUME Raise(p)  PROVE plain
  BY <1>4, RaiseType, SMT DEF Idle, Profiling
<1>5. ASSUME MkDir(p)  PROVE plain
  BY <1>5, TypeFacts DEF MkDir, JobsOK, JobOK, Fields, FirstPhase, Profiling
<1>6. plain
  <2> HIDE DEF plain
  <2>1. CASE GetRecord(p) \/ CompareChecksum(p) \/ OsRemove(p) \/ RmTree(p)
    BY <2>1, <1>2, <1>3, <1>4
       DEF GetRecord, CompareChecksum, OsRemove, RmTree, Phases, Profiling
  <2>2. CASE OpenFile(p) \/ CloseFile(p) \/ BeginUnzip(p) \/ EndUnzip(p) \/ RequestFails(p)
    BY <2>2, <1>2, <1>3, <1>4
       DEF OpenFile, CloseFile, BeginUnzip, EndUnzip, RequestFails, Phases, Profiling
  <2> QED  BY <2>1, <2>2, <1>5
<1> QED  BY <1>1, <1>6, PlainUpload

\* A network from the cache comes with its profiles.
LEMMA NewGridUpload ==
  ASSUME TypeInv, UploadInv, NEW p \in Processes, NEW c \in Interconnects, NewGrid(p, c)
  PROVE  UploadInv'
<1>1. Only(p) /\ UNCHANGED <<profiles, cache>>
  BY NewGridType DEF NewGrid
<1>2. \/ job'[p].pc = "record"
      \/ job'[p].pc = "number" /\ cache[p][c] # None
  BY TypeFacts DEF NewGrid, JobsOK, Idle
<1>3. UploadOK(p)'
  BY <1>1, <1>2 DEF UploadInv, CacheOK, UploadOK, AllStored, Stored, At, Profiling
<1> QED  BY <1>1, <1>3, QuietUpload

\* The full network is read.
LEMMA GetNetworkUpload ==
  ASSUME TypeInv, UploadInv, NEW p \in Processes, GetNetwork(p)
  PROVE  UploadInv'
<1>1. Only(p) /\ UNCHANGED <<profiles, cache>>
  BY GetNetworkType DEF GetNetwork
<1>2. CASE Raise(p)
  BY <1>1, <1>2, RaiseType, PlainUpload, SMT DEF Idle, Profiling
<1>3. CASE job' = [job EXCEPT ![p].network = Loads, ![p].pc = "number"]
  <2>1. job'[p].network = Loads /\ job'[p].pc = "number"
    BY <1>3, TypeFacts DEF JobsOK, JobOK, Fields
  <2> QED  BY <1>1, <2>1, QuietUpload DEF UploadOK, At, Profiling
<1> QED  BY <1>2, <1>3 DEF GetNetwork

\* The numbers are canonical if the network is the full one.
LEMMA BuildEurUpload ==
  ASSUME TypeInv, UploadInv, NEW p \in Processes, BuildEur(p)
  PROVE  UploadInv'
<1> DEFINE all == job[p].network
           c == job[p].interconnect
           zones == {z \in Range(all) : c = Region \/ z \in ZonesOf[c]}
           ids == [z \in zones |-> Position(all, z) - 1]
           kept == Kept(all, zones)
<1>1. Only(p) /\ UNCHANGED <<profiles, cache>>
  BY BuildEurType DEF BuildEur
<1>2. job' = [job EXCEPT ![p].network = kept, ![p].zone2id = ids,
                         ![p].ask = Kinds, ![p].missing = {}, ![p].pc = "exists"]
  BY DEF BuildEur
<1>3. all = Loads => Canonical(ids)
  BY DEF Canonical
<1>4. all = Loads \/ AllStored
  BY DEF BuildEur, UploadInv, UploadOK
<1>5. AllStored => AllStored'
  BY <1>1 DEF AllStored, Stored
<1> HIDE DEF ids, kept, zones, all
<1>6. /\ job'[p].zone2id = ids /\ job'[p].ask = Kinds /\ job'[p].missing = {}
      /\ job'[p].pc = "exists"
  BY <1>2, TypeFacts, SMT DEF JobsOK, JobOK, Fields
<1>7. Canonical(job'[p].zone2id) \/ AllStored'
  BY <1>3, <1>4, <1>5, <1>6
<1>8. UploadOK(p)'
  BY <1>6, <1>7 DEF UploadOK, At, Profiling, Canonical
<1> QED  BY <1>1, <1>8, QuietUpload

\* A kind of profile is stored, or is missing.
LEMMA ProfileExistsUpload ==
  ASSUME TypeInv, UploadInv, NEW p \in Processes, ProfileExists(p)
  PROVE  UploadInv'
<1>1. Only(p) /\ UNCHANGED <<profiles, cache>>
  BY ProfileExistsType DEF ProfileExists
<1>2. UploadOK(p) /\ job[p].pc = "exists"
  BY DEF ProfileExists, UploadInv, At
<1>3. \A k : Stored(k)' <=> Stored(k)
  BY <1>1 DEF Stored
<1>4. AllStored' <=> AllStored
  BY <1>3 DEF AllStored
<1>5. CASE job[p].ask = {} /\ Goto(p, "upload")
  <2>1. /\ job'[p].zone2id = job[p].zone2id /\ job'[p].ask = {}
        /\ job'[p].missing = job[p].missing /\ job'[p].pc = "upload"
    BY <1>5, TypeFacts, GotoEffect
  <2>2. UploadOK(p)'
    BY <1>2, <1>3, <1>4, <1>5, <2>1 DEF UploadOK, At, Profiling, Canonical
  <2> QED  BY <1>1, <2>2, QuietUpload
<1>6. ASSUME NEW k \in job[p].ask,
             job' = [job EXCEPT ![p].ask = @ \ {k},
                                ![p].missing = IF profiles[k] = None THEN @ \cup {k} ELSE @]
      PROVE  UploadInv'
  <2>1. /\ job'[p].zone2id = job[p].zone2id /\ job'[p].ask = job[p].ask \ {k}
        /\ job'[p].missing = IF Stored(k) THEN job[p].missing ELSE job[p].missing \cup {k}
        /\ job'[p].pc = "exists"
    BY <1>2, <1>6, TypeFacts DEF JobsOK, JobOK, Fields, Stored
  <2>2. k \in Kinds /\ job[p].ask \subseteq Kinds /\ job[p].missing \subseteq Kinds
    BY <1>2 DEF UploadOK, Profiling
  <2>3. AllStored => Stored(k)
    BY <2>2 DEF AllStored
  <2>4. Canonical(job'[p].zone2id) \/ (AllStored' /\ job'[p].missing = {})
    BY <1>2, <1>4, <2>1, <2>3 DEF UploadOK, Profiling
  <2>5. \A j \in Kinds \ job'[p].ask : Stored(j)' \/ j \in job'[p].missing
    BY <1>2, <1>3, <2>1 DEF UploadOK, At
  <2>6. UploadOK(p)'
    BY <2>1, <2>2, <2>4, <2>5 DEF UploadOK, At, Profiling, Canonical
  <2> QED  BY <1>1, <2>6, QuietUpload
<1> QED  BY <1>5, <1>6 DEF ProfileExists

\* A missing profile is next, unless all are stored.
LEMMA BeginUploadUpload ==
  ASSUME TypeInv, UploadInv, NEW p \in Processes, BeginUpload(p)
  PROVE  UploadInv'
<1>1. Only(p) /\ UNCHANGED <<profiles, cache>>
  BY BeginUploadType DEF BeginUpload
<1>2. UploadOK(p) /\ job[p].pc = "upload"
  BY DEF BeginUpload, UploadInv, At
<1>3. \A k : Stored(k)' <=> Stored(k)
  BY <1>1 DEF Stored
<1>4. AllStored' <=> AllStored
  BY <1>3 DEF AllStored
<1>5. CASE job[p].missing = {} /\ Goto(p, "cache")
  <2>1. job'[p].pc = "cache"
    BY <1>5, TypeFacts, GotoEffect
  <2>2. AllStored
    BY <1>2, <1>5 DEF UploadOK, AllStored
  <2> QED  BY <1>1, <1>4, <2>1, <2>2, QuietUpload DEF UploadOK, At, Profiling
<1>6. CASE Raise(p)
  BY <1>1, <1>6, RaiseType, PlainUpload, SMT DEF Idle, Profiling
<1>7. ASSUME NEW k \in job[p].missing,
             job' = [job EXCEPT ![p].ask = {k}, ![p].pc = "put"]
      PROVE  UploadInv'
  <2>1. /\ job'[p].zone2id = job[p].zone2id /\ job'[p].ask = {k}
        /\ job'[p].missing = job[p].missing /\ job'[p].pc = "put"
    BY <1>7, TypeFacts DEF JobsOK, JobOK, Fields
  <2>2. UploadOK(p)'
    BY <1>2, <1>3, <1>4, <1>7, <2>1 DEF UploadOK, At, Profiling, Canonical
  <2> QED  BY <1>1, <2>2, QuietUpload
<1> QED  BY <1>5, <1>6, <1>7 DEF BeginUpload

\* What a position means.
LEMMA PositionIs ==
  ASSUME NEW z \in Range(Loads)
  PROVE  Position(Loads, z) \in 1..Len(Loads) /\ Loads[Position(Loads, z)] = z
<1>1. Loads \in Seq(Range(Loads)) /\ \E i \in DOMAIN Loads : Loads[i] = z
  BY NetworkDataAssumption DEF Range
<1>2. Position(Loads, z) \in DOMAIN Loads /\ Loads[Position(Loads, z)] = z
  BY <1>1 DEF Position
<1> QED  BY <1>1, <1>2, SMT

\* What is extracted with canonical numbers is a profile with canonical columns.
LEMMA ExtractedIsCanonical ==
  ASSUME NEW p \in Processes, NEW k \in Kinds, Canonical(job[p].zone2id)
  PROVE  /\ Extracted(p, k) # None
         /\ k = "demand" =>
               \A i \in DOMAIN Extracted(p, k) : Extracted(p, k)[i] = Loads[i + 1]
<1> DEFINE ids == job[p].zone2id
           zones == DOMAIN ids
           columns == {ids[z] : z \in zones}
<1>1. /\ zones \subseteq Range(Loads)
      /\ \A z \in zones : ids[z] = Position(Loads, z) - 1
  BY DEF Canonical
<1>2. Len(Loads) \in Nat
  BY NetworkDataAssumption, SMT
<1>3. \A z \in zones : ids[z] \in 0 .. Len(Loads) - 1 /\ Loads[ids[z] + 1] = z
  BY <1>1, <1>2, PositionIs, SMT
<1>4. CASE k = "demand"
  <2>1. Extracted(p, k) = [i \in columns |-> CHOOSE z \in zones : ids[z] = i]
    BY <1>4 DEF Extracted
  <2>2. ASSUME NEW i \in columns
        PROVE  Extracted(p, k)[i] \in zones /\ ids[Extracted(p, k)[i]] = i
    <3>1. \E z \in zones : ids[z] = i
      OBVIOUS
    <3> QED  BY <2>1, <3>1
  <2>3. \A i \in columns : Extracted(p, k)[i] = Loads[i + 1]
    BY <1>3, <2>2
  <2>4. columns \in SUBSET (0 .. Len(Loads) - 1)
    BY <1>3
  <2>5. Extracted(p, k) \in [columns -> Range(Loads)]
    BY <1>1, <2>1, <2>2
  <2> HIDE DEF columns
  <2> QED  BY <1>4, <2>1, <2>3, <2>4, <2>5, NetworkDataAssumption, SMT
<1>5. CASE k # "demand"
  <2>1. Extracted(p, k) \in [zones -> Range(Loads)]
    BY <1>1, <1>5 DEF Extracted
  <2> QED  BY <1>1, <1>5, <2>1, NetworkDataAssumption
<1> QED  BY <1>4, <1>5

\* What is uploaded is canonical: a process with another network has nothing to
\* upload.
LEMMA EndUploadUpload ==
  ASSUME TypeInv, UploadInv, NEW p \in Processes, EndUpload(p)
  PROVE  UploadInv'
<1>1. PICK k \in job[p].ask :
        /\ profiles' = [profiles EXCEPT ![k] = Extracted(p, k)]
        /\ job' = [job EXCEPT ![p].missing = @ \ {k}, ![p].ask = {}, ![p].pc = "upload"]
  BY DEF EndUpload
<1>2. Only(p) /\ UNCHANGED cache
  BY EndUploadType DEF EndUpload
<1>3. UploadOK(p) /\ job[p].pc = "put"
  BY DEF EndUpload, UploadInv, At
<1>4. k \in Kinds /\ k \in job[p].missing /\ Canonical(job[p].zone2id)
  BY <1>3 DEF UploadOK, At, Profiling
<1>5. /\ Extracted(p, k) # None
      /\ k = "demand" =>
            \A i \in DOMAIN Extracted(p, k) : Extracted(p, k)[i] = Loads[i + 1]
  BY <1>4, ExtractedIsCanonical
<1>6. /\ profiles'[k] = Extracted(p, k)
      /\ \A j \in Kinds \ {k} : profiles'[j] = profiles[j]
  BY <1>1, <1>4, TypeFacts
<1>7. \A j \in Kinds : Stored(j) => Stored(j)'
  BY <1>5, <1>6 DEF Stored
<1>8. UploadedIdsAreCanonical'
  BY <1>5, <1>6, NetworkDataAssumption DEF UploadInv, UploadedIdsAreCanonical
<1>9. CacheOK'
  BY <1>2, <1>7 DEF UploadInv, CacheOK, AllStored
<1>10. /\ job'[p].zone2id = job[p].zone2id /\ job'[p].ask = {}
       /\ job'[p].missing = job[p].missing \ {k} /\ job'[p].pc = "upload"
  BY <1>1, TypeFacts DEF JobsOK, JobOK, Fields
<1>11. \A j \in Kinds : Stored(j)' \/ j \in job'[p].missing
  <2>1. Stored(k)'
    BY <1>5, <1>6 DEF Stored
  <2> QED  BY <1>3, <1>7, <1>10, <2>1 DEF UploadOK
<1>12. UploadOK(p)'
  BY <1>3, <1>4, <1>10, <1>11 DEF UploadOK, At, Profiling, Canonical
<1> QED  BY <1>2, <1>7, <1>8, <1>9, <1>12, UploadStep

\* A network goes into the cache when all profiles are stored.
LEMMA CachePutUpload ==
  ASSUME TypeInv, UploadInv, NEW p \in Processes, CachePut(p)
  PROVE  UploadInv'
<1>1. Only(p) /\ UNCHANGED profiles
  BY CachePutType DEF CachePut
<1>2. \A k \in Kinds : Stored(k) => Stored(k)'
  BY <1>1 DEF Stored
<1>3. AllStored /\ AllStored'
  BY <1>2 DEF CachePut, UploadInv, UploadOK, AllStored
<1>4. CacheOK'
  BY <1>3, TypeFacts DEF CachePut, UploadInv, CacheOK, JobOK
<1>5. UploadedIdsAreCanonical'
  BY <1>1 DEF UploadInv, UploadedIdsAreCanonical
<1>6. UploadOK(p)'
  BY RaiseType, SMT DEF CachePut, Idle, UploadOK, At, Profiling
<1> QED  BY <1>1, <1>2, <1>4, <1>5, <1>6, UploadStep

\* The cache of a process that dies is empty.
LEMMA CrashUpload ==
  ASSUME TypeInv, UploadInv, NEW p \in Processes, Crash(p)
  PROVE  UploadInv'
<1>1. Only(p) /\ UNCHANGED profiles /\ Raise(p)
  BY CrashType DEF Crash
<1>2. \A k \in Kinds : Stored(k) => Stored(k)'
  BY <1>1 DEF Stored
<1>3. cache' = [cache EXCEPT ![p] = [c \in Interconnects |-> None]]
  BY DEF Crash
<1>4. CacheOK'
  BY <1>2, <1>3 DEF UploadInv, CacheOK, AllStored
<1>5. UploadedIdsAreCanonical'
  BY <1>1 DEF UploadInv, UploadedIdsAreCanonical
<1>6. UploadOK(p)'
  BY <1>1, RaiseType, SMT DEF Idle, UploadOK, At, Profiling
<1> QED  BY <1>1, <1>2, <1>4, <1>5, <1>6, UploadStep

\* Every step keeps what is known of the profiles.
LEMMA NextUpload ==
  ASSUME TypeInv, UploadInv, Next
  PROVE  UploadInv'
  BY NewGridUpload, LoadDataUpload, GetNetworkUpload, BuildEurUpload,
     ProfileExistsUpload, BeginUploadUpload, EndUploadUpload, CachePutUpload,
     CrashUpload DEF Next, Step

-----------------------------------------------------------------------------
(* Theorem on profiles *)

\* The inductive invariant.
ProfileInv == TypeInv /\ UploadInv

\* It holds at first with the types, and every step keeps both.
LEMMA InductiveProfiles ==
  (Init => ProfileInv) /\ (ProfileInv /\ [Next]_vars => ProfileInv')
<1>1. ASSUME ProfileInv, UNCHANGED vars  PROVE ProfileInv'
  <2>1. TypeInv'
    BY <1>1, InductiveTypes DEF ProfileInv
  <2>2. /\ UNCHANGED <<dir, raw, writer, unpacked, unpacker, profiles, job, cache>>
        /\ UNCHANGED <<alone, raced, torn>>
    BY <1>1 DEF vars, disk, history
  <2>3. UploadInv'
    BY <1>1, <2>2
       DEF ProfileInv, UploadInv, UploadedIdsAreCanonical, CacheOK, UploadOK, AllStored,
           Stored, At
  <2> QED  BY <2>1, <2>3 DEF ProfileInv
<1> QED  BY <1>1, InitTypeInv, InitUploadInv, NextType, NextUpload DEF ProfileInv

\* The demand profile of the store has the numbers of the full network, whatever
\* was cached, filtered and built again.
THEOREM UploadsAreCanonical == Spec => []UploadedIdsAreCanonical
<1>1. ProfileInv => UploadedIdsAreCanonical
  BY DEF ProfileInv, UploadInv
<1> QED  BY <1>1, InductiveProfiles, PTL DEF Spec
=============================================================================
