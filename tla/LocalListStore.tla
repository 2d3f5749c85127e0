--------------------------- MODULE LocalListStore ---------------------------
(***************************************************************************)
(* A csv list in a directory that several processes share (the local and   *)
(* container deployments: LocalDataAccess).  Here the data store and the   *)
(* user's files are one file system, so that copy_from, which every query  *)
(* and every update runs first, copies the list to a temporary directory   *)
(* and moves it back over itself.  An update is                            *)
(*                                                                         *)
(*   checksum   remember the hash of the list            (verify_hash)     *)
(*   copy       copy the list to a temporary directory   (copy_from)       *)
(*   move back  move the copy over the list              (copy_from)       *)
(*   read       parse the list and apply the operation                     *)
(*   compare    the hash must be the remembered one      (push)            *)
(*   install    move the new table over the list         (push)            *)
(*                                                                         *)
(* and a query (get_scenario, get_status) is the second, third and fourth  *)
(* of these steps.  There is no lock: the steps of different processes     *)
(* interleave everywhere.  A move replaces the file in one step.           *)
(***************************************************************************)
EXTENDS CsvTable

CONSTANTS
    Processes,  \* the processes that share the directory
    Operations, \* the updates they ask for
    Query,      \* a request that only reads the list
    Stored,     \* the content of the list when the run starts
    None,       \* no content
    MaxRequests \* bound: how many requests are started in a run

ASSUME LocalListStoreAssumption ==
    /\ Operations \subseteq Operation
    /\ Query \notin Operation
    /\ Stored \in Contents
    /\ None \notin Contents
    /\ MaxRequests \in Nat

VARIABLES
    file,        \* the list
    pc,          \* how far each process's request has come
    req,         \* the request it performs
    prev,        \* the hash it remembers
    copy,        \* its copy of the list in a temporary directory
    base,        \* the table it read
    table,       \* the updated table it pushes
    result,      \* what its last request returned
    undisturbed, \* history: no other process wrote the list since its compare
    started      \* the requests started so far

vars == <<file, pc, req, prev, copy, base, table, result, undisturbed, started>>

Phases == {"idle", "started", "copied", "moved", "read", "compared"}

TypeOK ==
    /\ file \in Contents
    /\ pc \in [Processes -> Phases]
    /\ req \in [Processes -> Operation \cup {Query}]
    /\ prev \in [Processes -> Contents \cup {None}]
    /\ copy \in [Processes -> Contents \cup {None}]
    /\ base \in [Processes -> Contents \cup {None}]
    /\ table \in [Processes -> Contents \cup {None}]
    /\ result \in [Processes -> {"none", "ok", "error"}]
    /\ undisturbed \in [Processes -> BOOLEAN]
    /\ started \in Nat

Init ==
    /\ file = Stored
    /\ pc = [p \in Processes |-> "idle"]
    /\ req = [p \in Processes |-> Query]
    /\ prev = [p \in Processes |-> None]
    /\ copy = [p \in Processes |-> None]
    /\ base = [p \in Processes |-> None]
    /\ table = [p \in Processes |-> None]
    /\ result = [p \in Processes |-> "none"]
    /\ undisturbed = [p \in Processes |-> FALSE]
    /\ started = 0

Advance(p, from, to) == pc[p] = from /\ pc' = [pc EXCEPT ![p] = to]

Finish(p, outcome) ==
    /\ pc' = [pc EXCEPT ![p] = "idle"]
    /\ result' = [result EXCEPT ![p] = outcome]

\* Process p replaces the list.
Write(p, content) ==
    /\ file' = content
    /\ undisturbed' = [q \in Processes |-> undisturbed[q] /\ q = p]

-----------------------------------------------------------------------------
\* A request starts; an update remembers the hash of the list first.
Start(p, r) ==
    /\ Advance(p, "idle", "started")
    /\ started < MaxRequests
    /\ started' = started + 1
    /\ req' = [req EXCEPT ![p] = r]
    /\ prev' = [prev EXCEPT ![p] = IF r = Query THEN None ELSE file]
    /\ result' = [result EXCEPT ![p] = "none"]
    /\ UNCHANGED <<file, copy, base, table, undisturbed>>

\* copy_from: fs.copy.copy_file(self.fs, from_path, tmp_fs, from_path),
CopyOut(p) ==
    /\ Advance(p, "started", "copied")
    /\ copy' = [copy EXCEPT ![p] = file]
    /\ UNCHANGED <<file, req, prev, base, table, result, undisturbed, started>>

\* fs.move.move_file(tmp_fs, from_path, self.local_fs, from_path).
MoveBack(p) ==
    /\ Advance(p, "copied", "moved")
    /\ Write(p, copy[p])
    /\ UNCHANGED <<req, prev, copy, base, table, result, started>>

\* get opens the list itself, as it is by now; there is no blob storage behind
\* it.  A query ends here; so does the drop of an id that is not listed.
ReadAndUpdate(p) ==
    LET read == Concat(Parse(file), Blank)
    IN  /\ pc[p] = "moved"
        /\ base' = [base EXCEPT ![p] = Parse(file)]
        /\ \/ /\ req[p] = Query
              /\ Finish(p, "ok")
              /\ UNCHANGED table
           \/ /\ req[p] # Query /\ Raises(req[p], read)
              /\ Finish(p, "error")
              /\ UNCHANGED table
           \/ /\ req[p] # Query /\ ~Raises(req[p], read)
              /\ pc' = [pc EXCEPT ![p] = "read"]
              /\ table' = [table EXCEPT ![p] = Update(req[p], read)]
              /\ UNCHANGED result
        /\ UNCHANGED <<file, req, prev, copy, undisturbed, started>>

\* A faulty variant: push writes without comparing.
CompareSkipped(p) ==
    /\ Advance(p, "read", "compared")
    /\ undisturbed' = [undisturbed EXCEPT ![p] = TRUE]
    /\ UNCHANGED <<file, req, prev, copy, base, table, result, started>>

\* push: the hash is the remembered one,
Compare(p) ==
    /\ Advance(p, "read", "compared")
    /\ prev[p] = file
    /\ undisturbed' = [undisturbed EXCEPT ![p] = TRUE]
    /\ UNCHANGED <<file, req, prev, copy, base, table, result, started>>

\* ... or ValueError("Checksums do not match").
Mismatch(p) ==
    /\ pc[p] = "read"
    /\ prev[p] # file
    /\ Finish(p, "error")
    /\ UNCHANGED <<file, req, prev, copy, base, table, undisturbed, started>>

\* The table, written to a temporary file, is moved over the list.
Install(p) ==
    /\ pc[p] = "compared"
    /\ Finish(p, "ok")
    /\ Write(p, table[p])
    /\ UNCHANGED <<req, prev, copy, base, table, started>>

\* The process is stopped; its temporary files go with it.
Abort(p) ==
    /\ pc[p] # "idle"
    /\ Finish(p, "error")
    /\ UNCHANGED <<file, req, prev, copy, base, table, undisturbed, started>>

Step(p) ==
    \/ \E r \in Operations \cup {Query} : Start(p, r)
    \/ CopyOut(p)
    \/ MoveBack(p)
    \/ ReadAndUpdate(p)
    \/ Compare(p)
    \/ Mismatch(p)
    \/ Install(p)
    \/ Abort(p)

Next == \E p \in Processes : Step(p)

Spec == Init /\ [][Next]_vars

-----------------------------------------------------------------------------
\* Process p moves its new table over the list in this step.
Installs(p) == pc[p] = "compared" /\ pc'[p] = "idle" /\ result'[p] = "ok"

(***************************************************************************)
(* An update that no other process wrote the list between its comparison   *)
(* and its move, and that read what it had hashed, takes effect as one     *)
(* atomic step on the list as it is at that moment.                        *)
(***************************************************************************)
UndisturbedUpdateIsSerial ==
    [][\A p \in Processes :
         Installs(p) /\ undisturbed[p] /\ base[p] = Parse(prev[p]) =>
            file' = Update(req[p], Concat(Parse(file), Blank))]_vars
=============================================================================
