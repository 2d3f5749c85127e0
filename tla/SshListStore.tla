---------------------------- MODULE SshListStore ----------------------------
(***************************************************************************)
(* A csv list on the server (ScenarioList.csv or ExecuteList.csv), updated *)
(* by several client machines through CsvStore, verify_hash and            *)
(* SSHDataAccess.  An update of a client is the sequence                   *)
(*                                                                         *)
(*   checksum   remember the sha1sum of the list        (verify_hash)      *)
(*   read       download and parse the list, and apply the operation       *)
(*   check      <list>.temp must not exist on the server (push)            *)
(*   stage      write the new table over the local copy                    *)
(*   upload     copy it to <list>.temp on the server                       *)
(*   swap       under flock: if the sha1sum is still the remembered one,   *)
(*              mv <list>.temp over the list, else CONFLICT_ERROR          *)
(*                                                                         *)
(* Only the swap is done under the lock; the steps of different clients    *)
(* interleave everywhere else.  A checksum is modelled by the content it   *)
(* is taken of (no collisions).                                            *)
(***************************************************************************)
EXTENDS CsvTable

CONSTANTS
    Clients,    \* the machines that update the list
    Operations, \* the operations they ask for
    Stored,     \* the content of the list when the run starts
    Blob,       \* the content of <list>.2 in blob storage, never written
    NoFile,     \* there is no such file
    MaxOps,     \* bound: how many updates are started in a run
    MaxFailures,\* bound: how many downloads fail in a run
    MaxCrashes  \* bound: how many clients stop or lose their connection

ASSUME SshListStoreAssumption ==
    /\ Operations \subseteq Operation /\ Operations # {}
    /\ Stored \in Contents
    /\ Blob \in Contents
    /\ NoFile \notin Contents
    /\ MaxOps \in Nat
    /\ MaxFailures \in Nat
    /\ MaxCrashes \in Nat

VARIABLES
    file,     \* the list on the server
    temp,     \* <list>.temp on the server
    local,    \* each client's local copy of the list
    blob,     \* each client's local copy of <list>.2, as parsed
    pc,       \* how far each client's update has come
    op,       \* the operation it performs
    prev,     \* the checksum it remembers
    base,     \* the content its table was read from
    table,    \* the updated table it pushes
    result,   \* what its last update returned
    alone,    \* history: no other client has pushed since its check
    started,  \* the updates started so far
    failures, \* the downloads that failed so far
    crashes   \* the updates cut off so far

vars == <<file, temp, local, blob, pc, op, prev, base, table, result, alone,
          started, failures, crashes>>

Phases == {"idle", "hashed", "read", "checked", "staged", "uploaded"}

\* Between the check of <list>.temp and the end of the push.
Pushing(c) == pc[c] \in {"checked", "staged", "uploaded"}

TypeOK ==
    /\ file \in Contents
    /\ temp \in Contents \cup {NoFile}
    /\ local \in [Clients -> Contents \cup {NoFile}]
    /\ blob \in [Clients -> {Blank, Parse(Blob)}]
    /\ pc \in [Clients -> Phases]
    /\ op \in [Clients -> Operation]
    /\ prev \in [Clients -> Contents]
    /\ base \in [Clients -> Contents]
    /\ table \in [Clients -> Contents]
    /\ result \in [Clients -> {"none", "ok", "error"}]
    /\ alone \in [Clients -> BOOLEAN]
    /\ started \in Nat
    /\ failures \in Nat
    /\ crashes \in Nat

\* A client that has never connected: no local copy of either file.
Init ==
    /\ file = Stored
    /\ temp = NoFile
    /\ local = [c \in Clients |-> NoFile]
    /\ blob = [c \in Clients |-> Blank]
    /\ pc = [c \in Clients |-> "idle"]
    /\ op = [c \in Clients |-> CHOOSE o \in Operations : TRUE]
    /\ prev = [c \in Clients |-> Stored]
    /\ base = [c \in Clients |-> Stored]
    /\ table = [c \in Clients |-> Stored]
    /\ result = [c \in Clients |-> "none"]
    /\ alone = [c \in Clients |-> FALSE]
    /\ started = 0
    /\ failures = 0
    /\ crashes = 0

Advance(c, from, to) == pc[c] = from /\ pc' = [pc EXCEPT ![c] = to]

Return(c, outcome) == result' = [result EXCEPT ![c] = outcome]

\* A download fails, or an update is cut off, only while the run allows it.
Failure(happens) ==
    /\ happens => failures < MaxFailures
    /\ failures' = IF happens THEN failures + 1 ELSE failures

Crash(happens) ==
    /\ happens => crashes < MaxCrashes
    /\ crashes' = IF happens THEN crashes + 1 ELSE crashes

-----------------------------------------------------------------------------
\* wrapper of verify_hash: the checksum is taken before the method reads.
Checksum(c, o) ==
    /\ Advance(c, "idle", "hashed")
    /\ started < MaxOps
    /\ started' = started + 1
    /\ op' = [op EXCEPT ![c] = o]
    /\ prev' = [prev EXCEPT ![c] = file]
    /\ Return(c, "none")
    /\ UNCHANGED <<file, temp, local, blob, base, table, alone, failures,
                   crashes>>

\* A faulty variant: a local copy is taken for the list without a download.
DownloadedOnce(c, failed) ==
    IF failed \/ local[c] # NoFile THEN local[c] ELSE file

\* _get_table of the list: copy_from replaces the local copy; when it fails,
\* for whatever reason, the local copy is read as it is.
Downloaded(c, failed) == IF failed THEN local[c] ELSE file

\* What parsing the local copy gives; Blank when there is none.
Readable(content) == IF content = NoFile THEN Blank ELSE Parse(content)

\* The method under verify_hash: get_table, then its own change of the table.
\* An exception of the method ends the update before anything is pushed.
ReadAndUpdate(c, failed, blobFailed) ==
    LET content == Downloaded(c, failed)
        blobRead == IF blobFailed THEN blob[c] ELSE Parse(Blob)
        read == Concat(Readable(content), blobRead)
    IN  /\ pc[c] = "hashed"
        /\ Failure(failed \/ blobFailed)
        /\ local' = [local EXCEPT ![c] = content]
        /\ blob' = [blob EXCEPT ![c] = blobRead]
        /\ base' = [base EXCEPT ![c] = Readable(content)]
        /\ \/ /\ Raises(op[c], read)
              /\ pc' = [pc EXCEPT ![c] = "idle"]
              /\ Return(c, "error")
              /\ UNCHANGED table
           \/ /\ ~Raises(op[c], read)
              /\ pc' = [pc EXCEPT ![c] = "read"]
              /\ table' = [table EXCEPT ![c] = Update(op[c], read)]
              /\ UNCHANGED result
        /\ UNCHANGED <<file, temp, op, prev, alone, started, crashes>>

\* A faulty variant: push starts without looking for <list>.temp.
CheckTempSkipped(c) ==
    /\ Advance(c, "read", "checked")
    /\ alone' = [d \in Clients |->
                   IF d = c THEN \A e \in Clients \ {c} : ~Pushing(e)
                   ELSE alone[d] /\ ~Pushing(d)]
    /\ UNCHANGED <<file, temp, local, blob, op, prev, base, table, result,
                   started, failures, crashes>>

\* push: _check_file_exists(backup, should_exist=False) passes.
CheckTemp(c) ==
    /\ Advance(c, "read", "checked")
    /\ temp = NoFile
    /\ alone' = [d \in Clients |->
                   IF d = c THEN \A e \in Clients \ {c} : ~Pushing(e)
                   ELSE alone[d] /\ ~Pushing(d)]
    /\ UNCHANGED <<file, temp, local, blob, op, prev, base, table, result,
                   started, failures, crashes>>

\* ... or raises OSError because <list>.temp is there.
TempExists(c) ==
    /\ Advance(c, "read", "idle")
    /\ temp # NoFile
    /\ Return(c, "error")
    /\ UNCHANGED <<file, temp, local, blob, op, prev, base, table, alone,
                   started, failures, crashes>>

\* A faulty variant: the new table never reaches the local copy.
StageForgotten(c) ==
    /\ Advance(c, "checked", "staged")
    /\ UNCHANGED <<file, temp, local, blob, op, prev, base, table, result,
                   alone, started, failures, crashes>>

\* The with block of push: the table is written to a temporary file, which is
\* moved over the local copy of the list,
Stage(c) ==
    /\ Advance(c, "checked", "staged")
    /\ local' = [local EXCEPT ![c] = table[c]]
    /\ UNCHANGED <<file, temp, blob, op, prev, base, table, result, alone,
                   started, failures, crashes>>

\* and the local copy is copied to <list>.temp, whatever is there by now.
Upload(c) ==
    /\ Advance(c, "staged", "uploaded")
    /\ temp' = local[c]
    /\ UNCHANGED <<file, local, blob, op, prev, base, table, result, alone,
                   started, failures, crashes>>

\* A faulty variant: mv without comparing the checksums.
SwapUncompared(c, answerLost) ==
    /\ Advance(c, "uploaded", "idle")
    /\ temp # NoFile
    /\ Crash(answerLost)
    /\ file' = temp
    /\ temp' = NoFile
    /\ Return(c, IF answerLost THEN "error" ELSE "ok")
    /\ UNCHANGED <<local, blob, op, prev, base, table, alone, started,
                   failures>>

\* The command under flock when the checksums agree: mv.  The answer may be
\* lost after the command has run, which the client sees as an exception.
Swap(c, answerLost) ==
    /\ Advance(c, "uploaded", "idle")
    /\ prev[c] = file
    /\ temp # NoFile
    /\ Crash(answerLost)
    /\ file' = temp
    /\ temp' = NoFile
    /\ Return(c, IF answerLost THEN "error" ELSE "ok")
    /\ UNCHANGED <<local, blob, op, prev, base, table, alone, started,
                   failures>>

\* CONFLICT_ERROR, or mv complains that <list>.temp is gone: stderr is not
\* empty and push raises IOError.  <list>.temp stays if it is there.
SwapError(c) ==
    /\ Advance(c, "uploaded", "idle")
    /\ prev[c] # file \/ temp = NoFile
    /\ Return(c, "error")
    /\ UNCHANGED <<file, temp, local, blob, op, prev, base, table, alone,
                   started, failures, crashes>>

\* A lost connection or the end of the process stops an update at any point.
Abort(c) ==
    /\ pc[c] # "idle"
    /\ pc' = [pc EXCEPT ![c] = "idle"]
    /\ Crash(TRUE)
    /\ Return(c, "error")
    /\ UNCHANGED <<file, temp, local, blob, op, prev, base, table, alone,
                   started, failures>>

Step(c) ==
    \/ \E o \in Operations : Checksum(c, o)
    \/ \E failed, blobFailed \in BOOLEAN : ReadAndUpdate(c, failed, blobFailed)
    \/ CheckTemp(c)
    \/ TempExists(c)
    \/ Stage(c)
    \/ Upload(c)
    \/ \E answerLost \in BOOLEAN : Swap(c, answerLost)
    \/ SwapError(c)
    \/ Abort(c)

Next == \E c \in Clients : Step(c)

Spec == Init /\ [][Next]_vars

-----------------------------------------------------------------------------
\* Client c's swap moves <list>.temp over the list in this step.
Commits(c) ==
    /\ pc[c] = "uploaded" /\ pc'[c] = "idle"
    /\ temp # NoFile /\ temp' = NoFile

\* The client's table was read from the content its checksum is of.
Fresh(c) == base[c] = Parse(prev[c])

(***************************************************************************)
(* What an update carries from step to step.  The table it pushes is its   *)
(* operation applied to what it read; once the with block of push has run  *)
(* the local copy is that table; and as long as no other client entered    *)
(* push since its check, no other client is in push at all and             *)
(* <list>.temp, once uploaded, is that table and still there.              *)
(***************************************************************************)
PushInvariant ==
    \A c \in Clients :
        /\ pc[c] \in {"read", "checked", "staged", "uploaded"} =>
              table[c] = Update(op[c], Concat(base[c], blob[c]))
        /\ pc[c] \in {"staged", "uploaded"} => local[c] = table[c]
        /\ Pushing(c) /\ alone[c] => \A d \in Clients \ {c} : ~Pushing(d)
        /\ pc[c] = "uploaded" /\ alone[c] => temp = table[c]

(***************************************************************************)
(* A commit of a client that had the push to itself, and whose download    *)
(* gave the content its checksum is of, is one atomic step: the list       *)
(* becomes the operation applied to what the list is at that very moment,  *)
(* however many updates of other clients completed since the client read   *)
(* it, and the client's local copy agrees with the server.  This is what   *)
(* the checksum comparison under flock is for.                             *)
(***************************************************************************)
ExclusiveCommitIsSerial ==
    [][\A c \in Clients :
         Commits(c) /\ alone[c] /\ Fresh(c) =>
            /\ file' = Update(op[c], Concat(Parse(file), blob[c]))
            /\ local'[c] = file']_vars

(***************************************************************************)
(* Such a commit of add_entry never touches an existing scenario: the id   *)
(* that _generate_scenario_id picked from the downloaded table is still    *)
(* unused when the new table is installed.                                 *)
(***************************************************************************)
AddKeepsEveryEntry ==
    [][\A c \in Clients :
         Commits(c) /\ alone[c] /\ Fresh(c) /\ op[c].kind = "add" =>
            \A i \in Present(Parse(file).rows) : file'.rows[i] = file.rows[i]]_vars

(***************************************************************************)
(* push refuses to start while <list>.temp exists, and nothing but a push  *)
(* ever removes that file.  So once a conflict, a lost connection or a     *)
(* crash has left it behind with no push under way, the list is frozen: no *)
(* later update of any client changes it.                                  *)
(***************************************************************************)
Wedged == temp # NoFile /\ \A c \in Clients : ~Pushing(c)

WedgedForever == [][Wedged => Wedged' /\ UNCHANGED <<file, temp>>]_vars

-----------------------------------------------------------------------------
(***************************************************************************)
(* One client at a time.  As long as the downloads succeed, a single       *)
(* client implements the atomic list, even when it is cut off and restarts *)
(* between any two steps, or loses the answer to its mv.                   *)
(***************************************************************************)
Atomic == INSTANCE AtomicList WITH list <- file

ImplementsAtomicList == Atomic!Spec

-----------------------------------------------------------------------------
(***************************************************************************)
(* What the documentation of push and verify_hash promises of every commit *)
(***************************************************************************)

(***************************************************************************)
(* "Push file to server and verify the checksum matches a prior value":    *)
(* the file that a successful push installs is the one it pushed.          *)
(***************************************************************************)
InstallsOwnTable == [][\A c \in Clients : Commits(c) => file' = table[c]]_vars
=============================================================================
