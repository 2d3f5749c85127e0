----------------------------- MODULE AtomicList -----------------------------
(***************************************************************************)
(* What the list managers promise their callers: a list that every update  *)
(* changes in one step, as if there were no files, no downloads and no     *)
(* other clients.  Blob is the part of the table that only blob storage    *)
(* knows.                                                                  *)
(***************************************************************************)
EXTENDS CsvTable

CONSTANTS
    Operations, \* the operations the callers ask for
    Stored,     \* the list to begin with
    Blob        \* the entries of <list>.2, which get_table adds

VARIABLE list

Init == list = Stored

Apply(o) ==
    LET read == Concat(Parse(list), Parse(Blob))
    IN  ~Raises(o, read) /\ list' = Update(o, read)

Next == \E o \in Operations : Apply(o)

Spec == Init /\ [][Next]_list
=============================================================================
