------------------------------ MODULE CsvTable ------------------------------
(***************************************************************************)
(* The tables that ScenarioListManager and ExecuteListManager keep in csv  *)
(* files, and what their methods compute on them.                          *)
(*                                                                         *)
(* A row stands for everything a line of the file says about a scenario    *)
(* (the owner and fields of a scenario, or its status).  The content of a  *)
(* file, and the data frame parsed from it, are the same record:           *)
(*   rows    the line of each id, NoRow where the file has none            *)
(*   header  whether the index column is called "id"; a file without that  *)
(*           name does not parse (csv_store.py, _parse_csv)                *)
(***************************************************************************)
EXTENDS Naturals, FiniteSets

CONSTANTS
    MaxId,      \* the largest id a run can represent
    Rows,       \* what a line of the file may say
    NoRow       \* the file has no line for this id

ASSUME CsvTableAssumption ==
    /\ MaxId \in Nat \ {0}
    /\ NoRow \notin Rows

Ids == 1 .. MaxId

RowMap == [Ids -> Rows \cup {NoRow}]

Contents == [header : BOOLEAN, rows : RowMap]

Present(rows) == {i \in Ids : rows[i] # NoRow}

\* pd.DataFrame(), what _get_table returns when there is nothing to parse.
Blank == [header |-> FALSE, rows |-> [i \in Ids |-> NoRow]]

\* _parse_csv fails without an "id" column, and _get_table then returns Blank.
Parse(content) == IF content.header THEN content ELSE Blank

\* get_table: pd.concat drops a completely empty frame; of two lines with the
\* same id the first one, that of the original file, is kept.
Concat(orig, blob) ==
    IF ~orig.header THEN blob
    ELSE IF ~blob.header THEN orig
    ELSE [header |-> TRUE,
          rows   |-> [i \in Ids |-> IF orig.rows[i] # NoRow
                                    THEN orig.rows[i] ELSE blob.rows[i]]]

\* A faulty variant: the id counts the entries instead of following the largest.
GenerateIdByCount(rows) == 1 + Cardinality(Present(rows))

\* _generate_scenario_id: one more than the largest id, or 1.
GenerateId(rows) ==
    IF Present(rows) = {} THEN 1
    ELSE 1 + CHOOSE m \in Present(rows) : \A i \in Present(rows) : i <= m

-----------------------------------------------------------------------------
\* The operations on a table: add_entry and delete_entry of the scenario list,
\* set_status and delete_entry of the execute list (whose add_entry is a
\* set_status to "created").
Operation == [kind : {"add", "delete", "set"}, id : Ids, row : Rows]

\* table.drop raises KeyError for an id that is not in the table.
Raises(op, table) == op.kind = "delete" /\ table.rows[op.id] = NoRow

\* The line an operation is about, and what the line says afterwards.
Target(op, table) == IF op.kind = "add" THEN GenerateId(table.rows) ELSE op.id

Line(op) == IF op.kind = "delete" THEN NoRow ELSE op.row

\* add_entry rebuilds the "id" index column; the others keep the one they read.
Update(op, table) ==
    [header |-> IF op.kind = "add" THEN TRUE ELSE table.header,
     rows   |-> [table.rows EXCEPT ![Target(op, table)] = Line(op)]]
=============================================================================
