------------------------------ MODULE RowExport ------------------------------
(***************************************************************************)
(* The rows of a query result handed to Rust: hyle_row_set_to_rows copies  *)
(* them into blocks of their own, row_set_to_rust reads the copy and has   *)
(* it freed.  Every allocation may fail.                                   *)
(*                                                                         *)
(* The result is a sequence of rows, each with its id and the sequence of  *)
(* its fields.  A block is <<what, row, field>>, numbered from 1; the      *)
(* array of rows is <<"rows", 0, 0>>.                                      *)
(***************************************************************************)
EXTENDS Naturals, Sequences, FiniteSets

CONSTANTS
  FirstCapacity,  \* of the arrays of names and values: 16
  MaxAbsent       \* bound: the copies of texts that may fail in one export

ASSUME RowExportAssumption == FirstCapacity \in Nat \ {0} /\ MaxAbsent \in Nat

VARIABLES
  result,     \* the rows that are exported
  call,       \* where the call is
  at,         \* the row (ri + 1) and the field (cnt + 1) it is at
  cap,        \* room in the arrays of the row
  held,       \* the blocks allocated and not freed
  absent,     \* the copies of texts for which there was no memory
  received,   \* what the Rust caller was given
  short       \* history: the row whose arrays could not grow, or 0

exportVars == <<result, call, at, cap, held, absent, received, short>>

First == [row |-> 1, field |-> 1]

ExportInit ==
  /\ result = <<>> /\ call = "idle" /\ at = First /\ cap = FirstCapacity
  /\ held = {} /\ absent = {} /\ received = <<>> /\ short = 0

Fields == result[at.row].fields
Texts(i, j) == { <<"name", i, j>>, <<"value", i, j>> }
Arrays(i) == { <<"names", i, 0>>, <<"values", i, 0>> }

(* row_set_to_rust starts; a result without rows is exported as none.      *)
ExportStart(rows) ==
  /\ call = "idle"
  /\ result' = rows /\ call' = IF rows = <<>> THEN "returned" ELSE "rows"
  /\ UNCHANGED <<at, cap, held, absent, received, short>>

(* rows = calloc(total, ...)                                               *)
AllocRows ==
  /\ call = "rows"
  /\ \/ call' = "row" /\ held' = {<<"rows", 0, 0>>}
     \/ call' = "returned" /\ UNCHANGED held
  /\ UNCHANGED <<result, at, cap, absent, received, short>>

(* Mutant: hyle_rows_free leaves the ids.                                  *)
RowsFreeButIds(blocks, count) == { b \in blocks : b[2] > count \/ b[1] = "id" }

(* hyle_rows_free(rows, count): the blocks that are left.                  *)
RowsFree(blocks, count) == { b \in blocks : b[2] > count }

(* return -1: row_set_to_rust gives its caller no rows.                    *)
Fail(blocks) ==
  /\ call' = "returned" /\ held' = blocks
  /\ UNCHANGED <<result, at, cap, absent, received>>

(* The names and values of a row; when one is missing, the other is freed  *)
(* and the rows before this one are.                                       *)
AllocArrays ==
  /\ call = "row"
  /\ \/ /\ call' = "fields" /\ held' = held \cup Arrays(at.row)
        /\ cap' = FirstCapacity
        /\ UNCHANGED <<result, at, absent, received>>
     \/ Fail(RowsFree(held, at.row - 1))
  /\ UNCHANGED short

NeedsRoom == at.field > cap

(* Arrays that cannot grow: they are freed and the rows before this one    *)
(* are, but not the texts this row has already.                            *)
CannotGrow ==
  /\ call = "fields" /\ at.field <= Len(Fields) /\ NeedsRoom
  /\ Fail(RowsFree(held \ Arrays(at.row), at.row - 1))
  /\ short' = at.row

(* One field: both texts are copied, and each copy may be a null pointer.  *)
CopyField(nulls) ==
  /\ call = "fields" /\ at.field <= Len(Fields)
  /\ Cardinality(absent \cup nulls) <= MaxAbsent
  /\ cap' = IF NeedsRoom THEN 2 * cap ELSE cap
  /\ held' = held \cup (Texts(at.row, at.field) \ nulls)
  /\ absent' = absent \cup nulls
  /\ at' = [at EXCEPT !.field = @ + 1]
  /\ UNCHANGED <<result, call, received, short>>

CopyId(nulls) ==
  /\ call = "fields" /\ at.field > Len(Fields)
  /\ Cardinality(absent \cup nulls) <= MaxAbsent
  /\ held' = held \cup ({<<"id", at.row, 0>>} \ nulls)
  /\ absent' = absent \cup nulls
  /\ at' = [row |-> at.row + 1, field |-> 1]
  /\ call' = IF at.row = Len(result) THEN "full" ELSE "row"
  /\ UNCHANGED <<result, cap, received, short>>

(* row_set_to_rust: every text is read with CStr::from_ptr, which a null   *)
(* pointer crashes; then the copy is freed.                                *)
Receive ==
  /\ call = "full"
  /\ IF absent # {}
     THEN call' = "crashed" /\ UNCHANGED <<held, received>>
     ELSE /\ call' = "returned"
          /\ received' = result /\ held' = RowsFree(held, Len(result))
  /\ UNCHANGED <<result, at, cap, absent, short>>

(* The caller goes on; what was lost is not looked at any more.            *)
ExportEnd ==
  /\ call = "returned"
  /\ result' = <<>> /\ call' = "idle" /\ at' = First /\ cap' = FirstCapacity
  /\ held' = {} /\ absent' = {} /\ received' = <<>> /\ short' = 0

ExportStep ==
  \/ AllocRows \/ AllocArrays \/ CannotGrow \/ Receive \/ ExportEnd
  \/ \E nulls \in SUBSET Texts(at.row, at.field) : CopyField(nulls)
  \/ \E nulls \in SUBSET {<<"id", at.row, 0>>} : CopyId(nulls)

ResultRow == [id : STRING, fields : Seq(STRING)]

ExportNext == ExportStep \/ \E rows \in Seq(ResultRow) : ExportStart(rows)

ExportSpec == ExportInit /\ [][ExportNext]_exportVars

-----------------------------------------------------------------------------
(* Whichever allocation of an export fails, the caller has either all the  *)
(* rows or none, and every block is given back; only the texts of one row  *)
(* are lost, and only when the arrays of that very row could not grow.     *)
ExportFreesAll ==
  call = "returned" =>
    /\ received \in {<<>>, result}
    /\ received = result => held = {}
    /\ \A b \in held : short # 0 /\ b \in Texts(short, b[3])
=============================================================================
