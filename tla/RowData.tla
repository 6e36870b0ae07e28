------------------------------ MODULE RowData ------------------------------
(***************************************************************************)
(* The data one registered source stores for a row, and the pure functions *)
(* of registry.c on it.                                                    *)
(*                                                                         *)
(* A stored row gives each field a value, or NULL when the fields map has  *)
(* no entry for the composite key "row:field".  An item is what a caller   *)
(* hands to hyle_registry_put: the parallel arrays names / values, as a    *)
(* function on the named fields; a value there may be the C null pointer.  *)
(***************************************************************************)
EXTENDS Naturals

CONSTANTS
  Field,        \* the stored (not derived) fields of the schema
  Value,        \* the strings a field can hold
  Empty,        \* the empty string
  NULL,         \* "no entry", and the C null pointer in an item
  Record,       \* TRUE: typed record corm (record_id # 0), FALSE: plain map
  MallocFails,  \* TRUE when malloc may return NULL
  Items         \* the items callers put

ItemSet == UNION { [D -> Value \cup {NULL}] : D \in SUBSET Field }

ASSUME RowDataAssumption ==
  /\ Empty \in Value
  /\ NULL \notin Value
  /\ Record \in BOOLEAN
  /\ MallocFails \in BOOLEAN
  /\ Items \subseteq ItemSet

StoredRow == [Field -> Value \cup {NULL}]

BlankRow == [f \in Field |-> NULL]

-----------------------------------------------------------------------------
(* hyle_registry_put, the loop over names: a NULL value is stored as "".   *)
Stored(v) == IF v = NULL THEN Empty ELSE v

(* The first write to a row of a record map allocates its struct, so the   *)
(* fields that are not named read as the empty string.  A plain map gets   *)
(* one entry per named field and nothing else.                             *)
Allocated(row, item) ==
  IF Record /\ row = BlankRow /\ DOMAIN item # {}
  THEN [f \in Field |-> Empty]
  ELSE row

StoreItem(row, item) ==
  [f \in Field |-> IF f \in DOMAIN item
                   THEN Stored(item[f])
                   ELSE Allocated(row, item)[f]]

(* corm_del(fields_hd, row_id): the exact key is the struct of a record    *)
(* map; a plain map holds only "row:field" keys and loses nothing.         *)
CormDelFields(row) == IF Record THEN BlankRow ELSE row

(* ordered_move_key, the copy: a record struct is copied whole when there  *)
(* is one; the entries of a plain map are copied one by one, over whatever *)
(* entries the destination already has.                                    *)
CopiedOver(from, to) ==
  IF Record THEN IF from = BlankRow THEN to ELSE from
            ELSE [f \in Field |-> IF from[f] # NULL THEN from[f] ELSE to[f]]

(* The rows it may leave at the destination: where the buffer for the copy *)
(* of a struct cannot be allocated, nothing is copied.                     *)
ArrivedRows(from, to) ==
  {CopiedOver(from, to)} \cup (IF Record /\ MallocFails THEN {to} ELSE {})

(* The item that puts a stored row back: its entries.                      *)
ItemOf(row) == [f \in {g \in Field : row[g] # NULL} |-> row[f]]
=============================================================================
