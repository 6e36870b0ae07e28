---------------------------- MODULE MCPlainSource ----------------------------
(***************************************************************************)
(* Instances of PlainSource for TLC.                                       *)
(***************************************************************************)
EXTENDS PlainSource

CONSTANTS r1, r2, title, summary, empty, a

MCRowId == {r1, r2}
OneField == {title}
MCValue == {empty, a}

(* Items that name no field, give the field a text, the empty string, or   *)
(* the null pointer.                                                       *)
SomeItems == UNION { [D -> MCValue \cup {NULL}] : D \in SUBSET OneField }
==============================================================================
