---------------------------- MODULE MCNativeReads ----------------------------
(***************************************************************************)
(* An instance of NativeReads for TLC: notes with a title that is searched *)
(* and a memo that is not, and a summary that providers derive.            *)
(***************************************************************************)
EXTENDS NativeReads

CONSTANTS r1, r2

RowSymmetry == Permutations({r1, r2})

MCField == {"title", "memo"}
MCValue == {"", "a", "long"}

MCItems == { "title" :> "a" }
MCProvider == {"title", "keep"}
MCReadsField == [p \in MCProvider |-> IF p = "keep" THEN "memo" ELSE "title"]
MCPutsItem == [p \in MCProvider |-> IF p = "keep" THEN "memo" :> "a" ELSE <<>>]
==============================================================================
