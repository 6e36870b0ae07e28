----------------------------- MODULE NativeReads -----------------------------
(***************************************************************************)
(* A program in another language on one source: it reads texts, registers  *)
(* derive providers, searches (which builds the index anew), writes, and   *)
(* takes the rows of a query over as its own.  One thread calls: a call    *)
(* ends before the next begins, except for the reads and writes of a       *)
(* provider.                                                               *)
(***************************************************************************)
EXTENDS TextReads, RowExport, SequencesExt

vars == <<textVars, exportVars>>

(* The row set of a query without filters, in the order of the row map: of *)
(* each row the fields that have an entry in the fields map.               *)
RowSet(ids) ==
  [i \in DOMAIN ids |->
     [id |-> ids[i], fields |-> SetToSeq({ f \in Field : fields_hd[ids[i]][f] # NULL })]]

Export == \E ids \in SetToSeqs(row_hd) : ExportStart(RowSet(ids))

Init == ReadsInit /\ ExportInit

Next ==
  \/ call = "idle" /\ ReadsNext /\ UNCHANGED exportVars
  \/ ~rebuilding /\ (Export \/ ExportStep) /\ UNCHANGED textVars

Spec == Init /\ [][Next]_vars
==============================================================================
