------------------------------ MODULE QueryData ------------------------------
(***************************************************************************)
(* What query strings and the queries of a source have in common: the null *)
(* pointer, and page numbers of Width bits.                                *)
(***************************************************************************)
EXTENDS Integers, Sequences, FiniteSets

CONSTANTS
  NULL,    \* the C null pointer: no entry, no text, no sort field, no op
  Width    \* bits of uint32_t

ASSUME QueryDataAssumption == Width \in Nat /\ 2 ^ Width \in Nat \ {0}
==============================================================================
