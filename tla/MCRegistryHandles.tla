-------------------------- MODULE MCRegistryHandles --------------------------
(***************************************************************************)
(* Instances of RegistryHandles for TLC.                                   *)
(***************************************************************************)
EXTENDS RegistryHandles

CONSTANT song

(* The lowest number that is not in use.                                   *)
LowestUnused(o) ==
  CHOOSE h \in Handle : h \notin o /\ \A g \in 1 .. h - 1 : g \in o
==============================================================================
