----------------------------- MODULE OrderedList -----------------------------
(***************************************************************************)
(* What an ordered source promises its callers: one list of items per      *)
(* partition, edited by position, and a persisted copy of each list.       *)
(* A list is in memory once its partition is loaded; losing the memory     *)
(* (process restart, registering the source again) goes back to the last   *)
(* saved copy of every list.                                               *)
(***************************************************************************)
EXTENDS RowData, ZeroList

CONSTANTS Part

VARIABLES
  list,     \* the list of each partition, as its callers see it
  saved,    \* the copy the save callback persisted
  loaded    \* the partitions that are in memory

vars == <<list, saved, loaded>>

Init ==
  /\ list = [p \in Part |-> EmptyList]
  /\ saved = [p \in Part |-> EmptyList]
  /\ loaded = {}

(* The first operation on a partition brings its persisted list back.      *)
Load(p) ==
  /\ p \notin loaded
  /\ list' = [list EXCEPT ![p] = saved[p]]
  /\ loaded' = loaded \cup {p}
  /\ UNCHANGED saved

(* An inserted item is a fresh row: it owes nothing to what was stored at  *)
(* its position before.                                                    *)
Insert(p, pos, item) ==
  /\ p \in loaded
  /\ pos \in 0 .. list[p].len
  /\ list' = [list EXCEPT ![p] = Inserted(@, pos, StoreItem(BlankRow, item))]
  /\ UNCHANGED <<saved, loaded>>

Remove(p, pos) ==
  /\ p \in loaded
  /\ pos \in 0 .. list[p].len - 1
  /\ list' = [list EXCEPT ![p] = Removed(@, pos)]
  /\ UNCHANGED <<saved, loaded>>

Update(p, pos, item) ==
  /\ p \in loaded
  /\ pos \in 0 .. list[p].len - 1
  /\ list' = [list EXCEPT ![p] =
                Replaced(@, pos, StoreItem(@.at[pos], item))]
  /\ UNCHANGED <<saved, loaded>>

Clear(p) ==
  /\ p \in loaded
  /\ list' = [list EXCEPT ![p] = EmptyList]
  /\ UNCHANGED <<saved, loaded>>

(* What is persisted is the list in memory, also of a partition that was   *)
(* never brought in: the empty list.                                       *)
Save(p) ==
  /\ saved' = [saved EXCEPT ![p] = list[p]]
  /\ UNCHANGED <<list, loaded>>

(* When memory runs out while records are shifted, an item loses its       *)
(* fields and keeps its place.                                             *)
LoseFields(p, pos) ==
  /\ Record /\ MallocFails
  /\ p \in loaded
  /\ pos \in 0 .. list[p].len - 1
  /\ list' = [list EXCEPT ![p] = Replaced(@, pos, BlankRow)]
  /\ UNCHANGED <<saved, loaded>>

Forget ==
  /\ list' = [p \in Part |-> EmptyList]
  /\ loaded' = {}
  /\ UNCHANGED saved

Next ==
  \/ \E p \in Part :
       \/ Load(p) \/ Clear(p) \/ Save(p)
       \/ \E pos \in 0 .. list[p].len :
            \/ Remove(p, pos) \/ LoseFields(p, pos)
            \/ \E item \in Items : Insert(p, pos, item) \/ Update(p, pos, item)
  \/ Forget

Spec == Init /\ [][Next]_vars
==============================================================================
