---------------------------- MODULE OrderedSource ----------------------------
(***************************************************************************)
(* A source registered with hyle_ordered_register: positional arrays, one  *)
(* per partition, stored under the keys "{partition}__{NNNN}" of the maps  *)
(* of a registry entry, with a count per partition (order_hd), a loaded    *)
(* flag per partition (loaded_hd) and load and save callbacks.             *)
(*                                                                         *)
(* A call that moves rows is several steps: the loop of insert_at and of   *)
(* remove_at calls ordered_move_key once per position.  The library runs a *)
(* call to its end before the next one starts; only the loss of the        *)
(* process (Restart) comes between two steps.                              *)
(***************************************************************************)
EXTENDS RowStore, ZeroList, FiniteSets

CONSTANTS
  Part,         \* partition values
  MaxLen,       \* bound: no partition grows beyond this many items
  Overlap,      \* <<p, q>>: the keys of q start with "p__" (p = "a", q = "a__b")
  LoadFails,    \* TRUE when a load callback may fail, part way
  SaveFails,    \* TRUE when a save callback may fail
  StrayPuts     \* TRUE when the program also puts on keys of missing items

Positions == 0 .. MaxLen - 1
Key(p, pos) == <<p, pos>>

ASSUME OrderedAssumption ==
  /\ IsFiniteSet(Part)
  /\ MaxLen \in Nat
  /\ RowId = Part \X Positions
  /\ Overlap \subseteq Part \X Part
  /\ LoadFails \in BOOLEAN
  /\ SaveFails \in BOOLEAN
  /\ StrayPuts \in BOOLEAN

VARIABLES
  order_hd,     \* the count of each partition (no entry reads as 0)
  loaded_hd,    \* the partitions marked as loaded
  call,         \* the call in progress
  storage,      \* what the save callback persisted, outside the process
  load_failed,  \* partitions whose load callback reported failure (ignored)
  strays        \* history: the keys beyond the count the program has put on

orderVars == <<order_hd, loaded_hd, call, storage, load_failed, strays>>
vars == <<rowVars, orderVars>>

-----------------------------------------------------------------------------
Idle == [op |-> "idle"]
InsertCall(p, pos, item, hole) ==
  [op |-> "insert", pval |-> p, pos |-> pos, item |-> item, hole |-> hole]
RemoveCall(p, hole) == [op |-> "remove", pval |-> p, hole |-> hole]
SaveCall(p) == [op |-> "save", pval |-> p]

Calls ==
  {Idle}
  \cup [op : {"insert"}, pval : Part, pos : Nat, item : Items, hole : Nat]
  \cup [op : {"remove"}, pval : Part, hole : Nat]
  \cup [op : {"save"}, pval : Part]

Init ==
  /\ RowStoreInit
  /\ order_hd = [p \in Part |-> 0]
  /\ loaded_hd = {}
  /\ call = Idle
  /\ storage = [p \in Part |-> EmptyList]
  /\ load_failed = {}
  /\ strays = {}

(* ordered_partition_count: the keys that start with "p__".                *)
PartitionCount(rows, p) ==
  Cardinality({ r \in rows : r[1] = p \/ <<p, r[1]>> \in Overlap })

(* The items of a partition, as a save callback reads them.                *)
Contents(p) ==
  [len |-> order_hd[p],
   at  |-> [i \in 0 .. order_hd[p] - 1 |-> fields_hd[Key(p, i)]]]

(* ordered_move_key: the row key moves and the fields at the old key are   *)
(* deleted whether they could be copied or not.                            *)
MoveKey(from, to) ==
  /\ \E row \in ArrivedRows(fields_hd[from], fields_hd[to]) :
       fields_hd' = [fields_hd EXCEPT ![to] = row, ![from] = CormDelFields(@)]
  /\ row_hd' = (row_hd \cup {to}) \ {from}
  /\ MarkDirty
  /\ UNCHANGED <<tokens_hd, derived, lemma_index>>

-----------------------------------------------------------------------------
(* The load callback puts the first k persisted items back through         *)
(* hyle_registry_put.                                                      *)
LoadItems(p, k) ==
  LET Put == { r \in RowId : r[1] = p /\ r[2] < k }
      Item(r) == ItemOf(storage[p].at[r[2]])
  IN /\ row_hd' = row_hd \cup Put
     /\ fields_hd' = [r \in RowId |-> IF r \in Put
                                      THEN StoreItem(fields_hd[r], Item(r))
                                      ELSE fields_hd[r]]
     /\ \E lost \in [Put -> SUBSET Field] :
          /\ \A r \in Put : lost[r] \in Losses(Item(r))
          /\ tokens_hd' = [r \in RowId |->
                             IF r \in Put
                             THEN WriteTokens(tokens_hd[r], Item(r), lost[r])
                             ELSE tokens_hd[r]]
     /\ lemma_dirty' = (lemma_dirty \/ (HasIndex /\ k > 0))
     /\ UNCHANGED <<derived, lemma_index>>

(* Mutant: the count is the one that was saved, not the keys that came.    *)
EnsureLoadedBySavedCount(p) ==
  /\ call = Idle
  /\ p \notin loaded_hd
  /\ loaded_hd' = loaded_hd \cup {p}
  /\ \E k \in IF LoadFails THEN 0 .. storage[p].len ELSE {storage[p].len} :
       LoadItems(p, k)
  /\ order_hd' = [order_hd EXCEPT ![p] = storage[p].len]
  /\ UNCHANGED <<call, storage, load_failed, strays>>

(* ordered_ensure_loaded, the beginning of every positional call: the      *)
(* partition is marked before the callback runs, what the callback returns *)
(* is dropped, and the count is taken from the keys that are there         *)
(* afterwards.  A save callback that asks for the count or a key of its    *)
(* partition gets here too (call = SaveCall(p)).                           *)
EnsureLoaded(p) ==
  /\ call \in {Idle, SaveCall(p)}
  /\ p \notin loaded_hd
  /\ loaded_hd' = loaded_hd \cup {p}
  /\ \E k \in IF LoadFails THEN 0 .. storage[p].len ELSE {storage[p].len} :
       /\ LoadItems(p, k)
       /\ load_failed' = IF k < storage[p].len
                         THEN load_failed \cup {p} ELSE load_failed
  /\ PartitionCount(row_hd', p) <= MaxLen
  /\ order_hd' = [order_hd EXCEPT ![p] = PartitionCount(row_hd', p)]
  /\ UNCHANGED <<call, storage, strays>>

(* Every positional call but hyle_ordered_save first makes sure the        *)
(* partition is loaded.                                                    *)
Ready(p) == call = Idle /\ p \in loaded_hd

(* hyle_ordered_append *)
Append(p, item) ==
  /\ Ready(p)
  /\ order_hd[p] < MaxLen
  /\ RegistryPut(Key(p, order_hd[p]), item)
  /\ order_hd' = [order_hd EXCEPT ![p] = @ + 1]
  /\ strays' = strays \ {Key(p, order_hd[p])}
  /\ call' = SaveCall(p)
  /\ UNCHANGED <<loaded_hd, storage, load_failed>>

(* hyle_ordered_insert_at: positions pos .. n-1 move up, the last one      *)
(* first, which leaves a hole that travels from n down to pos.             *)
InsertStart(p, pos, item) ==
  /\ Ready(p)
  /\ order_hd[p] < MaxLen
  /\ pos \in 0 .. order_hd[p]
  /\ call' = InsertCall(p, pos, item, order_hd[p])
  /\ UNCHANGED <<rowVars, order_hd, loaded_hd, storage, load_failed, strays>>

(* Mutant: the loop does not count down.                                   *)
ShiftUpForever ==
  /\ call.op = "insert"
  /\ call.hole > call.pos
  /\ MoveKey(Key(call.pval, call.hole - 1), Key(call.pval, call.hole))
  /\ UNCHANGED orderVars

ShiftUp ==
  /\ call.op = "insert"
  /\ call.hole > call.pos
  /\ MoveKey(Key(call.pval, call.hole - 1), Key(call.pval, call.hole))
  /\ call' = InsertCall(call.pval, call.pos, call.item, call.hole - 1)
  /\ UNCHANGED <<order_hd, loaded_hd, storage, load_failed, strays>>

InsertFinish ==
  /\ call.op = "insert"
  /\ call.hole <= call.pos
  /\ RegistryPut(Key(call.pval, call.pos), call.item)
  /\ order_hd' = [order_hd EXCEPT ![call.pval] = @ + 1]
  /\ strays' = strays \ {Key(call.pval, order_hd[call.pval])}
  /\ call' = SaveCall(call.pval)
  /\ UNCHANGED <<loaded_hd, storage, load_failed>>

(* Mutant: the position may be the count.                                  *)
RemoveStartAtCount(p, pos) ==
  /\ Ready(p)
  /\ pos \in 0 .. order_hd[p]
  /\ RegistryDel(Key(p, pos))
  /\ call' = RemoveCall(p, pos)
  /\ UNCHANGED <<order_hd, loaded_hd, storage, load_failed, strays>>

(* hyle_ordered_remove_at: the row is deleted, then positions pos+1 .. n-1 *)
(* move down and the hole travels from pos up to n-1.                      *)
RemoveStart(p, pos) ==
  /\ Ready(p)
  /\ pos \in 0 .. order_hd[p] - 1
  /\ RegistryDel(Key(p, pos))
  /\ call' = RemoveCall(p, pos)
  /\ UNCHANGED <<order_hd, loaded_hd, storage, load_failed, strays>>

ShiftDown ==
  /\ call.op = "remove"
  /\ call.hole < order_hd[call.pval] - 1
  /\ MoveKey(Key(call.pval, call.hole + 1), Key(call.pval, call.hole))
  /\ call' = RemoveCall(call.pval, call.hole + 1)
  /\ UNCHANGED <<order_hd, loaded_hd, storage, load_failed, strays>>

RemoveFinish ==
  /\ call.op = "remove"
  /\ call.hole >= order_hd[call.pval] - 1
  /\ order_hd' = [order_hd EXCEPT ![call.pval] = @ - 1]
  /\ call' = SaveCall(call.pval)
  /\ UNCHANGED <<rowVars, loaded_hd, storage, load_failed, strays>>

(* Mutant: nothing is saved.                                               *)
ClearWithoutSave(p) ==
  LET Gone == { r \in RowId : r[1] = p /\ r[2] < order_hd[p] }
  IN /\ Ready(p)
     /\ row_hd' = row_hd \ Gone
     /\ fields_hd' = [r \in RowId |-> IF r \in Gone THEN BlankRow ELSE fields_hd[r]]
     /\ lemma_dirty' = (lemma_dirty \/ HasIndex)
     /\ order_hd' = [order_hd EXCEPT ![p] = 0]
     /\ UNCHANGED <<tokens_hd, derived, lemma_index, loaded_hd, call, storage,
                    load_failed, strays>>

(* hyle_ordered_clear *)
Clear(p) ==
  LET Gone == { r \in RowId : r[1] = p /\ r[2] < order_hd[p] }
  IN /\ Ready(p)
     /\ row_hd' = row_hd \ Gone
     /\ fields_hd' = [r \in RowId |-> IF r \in Gone
                                      THEN CormDelFields(fields_hd[r])
                                      ELSE fields_hd[r]]
     /\ lemma_dirty' = (lemma_dirty \/ (HasIndex /\ order_hd[p] > 0))
     /\ order_hd' = [order_hd EXCEPT ![p] = 0]
     /\ call' = SaveCall(p)
     /\ UNCHANGED <<tokens_hd, derived, lemma_index, loaded_hd, storage,
                    load_failed, strays>>

(* hyle_ordered_save, called by the program.  It does not load: of a       *)
(* partition nobody has loaded the callback finds no items in the maps,    *)
(* and persists none, unless it asks for the count (EnsureLoaded) first.   *)
ExplicitSave(p) ==
  /\ call = Idle
  /\ call' = SaveCall(p)
  /\ UNCHANGED <<rowVars, order_hd, loaded_hd, storage, load_failed, strays>>

(* ordered_save: the callback persists the items, or fails; the functions  *)
(* that call it drop what it returns.                                      *)
SaveCallback ==
  /\ call.op = "save"
  /\ \/ storage' = [storage EXCEPT ![call.pval] = Contents(call.pval)]
     \/ SaveFails /\ storage' = storage
  /\ call' = Idle
  /\ UNCHANGED <<rowVars, order_hd, loaded_hd, load_failed, strays>>

(* hyle_registry_put on the key hyle_ordered_key_at gives for a position:  *)
(* the way an item is edited in place.  Nothing is saved.  key_at looks at *)
(* no count and gives a key for every position, so the row of a missing    *)
(* item is put as well, by a program that does not compare the position    *)
(* with the count itself (StrayPuts).                                      *)
UpdateItem(p, pos, item) ==
  /\ Ready(p)
  /\ pos \in Positions
  /\ pos < order_hd[p] \/ StrayPuts
  /\ RegistryPut(Key(p, pos), item)
  /\ strays' = IF pos < order_hd[p] THEN strays ELSE strays \cup {Key(p, pos)}
  /\ UNCHANGED <<order_hd, loaded_hd, call, storage, load_failed>>

(* A full-text query on the source.                                        *)
SearchQuery ==
  /\ call = Idle
  /\ RefreshIndex
  /\ UNCHANGED orderVars

(* The process is lost, or hyle_ordered_register replaces the source: the  *)
(* maps start empty again, the persisted copies stay.                      *)
Restart ==
  /\ row_hd' = {}
  /\ fields_hd' = [r \in RowId |-> BlankRow]
  /\ tokens_hd' = [r \in RowId |-> NoTokens]
  /\ lemma_index' = {}
  /\ lemma_dirty' = TRUE
  /\ order_hd' = [p \in Part |-> 0]
  /\ loaded_hd' = {}
  /\ call' = Idle
  /\ load_failed' = {}
  /\ strays' = {}
  /\ UNCHANGED <<derived, storage>>

CallStep ==
  ShiftUp \/ InsertFinish \/ ShiftDown \/ RemoveFinish \/ SaveCallback

Next ==
  \/ \E p \in Part : EnsureLoaded(p) \/ Clear(p) \/ ExplicitSave(p)
  \/ \E p \in Part, item \in Items : Append(p, item)
  \/ \E p \in Part, pos \in 0 .. MaxLen, item \in Items :
       InsertStart(p, pos, item) \/ UpdateItem(p, pos, item)
  \/ \E p \in Part, pos \in Positions : RemoveStart(p, pos)
  \/ CallStep
  \/ SearchQuery
  \/ Restart

Spec == Init /\ [][Next]_vars

(* A call that has started runs to its end: its loop takes its next step   *)
(* and its save callback returns.                                          *)
FairSpec == Spec /\ WF_vars(CallStep)

-----------------------------------------------------------------------------
(* The list a partition stands for.  While a call shifts the rows of the   *)
(* partition, the hole is at no position of the list.                      *)
Shifting(p) == call.op \in {"insert", "remove"} /\ call.pval = p

RowAt(p, i) == IF Shifting(p) THEN IF i < call.hole THEN i ELSE i + 1 ELSE i

ListLen(p) ==
  IF Shifting(p) /\ call.op = "remove" THEN order_hd[p] - 1 ELSE order_hd[p]

ListOfPart(p) ==
  [len |-> ListLen(p),
   at  |-> [i \in 0 .. ListLen(p) - 1 |-> fields_hd[Key(p, RowAt(p, i))]]]

List == INSTANCE OrderedList
  WITH list <- [p \in Part |-> ListOfPart(p)],
       saved <- storage,
       loaded <- loaded_hd

(* An ordered source is a list per partition: every call, loop and         *)
(* callback of it maps to one edit of one list or to no change, an item    *)
(* keeps its fields while it is shifted, an inserted item starts fresh,    *)
(* and what is saved is the list.  Every partition comes back from storage *)
(* as it was saved, even when the process is lost in the middle of a shift.*)
ImplementsList == List!Spec

-----------------------------------------------------------------------------
(* The type invariant of the source.                                       *)
TypeOK ==
  /\ RowStoreTypeOK
  /\ order_hd \in [Part -> 0 .. MaxLen]
  /\ loaded_hd \subseteq Part
  /\ call \in Calls
  /\ storage \in [Part -> ListsUpTo(MaxLen, StoredRow)]
  /\ load_failed \subseteq Part
  /\ strays \subseteq RowId

(* The positions of a partition that hold a row: all below the count, less *)
(* the hole of a call in progress, which an insert lets reach the count.   *)
Occupied(p) ==
  IF ~Shifting(p) THEN 0 .. order_hd[p] - 1
  ELSE IF call.op = "insert" THEN (0 .. order_hd[p]) \ {call.hole}
  ELSE (0 .. order_hd[p] - 1) \ {call.hole}

(* The rows of a partition are numbered from 0 to its count without a gap, *)
(* whatever was inserted, removed, cleared, loaded or lost, and the only   *)
(* rows beyond the count are those the program has put there itself on a   *)
(* key that key_at gave for a missing item: order_hd and the keys in       *)
(* row_hd, which separate functions write, describe the same list.         *)
Contiguous ==
  \A p \in Part, i \in Positions :
    Key(p, i) \in row_hd <=> i \in Occupied(p) \/ Key(p, i) \in strays

(* When a positional call has returned, what it did is persisted: the copy *)
(* a restart would load has as many items as the partition has.            *)
ReturnedMeansSaved ==
  call = Idle => \A p \in loaded_hd : storage[p].len = order_hd[p]

(* No entry of the index survives a shift, and none is missed by one: a    *)
(* clean index finds a row that has no token stream exactly under the text *)
(* its fields hold at the position it has now.  A row that has a stream is *)
(* found under the text of the stream, as it is read; whose text that is   *)
(* after a shift is another matter (ReadFollowsShifts).                    *)
SearchFollowsRows ==
  HasIndex /\ ~lemma_dirty =>
    \A f \in Searchable, v \in Value \ {Empty}, r \in RowId :
      r \in IndexAnswer(f, v) <=>
        /\ r \in row_hd
        /\ tokens_hd[r][f] = NULL => fields_hd[r][f] = v
        /\ tokens_hd[r][f] # NULL => tokens_hd[r][f] = v

(* A call returns: its shifting loop ends and its save callback runs.      *)
CallReturns == (call # Idle) ~> (call = Idle)

-----------------------------------------------------------------------------
(* registry.h on hyle_ordered_append: "0 on success, or -1 when the        *)
(* partition cannot be loaded".  An append is not carried out, and nothing *)
(* is saved over the persisted items, when the load callback failed.       *)
NoAppendAfterFailedLoad ==
  [][\A p \in Part, item \in Items : Append(p, item) => p \notin load_failed]_vars

(* registry.h on hyle_field_get_str: "Get a field value as a string for    *)
(* (row_id, field_name)".  The value is the one of the item that is at the *)
(* row's position now, not of an item that was there before a shift.       *)
ReadFollowsShifts ==
  call = Idle =>
    \A r \in row_hd, f \in Field : FieldGetStr(r, f) = fields_hd[r][f]
=============================================================================
