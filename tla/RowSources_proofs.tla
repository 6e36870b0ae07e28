-------------------------- MODULE RowSources_proofs --------------------------
(***************************************************************************)
(* What holds of a plain and of an ordered source, for every number of     *)
(* rows and of partitions, every bound on their length, every schema,      *)
(* value set, item set and token text; and that an ordered source          *)
(* implements one list per partition.                                      *)
(***************************************************************************)
EXTENDS PlainSource, OrderedSource, RowStore_proofs, FiniteSetTheorems

USE DEF StoredRow, TokenRow, Positions, Key

-----------------------------------------------------------------------------
(* Plain sources.                                                          *)

(* The maps of a plain source keep their shape.                            *)
THEOREM PlainTypeCorrect == PlainSpec => []RowStoreTypeOK
<1>1. PlainInit => RowStoreTypeOK
  BY RowStoreInitType DEF PlainInit
<1>2. RowStoreTypeOK /\ [PlainNext]_rowVars => RowStoreTypeOK'
  <2> SUFFICES ASSUME RowStoreTypeOK, [PlainNext]_rowVars
               PROVE  RowStoreTypeOK'
    OBVIOUS
  <2>1. CASE Register
    BY <2>1, BlankType DEF Register, RowStoreTypeOK
  <2>2. ASSUME NEW r \in RowId, NEW item \in Items, RegistryPut(r, item)
        PROVE  RowStoreTypeOK'
    BY <2>2, RegistryPutType, RowDataAssumption
  <2>3. ASSUME NEW r \in RowId, NEW f \in Field \cup Derived,
               NEW v \in TokenTexts, RegistryPutTokens(r, f, v)
        PROVE  RowStoreTypeOK'
    <3>1. [tokens_hd[r] EXCEPT ![f] = v] \in TokenRow
      BY PlainSourceAssumption DEF RowStoreTypeOK
    <3> QED BY <2>3, <3>1, PlainSourceAssumption
            DEF RowStoreTypeOK, RegistryPutTokens, MarkDirty, HasIndex
  <2>4. ASSUME NEW r \in RowId, RegistryDel(r)
        PROVE  RowStoreTypeOK'
    BY <2>4, RegistryDelType
  <2>5. ASSUME NEW r \in RowId, NEW f \in Derived,
               NEW v \in Value \cup {NULL}, ProviderChange(r, f, v)
        PROVE  RowStoreTypeOK'
    <3>1. [derived[r] EXCEPT ![f] = v] \in [Derived -> Value \cup {NULL}]
      BY DEF RowStoreTypeOK
    <3> QED BY <2>5, <3>1 DEF RowStoreTypeOK, ProviderChange
  <2>6. CASE RefreshIndex
    BY <2>6, RefreshIndexType
  <2>7. CASE UNCHANGED rowVars
    BY <2>7 DEF RowStoreTypeOK, rowVars
  <2> QED BY <2>1, <2>2, <2>3, <2>4, <2>5, <2>6, <2>7 DEF PlainNext
<1> QED BY <1>1, <1>2, PTL DEF PlainSpec

(* As long as every token stream decodes, a clean index holds exactly the  *)
(* live rows under the text a read returns now: the state in which a query *)
(* is answered.  The invariant is the sharper IndexIsCurrent.              *)
THEOREM PlainSearchAgrees ==
  ASSUME Decodable = Value
  PROVE  PlainSpec => []SearchAgreesWithRead
<1>1. PlainInit => IndexIsCurrent
  BY DEF PlainInit, RowStoreInit, IndexIsCurrent
<1>2. RowStoreTypeOK /\ IndexIsCurrent /\ [PlainNext]_rowVars => IndexIsCurrent'
  <2> SUFFICES ASSUME RowStoreTypeOK, IndexIsCurrent, [PlainNext]_rowVars
               PROVE  IndexIsCurrent'
    OBVIOUS
  <2>1. CASE Register
    BY <2>1 DEF Register, IndexIsCurrent
  <2>2. ASSUME NEW r \in RowId, NEW item \in Items, RegistryPut(r, item)
        PROVE  IndexIsCurrent'
    BY <2>2, DirtyIsCurrent, RegistryPutDoes
  <2>3. ASSUME NEW r \in RowId, NEW f \in Field \cup Derived,
               NEW v \in TokenTexts, RegistryPutTokens(r, f, v)
        PROVE  IndexIsCurrent'
    BY <2>3, DirtyIsCurrent DEF RegistryPutTokens
  <2>4. ASSUME NEW r \in RowId, RegistryDel(r)
        PROVE  IndexIsCurrent'
    BY <2>4, DirtyIsCurrent DEF RegistryDel
  <2>5. ASSUME NEW r \in RowId, NEW f \in Derived,
               NEW v \in Value \cup {NULL}, ProviderChange(r, f, v)
        PROVE  IndexIsCurrent'
    BY <2>5, RowStoreAssumption
       DEF ProviderChange, IndexIsCurrent, IndexedText, HasIndex
  <2>6. CASE RefreshIndex
    BY <2>6, RefreshIndexCurrent DEF RowStoreTypeOK
  <2>7. CASE UNCHANGED rowVars
    BY <2>7 DEF rowVars, IndexIsCurrent, IndexedText, HasIndex
  <2> QED BY <2>1, <2>2, <2>3, <2>4, <2>5, <2>6, <2>7 DEF PlainNext
<1>3. RowStoreTypeOK /\ IndexIsCurrent => SearchAgreesWithRead
  <2> SUFFICES ASSUME RowStoreTypeOK, IndexIsCurrent, HasIndex, ~lemma_dirty,
                      NEW f \in Searchable, NEW v \in Value \ {Empty}
               PROVE  IndexAnswer(f, v) = { r \in row_hd : FieldGetStr(r, f) = v }
    BY DEF SearchAgreesWithRead
  <2>1. \A r \in RowId : FieldGetStr(r, f) = IndexedText(r, f)
    BY ReadIsIndexed DEF RowStoreTypeOK
  <2> QED BY <2>1 DEF IndexAnswer, IndexIsCurrent, RowStoreTypeOK
<1> QED BY <1>1, <1>2, <1>3, PlainTypeCorrect, PTL DEF PlainSpec

(* The same for what a query may find at all: a clean index holds live     *)
(* rows only, and of a tokenized field no text but that of its tokens.     *)
THEOREM PlainFindsLive == PlainSpec => []SearchFindsLiveRows
<1>1. PlainInit => SearchFindsLiveRows
  BY DEF PlainInit, RowStoreInit, SearchFindsLiveRows
<1>2. RowStoreTypeOK /\ SearchFindsLiveRows /\ [PlainNext]_rowVars => SearchFindsLiveRows'
  <2> SUFFICES ASSUME RowStoreTypeOK, SearchFindsLiveRows, [PlainNext]_rowVars
               PROVE  SearchFindsLiveRows'
    OBVIOUS
  <2>1. MarkDirty => SearchFindsLiveRows'
    BY DEF MarkDirty, SearchFindsLiveRows, HasIndex
  <2>2. CASE Register
    BY <2>2 DEF Register, SearchFindsLiveRows
  <2>3. ASSUME NEW r \in RowId, NEW f \in Derived,
               NEW v \in Value \cup {NULL}, ProviderChange(r, f, v)
        PROVE  SearchFindsLiveRows'
    BY <2>3 DEF ProviderChange, SearchFindsLiveRows, HasIndex
  <2>4. CASE RefreshIndex
    <3>1. \A e \in lemma_index' :
            /\ e[1] \in row_hd
            /\ e[3] = IndexedText(e[1], e[2])
      BY <2>4 DEF RefreshIndex, RebuiltIndex
    <3>2. UNCHANGED <<row_hd, tokens_hd>>
      BY <2>4 DEF RefreshIndex
    <3> QED BY <3>1, <3>2 DEF SearchFindsLiveRows, IndexedText
  <2>5. CASE UNCHANGED rowVars
    BY <2>5 DEF rowVars, SearchFindsLiveRows, HasIndex
  <2>6. ASSUME NEW r \in RowId, NEW item \in Items, RegistryPut(r, item)
        PROVE  SearchFindsLiveRows'
    BY <2>1, <2>6, RegistryPutDoes
  <2> QED BY <2>1, <2>2, <2>3, <2>4, <2>5, <2>6
          DEF PlainNext, RegistryPutTokens, RegistryDel
<1> QED BY <1>1, <1>2, PlainTypeCorrect, PTL DEF PlainSpec

(* Of a row that is not in the row map a source of typed records reads     *)
(* nothing but the token streams that were left.  The invariant is that    *)
(* its struct is gone: every write of a field of a row also enters the     *)
(* row, and a deletion removes both.                                       *)
StructIsGone == Record => \A r \in RowId \ row_hd : fields_hd[r] = BlankRow

THEOREM PlainDeletedLeavesTokens == PlainSpec => []DeletedLeavesOnlyTokens
<1>1. PlainInit => StructIsGone
  BY DEF PlainInit, RowStoreInit, StructIsGone
<1>2. RowStoreTypeOK /\ StructIsGone /\ [PlainNext]_rowVars => StructIsGone'
  <2> SUFFICES ASSUME RowStoreTypeOK, StructIsGone, [PlainNext]_rowVars
               PROVE  StructIsGone'
    OBVIOUS
  <2> USE DEF StructIsGone, RowStoreTypeOK
  <2>1. CASE Register
    BY <2>1 DEF Register
  <2>2. ASSUME NEW r \in RowId, NEW item \in Items, RegistryPut(r, item)
        PROVE  StructIsGone'
    BY <2>2, RegistryPutDoes
  <2>3. ASSUME NEW r \in RowId, NEW f \in Field \cup Derived,
               NEW v \in TokenTexts, RegistryPutTokens(r, f, v)
        PROVE  StructIsGone'
    BY <2>3 DEF RegistryPutTokens
  <2>4. ASSUME NEW r \in RowId, RegistryDel(r)
        PROVE  StructIsGone'
    BY <2>4 DEF RegistryDel, CormDelFields
  <2>5. ASSUME NEW r \in RowId, NEW f \in Derived,
               NEW v \in Value \cup {NULL}, ProviderChange(r, f, v)
        PROVE  StructIsGone'
    BY <2>5 DEF ProviderChange
  <2>6. CASE RefreshIndex
    BY <2>6 DEF RefreshIndex
  <2>7. CASE UNCHANGED rowVars
    BY <2>7 DEF rowVars
  <2> QED BY <2>1, <2>2, <2>3, <2>4, <2>5, <2>6, <2>7 DEF PlainNext
<1>3. RowStoreTypeOK /\ StructIsGone => DeletedLeavesOnlyTokens
  BY DEF RowStoreTypeOK, StructIsGone, DeletedLeavesOnlyTokens, FieldGetStr, BlankRow
<1> QED BY <1>1, <1>2, <1>3, PlainTypeCorrect, PTL DEF PlainSpec

(* A put is read back: the tokens of a value whose stream is written       *)
(* replace those of any earlier value, and where there is no stream that   *)
(* decodes the field itself is read.                                       *)
THEOREM PlainPutReadBack == PlainSpec => PutIsReadBack
<1> DEFINE ReadBack ==
      \A r \in RowId, item \in Items : \A lost \in Losses(item) :
        RegistryPutLosing(r, item, lost) =>
          \A f \in DOMAIN item :
            LET written == f \notin lost /\ item[f] \in Encodable
            IN written \/ tokens_hd[r][f] \notin Decodable =>
                 FieldGetStr(r, f)' = Stored(item[f])
<1>1. RowStoreTypeOK => ReadBack
  <2> SUFFICES ASSUME RowStoreTypeOK, NEW r \in RowId, NEW item \in Items,
                      NEW lost \in Losses(item), RegistryPutLosing(r, item, lost),
                      NEW f \in DOMAIN item,
                      \/ f \notin lost /\ item[f] \in Encodable
                      \/ tokens_hd[r][f] \notin Decodable
               PROVE  FieldGetStr(r, f)' = Stored(item[f])
    OBVIOUS
  <2>1. f \in Field /\ item[f] \in Value \cup {NULL}
    BY ItemShape, RowDataAssumption
  <2>2. fields_hd'[r][f] = Stored(item[f])
    BY <2>1 DEF RowStoreTypeOK, RegistryPutLosing, StoreItem
  <2>3. tokens_hd'[r][f] =
          IF f \notin lost /\ item[f] \in Encodable THEN item[f] ELSE tokens_hd[r][f]
    BY <2>1 DEF RowStoreTypeOK, RegistryPutLosing, WriteTokens
  <2>4. item[f] \in Encodable => Stored(item[f]) = item[f]
    BY RowDataAssumption, RowStoreAssumption DEF Stored
  <2> QED BY <2>1, <2>2, <2>3, <2>4 DEF FieldGetStr
<1>2. RowStoreTypeOK => [ReadBack]_rowVars
  BY <1>1
<1> HIDE DEF ReadBack
<1>3. PlainSpec => [][ReadBack]_rowVars
  BY <1>2, PlainTypeCorrect, PTL
<1> QED BY <1>3 DEF PutIsReadBack, ReadBack

-----------------------------------------------------------------------------
(* Ordered sources.                                                        *)

(* Facts about the shape of the state.                                     *)

(* Which components a call has, by its operation.                          *)
LEMMA CallShape ==
  ASSUME call \in Calls
  PROVE  /\ call.op \in {"idle", "insert", "remove", "save"}
         /\ call.op = "idle" => call = Idle
         /\ call.op = "insert" =>
              /\ call.pval \in Part
              /\ call.pos \in Nat
              /\ call.item \in Items
              /\ call.hole \in Nat
              /\ call = InsertCall(call.pval, call.pos, call.item, call.hole)
         /\ call.op = "remove" =>
              /\ call.pval \in Part
              /\ call.hole \in Nat
              /\ call = RemoveCall(call.pval, call.hole)
         /\ call.op = "save" =>
              /\ call.pval \in Part
              /\ call = SaveCall(call.pval)
BY DEF Calls, Idle, InsertCall, RemoveCall, SaveCall

(* The calls that the operations set up.                                   *)
LEMMA CallIntro ==
  /\ Idle \in Calls /\ Idle.op = "idle"
  /\ \A p \in Part, pos \in Nat, item \in Items, hole \in Nat :
       LET c == InsertCall(p, pos, item, hole)
       IN c \in Calls /\ c.op = "insert" /\ c.pval = p /\ c.pos = pos
          /\ c.item = item /\ c.hole = hole
  /\ \A p \in Part, hole \in Nat :
       LET c == RemoveCall(p, hole)
       IN c \in Calls /\ c.op = "remove" /\ c.pval = p /\ c.hole = hole
  /\ \A p \in Part :
       LET c == SaveCall(p)
       IN c \in Calls /\ c.op = "save" /\ c.pval = p
BY DEF Calls, Idle, InsertCall, RemoveCall, SaveCall

(* A persisted list is a record of a length and its items.                 *)
LEMMA ListShape ==
  ASSUME NEW l \in ListsUpTo(MaxLen, StoredRow)
  PROVE  /\ l.len \in 0 .. MaxLen
         /\ l = [len |-> l.len, at |-> l.at]
         /\ l.at \in [0 .. l.len - 1 -> StoredRow]
BY DEF ListsUpTo

(* What is persisted of a partition.                                       *)
LEMMA StorageShape ==
  ASSUME storage \in [Part -> ListsUpTo(MaxLen, StoredRow)], NEW p \in Part
  PROVE  /\ storage[p].len \in 0 .. MaxLen
         /\ \A i \in 0 .. storage[p].len - 1 : storage[p].at[i] \in StoredRow
<1>1. storage[p] \in ListsUpTo(MaxLen, StoredRow)
  OBVIOUS
<1> QED BY <1>1, ListShape

(* And a record of a length and so many items is such a list.              *)
LEMMA ListIntro ==
  ASSUME NEW n \in 0 .. MaxLen, NEW at \in [0 .. n - 1 -> StoredRow]
  PROVE  [len |-> n, at |-> at] \in ListsUpTo(MaxLen, StoredRow)
BY DEF ListsUpTo

(* The keys of a source are finite in number, so counting them is sound.   *)
LEMMA CountType ==
  ASSUME NEW rows \in SUBSET RowId, NEW p \in Part
  PROVE  PartitionCount(rows, p) \in Nat
<1>1. IsFiniteSet(RowId)
  <2>1. IsFiniteSet(0 .. MaxLen - 1)
    BY FS_Interval, OrderedAssumption
  <2> QED BY <2>1, FS_Product, OrderedAssumption
<1>2. IsFiniteSet({ r \in rows : r[1] = p \/ <<p, r[1]>> \in Overlap })
  BY <1>1, FS_Subset
<1> QED BY <1>2, FS_CardinalityType DEF PartitionCount

(* ordered_move_key keeps the shape of the maps.                           *)
LEMMA MoveKeyType ==
  ASSUME RowStoreTypeOK, NEW from \in RowId, NEW to \in RowId, MoveKey(from, to)
  PROVE  RowStoreTypeOK'
<1>1. ArrivedRows(fields_hd[from], fields_hd[to]) \subseteq StoredRow
  <2>1. fields_hd[from] \in StoredRow /\ fields_hd[to] \in StoredRow
    BY DEF RowStoreTypeOK
  <2>2. CopiedOver(fields_hd[from], fields_hd[to]) \in StoredRow
    BY <2>1, RowOpsType
  <2> QED BY <2>1, <2>2 DEF ArrivedRows
<1>2. \A row \in StoredRow : CormDelFields(row) \in StoredRow
  BY RowOpsType
<1>3. fields_hd' \in [RowId -> StoredRow]
  BY <1>1, <1>2 DEF RowStoreTypeOK, MoveKey
<1> QED BY <1>3 DEF RowStoreTypeOK, MoveKey, MarkDirty, HasIndex

(* The load callback keeps it too.                                         *)
LEMMA LoadItemsType ==
  ASSUME TypeOK, NEW p \in Part, NEW k \in 0 .. storage[p].len, LoadItems(p, k)
  PROVE  RowStoreTypeOK'
<1> DEFINE Put == { r \in RowId : r[1] = p /\ r[2] < k }
<1>1. ASSUME NEW r \in Put
      PROVE  /\ StoreItem(fields_hd[r], ItemOf(storage[p].at[r[2]])) \in StoredRow
             /\ \A lost : WriteTokens(tokens_hd[r], ItemOf(storage[p].at[r[2]]), lost)
                            \in TokenRow
  <2>1. r[2] \in 0 .. storage[p].len - 1
    <3>1. storage[p].len \in 0 .. MaxLen
      BY StorageShape DEF TypeOK
    <3>2. r[2] \in 0 .. MaxLen - 1 /\ r[2] < k
      BY OrderedAssumption
    <3> QED BY <3>1, <3>2, OrderedAssumption
  <2>2. storage[p].at[r[2]] \in StoredRow
    BY <2>1, StorageShape DEF TypeOK
  <2>3. ItemOf(storage[p].at[r[2]]) \in ItemSet
    BY <2>2, ItemOfType
  <2> QED BY <2>3, StoreItemType, WriteTokensType DEF TypeOK, RowStoreTypeOK
<1>2. fields_hd' \in [RowId -> StoredRow] /\ tokens_hd' \in [RowId -> TokenRow]
  <2>1. PICK lost : tokens_hd' =
          [r \in RowId |->
             IF r \in Put
             THEN WriteTokens(tokens_hd[r], ItemOf(storage[p].at[r[2]]), lost[r])
             ELSE tokens_hd[r]]
    BY DEF LoadItems
  <2>2. tokens_hd' \in [RowId -> TokenRow]
    BY <1>1, <2>1 DEF TypeOK, RowStoreTypeOK
  <2>3. fields_hd' =
          [r \in RowId |->
             IF r \in Put
             THEN StoreItem(fields_hd[r], ItemOf(storage[p].at[r[2]]))
             ELSE fields_hd[r]]
    BY DEF LoadItems
  <2>4. fields_hd' \in [RowId -> StoredRow]
    BY <1>1, <2>3 DEF TypeOK, RowStoreTypeOK
  <2> QED BY <2>2, <2>4
<1> QED BY <1>2 DEF LoadItems, TypeOK, RowStoreTypeOK, HasIndex

-----------------------------------------------------------------------------
(* Type correctness.  It needs what a call in progress relies on: it works *)
(* on a loaded partition, there is room for the row it adds, and its hole  *)
(* stays between the position of the call and the end of the partition.    *)

CallOK ==
  /\ call.op = "insert" =>
       /\ call.pval \in loaded_hd
       /\ call.pos <= call.hole
       /\ call.hole <= order_hd[call.pval]
       /\ order_hd[call.pval] < MaxLen
  /\ call.op = "remove" =>
       /\ call.pval \in loaded_hd
       /\ call.hole < order_hd[call.pval]

TypeInv == TypeOK /\ CallOK

(* The type invariant holds of a new source.                               *)
LEMMA TypeInit == Init => TypeInv
<1> SUFFICES ASSUME Init PROVE TypeInv
  OBVIOUS
<1>1. RowStoreTypeOK
  BY RowStoreInitType DEF Init
<1>2. EmptyList \in ListsUpTo(MaxLen, StoredRow)
  BY OrderedAssumption DEF EmptyList, ListsUpTo
<1> QED BY <1>1, <1>2, CallIntro, OrderedAssumption DEF Init, TypeInv, TypeOK, CallOK

(* Every step keeps the type invariant.                                    *)
LEMMA TypeStep == TypeInv /\ [Next]_vars => TypeInv'
<1> SUFFICES ASSUME TypeInv, [Next]_vars
             PROVE  TypeInv'
  OBVIOUS
<1> USE OrderedAssumption DEF TypeInv, TypeOK, CallOK
<1>1. ASSUME NEW p \in Part, EnsureLoaded(p)
      PROVE  TypeInv'
  <2>1. storage[p].len \in 0 .. MaxLen
    BY StorageShape
  <2>2. PICK k \in 0 .. storage[p].len : LoadItems(p, k)
    BY <1>1, <2>1 DEF EnsureLoaded
  <2>3. RowStoreTypeOK'
    BY <2>2, LoadItemsType
  <2>4. PartitionCount(row_hd', p) \in 0 .. MaxLen
    BY <1>1, <2>3, CountType DEF EnsureLoaded, RowStoreTypeOK
  <2>5. load_failed' \subseteq Part
    BY <1>1 DEF EnsureLoaded
  <2>6. /\ call' \in Calls
        /\ call'.op = "idle" \/ call'.op = "save"
    BY <1>1, CallIntro DEF EnsureLoaded
  <2>7. TypeOK'
    BY <1>1, <2>3, <2>4, <2>5, <2>6 DEF EnsureLoaded
  <2> QED BY <2>6, <2>7
<1>2. ASSUME NEW p \in Part, NEW item \in Items, Append(p, item)
      PROVE  TypeInv'
  <2>1. Key(p, order_hd[p]) \in RowId /\ item \in ItemSet
    BY <1>2, RowDataAssumption DEF Append
  <2>2. RowStoreTypeOK'
    BY <1>2, <2>1, RegistryPutType DEF Append
  <2>3. call' \in Calls /\ call'.op = "save" /\ call'.pval = p
    BY <1>2, CallIntro DEF Append, Ready
  <2>4. order_hd[p] + 1 \in 0 .. MaxLen
    BY <1>2 DEF Append, Ready
  <2>5. order_hd' \in [Part -> 0 .. MaxLen]
    BY <1>2, <2>4 DEF Append, Ready
  <2>6. TypeOK'
    BY <1>2, <2>2, <2>3, <2>5 DEF Append, Ready
  <2> QED BY <1>2, <2>3, <2>6 DEF Append, Ready
<1>3. ASSUME NEW p \in Part, NEW pos \in 0 .. MaxLen, NEW item \in Items,
             InsertStart(p, pos, item)
      PROVE  TypeInv'
  <2>1. RowStoreTypeOK'
    BY <1>3 DEF InsertStart, RowStoreTypeOK, rowVars
  <2>2. order_hd[p] \in Nat /\ pos \in Nat
    OBVIOUS
  <2>3. /\ call' \in Calls /\ call'.op = "insert" /\ call'.pval = p
        /\ call'.pos = pos /\ call'.hole = order_hd[p]
    BY <1>3, <2>2, CallIntro DEF InsertStart
  <2>4. CallOK'
    BY <1>3, <2>3 DEF InsertStart, Ready
  <2>5. TypeOK'
    BY <1>3, <2>3, <2>1 DEF InsertStart, Ready
  <2> QED BY <2>4, <2>5
<1>4. CASE ShiftUp
  <2>1. /\ Key(call.pval, call.hole - 1) \in RowId
        /\ Key(call.pval, call.hole) \in RowId
    BY <1>4, CallShape DEF ShiftUp
  <2>2. RowStoreTypeOK'
    BY <1>4, <2>1, MoveKeyType DEF ShiftUp
  <2>3. call.pval \in Part /\ call.pos \in Nat /\ call.item \in Items
        /\ call.hole \in Nat /\ call.hole - 1 \in Nat
    BY <1>4, CallShape DEF ShiftUp
  <2>4. /\ call' \in Calls /\ call'.op = "insert" /\ call'.pval = call.pval
        /\ call'.pos = call.pos /\ call'.hole = call.hole - 1
    BY <1>4, <2>3, CallIntro DEF ShiftUp
  <2>5. TypeOK'
    BY <1>4, <2>2, <2>4 DEF ShiftUp
  <2>6. CallOK'
    BY <1>4, <2>3, <2>4 DEF ShiftUp
  <2> QED BY <2>5, <2>6
<1>5. CASE InsertFinish
  <2>1. Key(call.pval, call.pos) \in RowId /\ call.item \in ItemSet
    BY <1>5, CallShape, RowDataAssumption DEF InsertFinish
  <2>2. RowStoreTypeOK'
    BY <1>5, <2>1, RegistryPutType DEF InsertFinish
  <2>3. call' \in Calls /\ call'.op = "save" /\ call'.pval = call.pval
    BY <1>5, CallIntro, CallShape DEF InsertFinish
  <2>4. order_hd[call.pval] + 1 \in 0 .. MaxLen
    BY <1>5, CallShape DEF InsertFinish
  <2>5. order_hd' \in [Part -> 0 .. MaxLen]
    BY <1>5, <2>4, CallShape DEF InsertFinish
  <2>6. TypeOK'
    BY <1>5, <2>2, <2>3, <2>5 DEF InsertFinish
  <2> QED BY <1>5, <2>3, <2>6, CallShape DEF InsertFinish
<1>6. ASSUME NEW p \in Part, NEW pos \in Positions, RemoveStart(p, pos)
      PROVE  TypeInv'
  <2>1. RowStoreTypeOK'
    <3>1. Key(p, pos) \in RowId
      OBVIOUS
    <3> QED BY <1>6, <3>1, RegistryDelType DEF RemoveStart
  <2>2. call' \in Calls /\ call'.op = "remove" /\ call'.pval = p /\ call'.hole = pos
    BY <1>6, CallIntro DEF RemoveStart
  <2>3. TypeOK'
    BY <1>6, <2>1, <2>2 DEF RemoveStart
  <2>4. p \in loaded_hd' /\ pos < order_hd'[p]
    BY <1>6 DEF RemoveStart, Ready
  <2>5. CallOK'
    BY <2>2, <2>4
  <2> QED BY <2>3, <2>5
<1>7. CASE ShiftDown
  <2>1. /\ Key(call.pval, call.hole + 1) \in RowId
        /\ Key(call.pval, call.hole) \in RowId
    BY <1>7, CallShape DEF ShiftDown
  <2>2. RowStoreTypeOK'
    BY <1>7, <2>1, MoveKeyType DEF ShiftDown
  <2>3. call.pval \in Part /\ call.hole \in Nat /\ call.hole + 1 \in Nat
    BY <1>7, CallShape DEF ShiftDown
  <2>4. /\ call' \in Calls /\ call'.op = "remove" /\ call'.pval = call.pval
        /\ call'.hole = call.hole + 1
    BY <1>7, <2>3, CallIntro DEF ShiftDown
  <2>5. TypeOK'
    BY <1>7, <2>2, <2>4 DEF ShiftDown
  <2>6. CallOK'
    BY <1>7, <2>3, <2>4 DEF ShiftDown
  <2> QED BY <2>5, <2>6
<1>8. CASE RemoveFinish
  <2>1. RowStoreTypeOK'
    BY <1>8 DEF RemoveFinish, RowStoreTypeOK, rowVars
  <2>2. call' \in Calls /\ call'.op = "save" /\ call'.pval = call.pval
    BY <1>8, CallIntro, CallShape DEF RemoveFinish
  <2>3. order_hd[call.pval] - 1 \in 0 .. MaxLen
    BY <1>8, CallShape DEF RemoveFinish
  <2>4. order_hd' \in [Part -> 0 .. MaxLen]
    BY <1>8, <2>3, CallShape DEF RemoveFinish
  <2>5. TypeOK'
    BY <1>8, <2>1, <2>2, <2>4 DEF RemoveFinish
  <2> QED BY <1>8, <2>2, <2>5, CallShape DEF RemoveFinish
<1>9. ASSUME NEW p \in Part, Clear(p)
      PROVE  TypeInv'
  <2>1. \A row \in StoredRow : CormDelFields(row) \in StoredRow
    BY RowOpsType
  <2>2. RowStoreTypeOK'
    BY <1>9, <2>1 DEF Clear, RowStoreTypeOK, HasIndex
  <2>3. call' \in Calls /\ call'.op = "save" /\ call'.pval = p
    BY <1>9, CallIntro DEF Clear, Ready
  <2>4. 0 \in 0 .. MaxLen
    BY <1>9 DEF Clear, Ready
  <2>5. order_hd' \in [Part -> 0 .. MaxLen]
    BY <1>9, <2>4 DEF Clear, Ready
  <2>6. TypeOK'
    BY <1>9, <2>2, <2>3, <2>5 DEF Clear, Ready
  <2> QED BY <1>9, <2>3, <2>6 DEF Clear, Ready
<1>10. ASSUME NEW p \in Part, ExplicitSave(p)
       PROVE  TypeInv'
  <2>1. RowStoreTypeOK'
    BY <1>10 DEF ExplicitSave, RowStoreTypeOK, rowVars
  <2>2. call' \in Calls /\ call'.op = "save" /\ call'.pval = p
    BY <1>10, CallIntro DEF ExplicitSave, Ready
  <2>3. TypeOK'
    BY <1>10, <2>1, <2>2 DEF ExplicitSave, Ready
  <2> QED BY <1>10, <2>2, <2>3 DEF ExplicitSave, Ready
<1>11. CASE SaveCallback
  <2>1. RowStoreTypeOK'
    BY <1>11 DEF SaveCallback, RowStoreTypeOK, rowVars
  <2>2. Contents(call.pval) \in ListsUpTo(MaxLen, StoredRow)
    <3>1. /\ call.pval \in Part
          /\ order_hd[call.pval] \in 0 .. MaxLen
      BY <1>11, CallShape DEF SaveCallback
    <3> DEFINE at == [i \in 0 .. order_hd[call.pval] - 1 |->
                        fields_hd[Key(call.pval, i)]]
    <3>2. \A i \in 0 .. order_hd[call.pval] - 1 : Key(call.pval, i) \in RowId
      BY <3>1
    <3>3. at \in [0 .. order_hd[call.pval] - 1 -> StoredRow]
      BY <3>2 DEF RowStoreTypeOK
    <3> HIDE DEF at
    <3>4. [len |-> order_hd[call.pval], at |-> at] \in ListsUpTo(MaxLen, StoredRow)
      BY <3>1, <3>3, ListIntro
    <3> QED BY <3>4 DEF Contents, at
  <2>3. storage' \in [Part -> ListsUpTo(MaxLen, StoredRow)]
    <3> DEFINE new == Contents(call.pval)
    <3>1. new \in ListsUpTo(MaxLen, StoredRow)
      BY <2>2
    <3> HIDE DEF new
    <3>2. storage' = [storage EXCEPT ![call.pval] = new] \/ storage' = storage
      BY <1>11 DEF SaveCallback, new
    <3> QED BY <3>1, <3>2
  <2>4. call' \in Calls /\ call'.op = "idle"
    BY <1>11, CallIntro DEF SaveCallback
  <2>5. TypeOK'
    BY <1>11, <2>1, <2>3, <2>4 DEF SaveCallback
  <2> QED BY <2>4, <2>5
<1>12. ASSUME NEW p \in Part, NEW pos \in 0 .. MaxLen, NEW item \in Items,
              UpdateItem(p, pos, item)
       PROVE  TypeInv'
  <2>1. Key(p, pos) \in RowId /\ item \in ItemSet
    BY <1>12, RowDataAssumption DEF UpdateItem
  <2>2. RowStoreTypeOK'
    BY <1>12, <2>1, RegistryPutType DEF UpdateItem
  <2>3. strays' \subseteq RowId
    BY <1>12, <2>1 DEF UpdateItem
  <2> QED BY <1>12, <2>2, <2>3 DEF UpdateItem
<1>13. CASE SearchQuery
  BY <1>13, RefreshIndexType DEF SearchQuery, orderVars
<1>14. CASE Restart
  <2>1. RowStoreTypeOK'
    BY <1>14, BlankType DEF Restart, RowStoreTypeOK
  <2>2. call' \in Calls /\ call'.op = "idle"
    BY <1>14, CallIntro DEF Restart
  <2>3. order_hd' \in [Part -> 0 .. MaxLen]
    BY <1>14 DEF Restart
  <2>4. TypeOK'
    BY <1>14, <2>1, <2>2, <2>3 DEF Restart
  <2> QED BY <2>2, <2>4
<1>15. CASE UNCHANGED vars
  BY <1>15 DEF vars, rowVars, orderVars, RowStoreTypeOK
<1> QED BY <1>1, <1>2, <1>3, <1>4, <1>5, <1>6, <1>7, <1>8, <1>9, <1>10,
           <1>11, <1>12, <1>13, <1>14, <1>15 DEF Next, CallStep

(* Every variable of an ordered source keeps its type: no shift reads or   *)
(* writes a key outside the partition, no count goes below zero.           *)
THEOREM OrderedTypeCorrect == Spec => []TypeOK
<1>1. TypeInv => TypeOK
  BY DEF TypeInv
<1> QED BY <1>1, TypeInit, TypeStep, PTL DEF Spec

-----------------------------------------------------------------------------
(* Contiguity.  The invariant adds that a partition that is not loaded has *)
(* count zero and no stray row (and then, by Contiguous, no row at all),   *)
(* which is what the load starts from, and that a stray row lies beyond    *)
(* the count.                                                              *)

StraysOK ==
  /\ \A p \in Part, i \in Positions :
       Key(p, i) \in strays => p \in loaded_hd /\ i >= order_hd[p]
  /\ StrayPuts \/ strays = {}

ContiguousInv ==
  /\ TypeInv
  /\ Contiguous
  /\ \A p \in Part \ loaded_hd : order_hd[p] = 0
  /\ StraysOK

(* The count ordered_partition_count takes after a load is the number of   *)
(* items the callback put: with no partition value a prefix of another,    *)
(* the keys it counts are those of the partition.                          *)
LEMMA CountLoaded ==
  ASSUME Overlap = {}, NEW rows \in SUBSET RowId, NEW p \in Part,
         NEW k \in 0 .. MaxLen,
         \A i \in Positions : Key(p, i) \in rows <=> i < k
  PROVE  PartitionCount(rows, p) = k
<1> USE OrderedAssumption
<1> DEFINE S == { r \in rows : r[1] = p \/ <<p, r[1]>> \in Overlap }
           f == [j \in 1 .. k |-> <<p, j - 1>>]
<1>1. f \in [1 .. k -> S]
  <2> SUFFICES ASSUME NEW j \in 1 .. k
               PROVE  <<p, j - 1>> \in S
    OBVIOUS
  <2>1. j - 1 \in Positions /\ j - 1 < k
    OBVIOUS
  <2> QED BY <2>1
<1>2. \A x, y \in 1 .. k : f[x] = f[y] => x = y
  OBVIOUS
<1>3. ASSUME NEW r \in S
      PROVE  \E j \in 1 .. k : f[j] = r
  <2>1. PICK i \in Positions : r = <<p, i>>
    OBVIOUS
  <2>2. i < k
    BY <2>1
  <2>3. i + 1 \in 1 .. k /\ f[i + 1] = r
    BY <2>1, <2>2
  <2> QED BY <2>3
<1>4. ExistsBijection(1 .. k, S)
  <2>1. f \in Injection(1 .. k, S)
    BY <1>1, <1>2 DEF Injection, IsInjective
  <2>2. f \in Surjection(1 .. k, S)
    BY <1>1, <1>3 DEF Surjection
  <2> QED BY <2>1, <2>2 DEF Bijection, ExistsBijection
<1>5. Cardinality(S) = k
  <2> HIDE DEF S
  <2> QED BY <1>4, FS_CountingElements
<1> QED BY <1>5 DEF PartitionCount

(* A new source has no rows and counts none.                               *)
LEMMA ContiguousInit == Init => ContiguousInv
<1> SUFFICES ASSUME Init PROVE ContiguousInv
  OBVIOUS
<1>1. TypeInv
  BY TypeInit
<1>2. /\ row_hd = {} /\ strays = {}
      /\ call.op = "idle" /\ order_hd = [p \in Part |-> 0]
  BY CallIntro DEF Init, RowStoreInit
<1> QED BY <1>1, <1>2, OrderedAssumption
        DEF ContiguousInv, Contiguous, Occupied, Shifting, StraysOK

(* Every step keeps the rows and the count of each partition together.     *)
LEMMA ContiguousStep ==
  ASSUME Overlap = {}, ContiguousInv, [Next]_vars
  PROVE  ContiguousInv'
<1> USE OrderedAssumption
<1>1. TypeInv'
  BY TypeStep DEF ContiguousInv
<1>2. /\ TypeInv
      /\ Contiguous
      /\ \A p \in Part \ loaded_hd : order_hd[p] = 0
      /\ StraysOK
  BY DEF ContiguousInv
<1>3. /\ order_hd \in [Part -> 0 .. MaxLen]
      /\ loaded_hd \subseteq Part
      /\ row_hd \subseteq RowId
      /\ call \in Calls
      /\ CallOK
  BY <1>2 DEF TypeInv, TypeOK, RowStoreTypeOK
<1>4. SUFFICES /\ Contiguous'
               /\ \A p \in Part \ loaded_hd' : order_hd'[p] = 0
               /\ StraysOK'
  BY <1>1 DEF ContiguousInv
<1> USE DEF Contiguous, Occupied, Shifting, StraysOK
<1>5. ASSUME NEW p \in Part, EnsureLoaded(p)
      PROVE  /\ Contiguous'
             /\ \A q \in Part \ loaded_hd' : order_hd'[q] = 0
             /\ StraysOK'
  <2>1. /\ call' = call /\ call.op \in {"idle", "save"}
        /\ order_hd[p] = 0
        /\ loaded_hd' = loaded_hd \cup {p} /\ p \notin loaded_hd
        /\ strays' = strays
    BY <1>2, <1>5, CallIntro DEF EnsureLoaded
  <2>2. storage[p].len \in 0 .. MaxLen
    BY <1>2, StorageShape DEF TypeInv, TypeOK
  <2>3. PICK k \in 0 .. storage[p].len : LoadItems(p, k)
    BY <1>5, <2>2 DEF EnsureLoaded
  <2>4. \A i \in Positions : Key(p, i) \in row_hd' <=> i < k
    BY <1>2, <2>1, <2>3 DEF LoadItems
  <2>5. \A q \in Part \ {p}, i \in Positions :
          Key(q, i) \in row_hd' <=> Key(q, i) \in row_hd
    BY <2>3 DEF LoadItems
  <2>6. PartitionCount(row_hd', p) = k
    <3>1. row_hd' \in SUBSET RowId
      BY <1>1 DEF TypeInv, TypeOK, RowStoreTypeOK
    <3>2. k \in 0 .. MaxLen
      BY <2>2
    <3> QED BY <2>4, <3>1, <3>2, CountLoaded
  <2>7. order_hd' = [order_hd EXCEPT ![p] = k]
    BY <1>5, <2>6 DEF EnsureLoaded
  <2>8. Contiguous'
    <3> SUFFICES ASSUME NEW q \in Part, NEW i \in Positions
                 PROVE  Key(q, i) \in row_hd' <=> i \in Occupied(q)' \/ Key(q, i) \in strays'
      OBVIOUS
    <3>1. Key(q, i) \in row_hd <=> i \in Occupied(q) \/ Key(q, i) \in strays
      BY <1>2
    <3>2. CASE q # p
      BY <1>3, <2>1, <2>2, <2>4, <2>5, <2>7, <3>1, <3>2
    <3>3. CASE q = p
      BY <1>2, <1>3, <2>1, <2>2, <2>4, <2>5, <2>7, <3>1, <3>3
    <3> QED BY <3>2, <3>3
  <2> QED BY <1>2, <1>3, <2>1, <2>7, <2>8
<1>6. ASSUME NEW p \in Part, NEW item \in Items, Append(p, item)
      PROVE  /\ Contiguous'
             /\ \A q \in Part \ loaded_hd' : order_hd'[q] = 0
             /\ StraysOK'
  <2>1. call.op = "idle" /\ call'.op = "save"
    BY <1>6, CallIntro DEF Append, Ready
  <2>2. /\ row_hd' = row_hd \cup {Key(p, order_hd[p])}
        /\ order_hd' = [order_hd EXCEPT ![p] = @ + 1]
        /\ loaded_hd' = loaded_hd /\ p \in loaded_hd
        /\ strays' = strays \ {Key(p, order_hd[p])}
    BY <1>6, RegistryPutDoes DEF Append, Ready
  <2>3. Contiguous'
    <3> SUFFICES ASSUME NEW q \in Part, NEW i \in Positions
                 PROVE  Key(q, i) \in row_hd' <=> i \in Occupied(q)' \/ Key(q, i) \in strays'
      OBVIOUS
    <3>1. Key(q, i) \in row_hd <=> i \in Occupied(q) \/ Key(q, i) \in strays
      BY <1>2
    <3>2. CASE q # p
      BY <1>3, <2>1, <2>2, <3>1, <3>2
    <3>3. CASE q = p
      BY <1>3, <2>1, <2>2, <3>1, <3>3
    <3> QED BY <3>2, <3>3
  <2> QED BY <1>2, <1>3, <2>2, <2>3
<1>7. ASSUME NEW p \in Part, NEW pos \in 0 .. MaxLen, NEW item \in Items,
             InsertStart(p, pos, item)
      PROVE  /\ Contiguous'
             /\ \A q \in Part \ loaded_hd' : order_hd'[q] = 0
             /\ StraysOK'
  <2>1. /\ call.op = "idle"
        /\ call'.op = "insert" /\ call'.pval = p /\ call'.hole = order_hd[p]
    BY <1>3, <1>7, CallIntro DEF InsertStart, Ready
  <2>2. UNCHANGED <<row_hd, order_hd, loaded_hd, strays>>
    BY <1>7 DEF InsertStart, rowVars
  <2> QED BY <1>2, <1>3, <2>1, <2>2
<1>8. CASE ShiftUp
  <2> DEFINE p == call.pval
             h == call.hole
  <2>1. /\ call.op = "insert" /\ p \in Part /\ h \in Nat /\ h > call.pos
        /\ call.pos \in Nat /\ h <= order_hd[p] /\ order_hd[p] < MaxLen
    BY <1>3, <1>8, CallShape DEF ShiftUp, CallOK
  <2>2. call'.op = "insert" /\ call'.pval = p /\ call'.hole = h - 1
    BY <1>3, <1>8, <2>1, CallShape, CallIntro DEF ShiftUp
  <2>3. /\ row_hd' = (row_hd \cup {Key(p, h)}) \ {Key(p, h - 1)}
        /\ UNCHANGED <<order_hd, loaded_hd, strays>>
    BY <1>8 DEF ShiftUp, MoveKey
  <2>4. Contiguous'
    <3> SUFFICES ASSUME NEW q \in Part, NEW i \in Positions
                 PROVE  Key(q, i) \in row_hd' <=> i \in Occupied(q)' \/ Key(q, i) \in strays'
      OBVIOUS
    <3>1. Key(q, i) \in row_hd <=> i \in Occupied(q) \/ Key(q, i) \in strays
      BY <1>2
    <3>2. CASE q # p
      BY <1>3, <2>1, <2>2, <2>3, <3>1, <3>2
    <3>3. CASE q = p
      BY <1>2, <1>3, <2>1, <2>2, <2>3, <3>1, <3>3
    <3> QED BY <3>2, <3>3
  <2> QED BY <1>2, <2>3, <2>4
<1>9. CASE InsertFinish
  <2> DEFINE p == call.pval
  <2>1. /\ call.op = "insert" /\ p \in Part /\ call.hole = call.pos
        /\ call.pos \in Nat /\ call.pos <= order_hd[p] /\ p \in loaded_hd
    BY <1>3, <1>9, CallShape DEF InsertFinish, CallOK
  <2>2. call'.op = "save"
    BY <1>9, <2>1, CallIntro DEF InsertFinish
  <2>3. /\ row_hd' = row_hd \cup {Key(p, call.pos)}
        /\ order_hd' = [order_hd EXCEPT ![p] = @ + 1]
        /\ loaded_hd' = loaded_hd
        /\ strays' = strays \ {Key(p, order_hd[p])}
    BY <1>9, RegistryPutDoes DEF InsertFinish
  <2>4. Contiguous'
    <3> SUFFICES ASSUME NEW q \in Part, NEW i \in Positions
                 PROVE  Key(q, i) \in row_hd' <=> i \in Occupied(q)' \/ Key(q, i) \in strays'
      OBVIOUS
    <3>1. Key(q, i) \in row_hd <=> i \in Occupied(q) \/ Key(q, i) \in strays
      BY <1>2
    <3>2. CASE q # p
      BY <1>3, <2>1, <2>2, <2>3, <3>1, <3>2
    <3>3. CASE q = p
      BY <1>2, <1>3, <2>1, <2>2, <2>3, <3>1, <3>3
    <3> QED BY <3>2, <3>3
  <2> QED BY <1>2, <1>3, <2>1, <2>3, <2>4
<1>10. ASSUME NEW p \in Part, NEW pos \in Positions, RemoveStart(p, pos)
       PROVE  /\ Contiguous'
              /\ \A q \in Part \ loaded_hd' : order_hd'[q] = 0
              /\ StraysOK'
  <2>1. /\ call.op = "idle"
        /\ call'.op = "remove" /\ call'.pval = p /\ call'.hole = pos
    BY <1>10, CallIntro DEF RemoveStart, Ready
  <2>2. /\ row_hd' = row_hd \ {Key(p, pos)} /\ pos < order_hd[p]
        /\ UNCHANGED <<order_hd, loaded_hd, strays>>
    BY <1>3, <1>10 DEF RemoveStart, RegistryDel
  <2> QED BY <1>2, <1>3, <2>1, <2>2
<1>11. CASE ShiftDown
  <2> DEFINE p == call.pval
             h == call.hole
  <2>1. /\ call.op = "remove" /\ p \in Part /\ h \in Nat
        /\ h < order_hd[p] - 1
    BY <1>3, <1>11, CallShape DEF ShiftDown
  <2>2. call'.op = "remove" /\ call'.pval = p /\ call'.hole = h + 1
    BY <1>11, <2>1, CallIntro DEF ShiftDown
  <2>3. /\ row_hd' = (row_hd \cup {Key(p, h)}) \ {Key(p, h + 1)}
        /\ UNCHANGED <<order_hd, loaded_hd, strays>>
    BY <1>11 DEF ShiftDown, MoveKey
  <2>4. Contiguous'
    <3> SUFFICES ASSUME NEW q \in Part, NEW i \in Positions
                 PROVE  Key(q, i) \in row_hd' <=> i \in Occupied(q)' \/ Key(q, i) \in strays'
      OBVIOUS
    <3>1. Key(q, i) \in row_hd <=> i \in Occupied(q) \/ Key(q, i) \in strays
      BY <1>2
    <3>2. CASE q # p
      BY <1>3, <2>1, <2>2, <2>3, <3>1, <3>2
    <3>3. CASE q = p
      BY <1>2, <1>3, <2>1, <2>2, <2>3, <3>1, <3>3
    <3> QED BY <3>2, <3>3
  <2> QED BY <1>2, <2>3, <2>4
<1>12. CASE RemoveFinish
  <2> DEFINE p == call.pval
  <2>1. /\ call.op = "remove" /\ p \in Part /\ call.hole = order_hd[p] - 1
        /\ p \in loaded_hd
    BY <1>3, <1>12, CallShape DEF RemoveFinish, CallOK
  <2>2. call'.op = "save"
    BY <1>12, <2>1, CallIntro DEF RemoveFinish
  <2>3. /\ row_hd' = row_hd /\ loaded_hd' = loaded_hd /\ strays' = strays
        /\ order_hd' = [order_hd EXCEPT ![p] = @ - 1]
    BY <1>12 DEF RemoveFinish, rowVars
  <2>4. Contiguous'
    <3> SUFFICES ASSUME NEW q \in Part, NEW i \in Positions
                 PROVE  Key(q, i) \in row_hd' <=> i \in Occupied(q)' \/ Key(q, i) \in strays'
      OBVIOUS
    <3>1. Key(q, i) \in row_hd <=> i \in Occupied(q) \/ Key(q, i) \in strays
      BY <1>2
    <3>2. CASE q # p
      BY <1>3, <2>1, <2>2, <2>3, <3>1, <3>2
    <3>3. CASE q = p
      BY <1>2, <1>3, <2>1, <2>2, <2>3, <3>1, <3>3
    <3> QED BY <3>2, <3>3
  <2> QED BY <1>2, <1>3, <2>1, <2>3, <2>4
<1>13. ASSUME NEW p \in Part, Clear(p)
       PROVE  /\ Contiguous'
              /\ \A q \in Part \ loaded_hd' : order_hd'[q] = 0
              /\ StraysOK'
  <2>1. call.op = "idle" /\ call'.op = "save"
    BY <1>13, CallIntro DEF Clear, Ready
  <2>2. /\ row_hd' = row_hd \ { r \in RowId : r[1] = p /\ r[2] < order_hd[p] }
        /\ order_hd' = [order_hd EXCEPT ![p] = 0]
        /\ loaded_hd' = loaded_hd /\ strays' = strays /\ p \in loaded_hd
    BY <1>13 DEF Clear, Ready
  <2> QED BY <1>2, <1>3, <2>1, <2>2
<1>14. ASSUME NEW p \in Part, ExplicitSave(p)
       PROVE  /\ Contiguous'
              /\ \A q \in Part \ loaded_hd' : order_hd'[q] = 0
              /\ StraysOK'
  <2>1. call.op = "idle" /\ call'.op = "save"
    BY <1>14, CallIntro DEF ExplicitSave, Ready
  <2> QED BY <1>2, <1>14, <2>1 DEF ExplicitSave, rowVars
<1>15. CASE SaveCallback
  <2>1. call.op = "save" /\ call'.op = "idle"
    BY <1>15, CallIntro DEF SaveCallback
  <2> QED BY <1>2, <1>15, <2>1 DEF SaveCallback, rowVars
<1>16. ASSUME NEW p \in Part, NEW pos \in 0 .. MaxLen, NEW item \in Items,
              UpdateItem(p, pos, item)
       PROVE  /\ Contiguous'
              /\ \A q \in Part \ loaded_hd' : order_hd'[q] = 0
              /\ StraysOK'
  <2>1. /\ call.op = "idle" /\ call' = call
        /\ order_hd' = order_hd /\ loaded_hd' = loaded_hd
        /\ row_hd' = row_hd \cup {Key(p, pos)} /\ p \in loaded_hd
        /\ pos \in Positions /\ (pos < order_hd[p] \/ StrayPuts)
        /\ strays' = IF pos < order_hd[p] THEN strays ELSE strays \cup {Key(p, pos)}
    BY <1>16, CallIntro, RegistryPutDoes DEF UpdateItem, Ready
  <2> QED BY <1>2, <1>3, <2>1
<1>17. CASE SearchQuery
  BY <1>2, <1>17 DEF SearchQuery, RefreshIndex, orderVars
<1>18. CASE Restart
  <2>1. /\ row_hd' = {} /\ strays' = {} /\ call'.op = "idle"
        /\ order_hd' = [p \in Part |-> 0]
    BY <1>18, CallIntro DEF Restart
  <2> QED BY <2>1
<1>19. CASE UNCHANGED vars
  BY <1>2, <1>19 DEF vars, rowVars, orderVars
<1> QED BY <1>5, <1>6, <1>7, <1>8, <1>9, <1>10, <1>11, <1>12, <1>13, <1>14,
           <1>15, <1>16, <1>17, <1>18, <1>19 DEF Next, CallStep

(* With no partition value a prefix of another, the rows of a partition    *)
(* are numbered from 0 to its count without gap or leftover, in every      *)
(* state of every call, whatever fails to load, to be saved or to be       *)
(* allocated, and beyond the count there is no row but those the program   *)
(* put there itself.                                                       *)
THEOREM OrderedContiguous ==
  ASSUME Overlap = {}
  PROVE  Spec => []Contiguous
<1>1. ContiguousInv /\ [Next]_vars => ContiguousInv'
  BY ContiguousStep
<1>2. ContiguousInv => Contiguous
  BY DEF ContiguousInv
<1> QED BY <1>1, <1>2, ContiguousInit, PTL DEF Spec

-----------------------------------------------------------------------------
(* The index.  A step of a call that moves or deletes rows marks the index *)
(* before it is left; a load of no item and the clearing of an empty       *)
(* partition do not, and change no row.                                    *)
LEMMA IndexStep ==
  ASSUME TypeInv, IndexIsCurrent, [Next]_vars
  PROVE  IndexIsCurrent'
<1>1. TypeOK
  BY DEF TypeInv
<1>2. ASSUME UNCHANGED rowVars
      PROVE  IndexIsCurrent'
  BY <1>2 DEF rowVars, IndexIsCurrent, IndexedText, HasIndex
<1> USE OrderedAssumption
<1>3. MarkDirty => IndexIsCurrent'
  BY DirtyIsCurrent
<1>4. ASSUME NEW p \in Part, EnsureLoaded(p)
      PROVE  IndexIsCurrent'
  <2>1. storage[p].len \in 0 .. MaxLen
    BY <1>1, StorageShape DEF TypeOK
  <2>2. PICK k \in 0 .. storage[p].len : LoadItems(p, k)
    BY <1>4, <2>1 DEF EnsureLoaded
  <2>3. CASE k > 0
    BY <1>3, <2>2, <2>3 DEF LoadItems, MarkDirty
  <2>4. CASE k = 0
    <3>1. { r \in RowId : r[1] = p /\ r[2] < k } = {}
      BY <2>4
    <3>2. UNCHANGED rowVars
      BY <1>1, <2>2, <2>4, <3>1
         DEF LoadItems, rowVars, TypeOK, RowStoreTypeOK
    <3> QED BY <1>2, <3>2
  <2> QED BY <2>1, <2>3, <2>4
<1>5. ASSUME NEW p \in Part, Clear(p)
      PROVE  IndexIsCurrent'
  <2>1. order_hd[p] \in 0 .. MaxLen
    BY <1>1 DEF TypeOK
  <2>2. CASE order_hd[p] > 0
    BY <1>3, <1>5, <2>2 DEF Clear, MarkDirty
  <2>3. CASE order_hd[p] = 0
    <3>1. { r \in RowId : r[1] = p /\ r[2] < order_hd[p] } = {}
      BY <2>3
    <3>2. UNCHANGED rowVars
      BY <1>1, <1>5, <2>3, <3>1 DEF Clear, rowVars, TypeOK, RowStoreTypeOK
    <3> QED BY <1>2, <3>2
  <2> QED BY <2>1, <2>2, <2>3
<1>6. CASE CallStep
  BY <1>2, <1>3, <1>6
     DEF CallStep, ShiftUp, ShiftDown, MoveKey, RemoveFinish, SaveCallback,
         InsertFinish, RegistryPut, RegistryPutLosing
<1>7. CASE SearchQuery
  BY <1>1, <1>7, RefreshIndexCurrent DEF SearchQuery, TypeOK
<1>8. CASE Restart
  BY <1>8 DEF Restart, IndexIsCurrent
<1>9. CASE UNCHANGED vars
  BY <1>2, <1>9 DEF vars
<1>10. ASSUME NEW p \in Part, ExplicitSave(p)
       PROVE  IndexIsCurrent'
  BY <1>2, <1>10 DEF ExplicitSave
<1>11. ASSUME NEW p \in Part, NEW item \in Items, Append(p, item)
       PROVE  IndexIsCurrent'
  BY <1>3, <1>11, RegistryPutDoes DEF Append
<1>12. ASSUME NEW p \in Part, NEW pos \in 0 .. MaxLen, NEW item \in Items,
              InsertStart(p, pos, item) \/ UpdateItem(p, pos, item)
       PROVE  IndexIsCurrent'
  BY <1>2, <1>3, <1>12, RegistryPutDoes DEF InsertStart, UpdateItem
<1>13. ASSUME NEW p \in Part, NEW pos \in Positions, RemoveStart(p, pos)
       PROVE  IndexIsCurrent'
  BY <1>3, <1>13 DEF RemoveStart, RegistryDel
<1> QED BY <1>4, <1>5, <1>6, <1>7, <1>8, <1>9, <1>10, <1>11, <1>12, <1>13
        DEF Next

(* No entry of the index of an ordered source survives a shift, and none   *)
(* is missed by one: of the rows without a token stream a clean index      *)
(* holds exactly the texts they have at the positions they have now, and   *)
(* of the others the texts of their streams.                               *)
THEOREM OrderedSearchFollows == Spec => []SearchFollowsRows
<1>1. Init => TypeInv /\ IndexIsCurrent
  BY TypeInit DEF Init, RowStoreInit, IndexIsCurrent
<1>2. TypeInv /\ IndexIsCurrent /\ [Next]_vars => (TypeInv /\ IndexIsCurrent)'
  BY TypeStep, IndexStep
<1>3. TypeInv /\ IndexIsCurrent => SearchFollowsRows
  <2> SUFFICES ASSUME TypeInv, IndexIsCurrent, HasIndex, ~lemma_dirty,
                      NEW f \in Searchable, NEW v \in Value \ {Empty},
                      NEW r \in RowId
               PROVE  r \in IndexAnswer(f, v) <=>
                        /\ r \in row_hd
                        /\ tokens_hd[r][f] = NULL => fields_hd[r][f] = v
                        /\ tokens_hd[r][f] # NULL => tokens_hd[r][f] = v
    BY DEF SearchFollowsRows
  <2>1. f \notin Derived
    BY RowStoreAssumption
  <2>2. r \in IndexAnswer(f, v) <=> r \in row_hd /\ v = IndexedText(r, f)
    BY DEF IndexAnswer, IndexIsCurrent
  <2> QED BY <2>1, <2>2 DEF IndexedText
<1> QED BY <1>1, <1>2, <1>3, PTL DEF Spec

-----------------------------------------------------------------------------
(* Persistence.  While no callback fails, a loaded partition that no call  *)
(* works on has as many items as its persisted copy; a call that changed   *)
(* it saves before it returns.                                             *)
WorksOn(p) == call.op \in {"insert", "remove", "save"} /\ call.pval = p

SavedInv ==
  /\ ContiguousInv
  /\ \A p \in loaded_hd :
       storage[p].len = order_hd[p] \/ WorksOn(p)

(* Every step keeps it.                                                    *)
LEMMA SavedStep ==
  ASSUME Overlap = {}, LoadFails = FALSE, SaveFails = FALSE,
         SavedInv, [Next]_vars
  PROVE  SavedInv'
<1> USE OrderedAssumption DEF WorksOn
<1>1. ContiguousInv'
  BY ContiguousStep DEF SavedInv
<1>2. /\ ContiguousInv
      /\ \A p \in loaded_hd : storage[p].len = order_hd[p] \/ WorksOn(p)
  BY DEF SavedInv
<1>3. /\ order_hd \in [Part -> 0 .. MaxLen]
      /\ loaded_hd \subseteq Part
      /\ storage \in [Part -> ListsUpTo(MaxLen, StoredRow)]
      /\ call \in Calls
      /\ TypeInv
  BY <1>2 DEF ContiguousInv, TypeInv, TypeOK
<1>4. SUFFICES ASSUME NEW p \in loaded_hd'
               PROVE  storage'[p].len = order_hd'[p] \/ WorksOn(p)'
  BY <1>1 DEF SavedInv
<1>5. call.op = "idle" => call = Idle /\ ~WorksOn(p)
  BY <1>3, CallShape
<1>6. ASSUME NEW q \in Part, EnsureLoaded(q)
      PROVE  storage'[p].len = order_hd'[p] \/ WorksOn(p)'
  <2>1. /\ call.op \in {"idle", "save"} /\ order_hd[q] = 0 /\ q \notin loaded_hd
        /\ loaded_hd' = loaded_hd \cup {q} /\ storage' = storage /\ call' = call
        /\ call.op = "save" => call.pval = q
    BY <1>2, <1>6, CallIntro DEF EnsureLoaded, ContiguousInv
  <2>2. storage[q].len \in 0 .. MaxLen
    BY <1>3, StorageShape
  <2>3. LoadItems(q, storage[q].len)
    BY <1>6 DEF EnsureLoaded
  <2>4. \A i \in Positions : Key(q, i) \in row_hd' <=> i < storage[q].len
    <3>1. \A i \in Positions : Key(q, i) \notin row_hd
      BY <1>2, <2>1 DEF ContiguousInv, Contiguous, Occupied, Shifting, StraysOK
    <3> QED BY <2>3, <3>1 DEF LoadItems
  <2>5. PartitionCount(row_hd', q) = storage[q].len
    <3>1. row_hd' \in SUBSET RowId
      BY <1>1 DEF ContiguousInv, TypeInv, TypeOK, RowStoreTypeOK
    <3> QED BY <2>2, <2>4, <3>1, CountLoaded
  <2>6. order_hd' = [order_hd EXCEPT ![q] = storage[q].len]
    BY <1>6, <2>5 DEF EnsureLoaded
  <2> QED BY <1>2, <1>3, <1>5, <2>1, <2>6
<1>7. ASSUME NEW q \in Part, NEW item \in Items, Append(q, item)
      PROVE  storage'[p].len = order_hd'[p] \/ WorksOn(p)'
  <2>1. /\ call.op = "idle" /\ call'.op = "save" /\ call'.pval = q
        /\ order_hd' = [order_hd EXCEPT ![q] = @ + 1]
        /\ UNCHANGED <<loaded_hd, storage>>
    BY <1>7, CallIntro DEF Append, Ready
  <2> QED BY <1>2, <1>3, <1>5, <2>1
<1>8. ASSUME NEW q \in Part, Clear(q)
      PROVE  storage'[p].len = order_hd'[p] \/ WorksOn(p)'
  <2>1. /\ call.op = "idle" /\ call'.op = "save" /\ call'.pval = q
        /\ order_hd' = [order_hd EXCEPT ![q] = 0]
        /\ UNCHANGED <<loaded_hd, storage>>
    BY <1>8, CallIntro DEF Clear, Ready
  <2> QED BY <1>2, <1>3, <1>5, <2>1
<1>9. ASSUME NEW q \in Part, ExplicitSave(q)
      PROVE  storage'[p].len = order_hd'[p] \/ WorksOn(p)'
  <2>1. call.op = "idle" /\ UNCHANGED <<loaded_hd, storage, order_hd>>
    BY <1>9, CallIntro DEF ExplicitSave, Ready
  <2> QED BY <1>2, <1>5, <2>1
<1>10. ASSUME NEW q \in Part, NEW pos \in 0 .. MaxLen, NEW item \in Items,
              InsertStart(q, pos, item) \/ UpdateItem(q, pos, item)
       PROVE  storage'[p].len = order_hd'[p] \/ WorksOn(p)'
  <2>1. call.op = "idle" /\ UNCHANGED <<loaded_hd, storage, order_hd>>
    BY <1>10, CallIntro DEF InsertStart, UpdateItem, Ready, orderVars
  <2> QED BY <1>2, <1>5, <2>1
<1>11. ASSUME NEW q \in Part, NEW pos \in Positions, RemoveStart(q, pos)
       PROVE  storage'[p].len = order_hd'[p] \/ WorksOn(p)'
  <2>1. call.op = "idle" /\ UNCHANGED <<loaded_hd, storage, order_hd>>
    BY <1>11, CallIntro DEF RemoveStart, Ready
  <2> QED BY <1>2, <1>5, <2>1
<1>12. CASE ShiftUp
  <2>1. /\ call.op = "insert" /\ call'.op = "insert" /\ call'.pval = call.pval
        /\ UNCHANGED <<loaded_hd, storage, order_hd>>
    BY <1>12 DEF ShiftUp, InsertCall
  <2> QED BY <1>2, <2>1
<1>13. CASE ShiftDown
  <2>1. /\ call.op = "remove" /\ call'.op = "remove" /\ call'.pval = call.pval
        /\ UNCHANGED <<loaded_hd, storage, order_hd>>
    BY <1>13 DEF ShiftDown, RemoveCall
  <2> QED BY <1>2, <2>1
<1>14. CASE InsertFinish \/ RemoveFinish
  <2>1. /\ call.op \in {"insert", "remove"}
        /\ call'.op = "save" /\ call'.pval = call.pval
        /\ UNCHANGED <<loaded_hd, storage>>
    BY <1>14 DEF InsertFinish, RemoveFinish, SaveCall
  <2>2. p # call.pval => order_hd'[p] = order_hd[p]
    BY <1>3, <1>14, <2>1 DEF InsertFinish, RemoveFinish
  <2> QED BY <1>2, <2>1, <2>2
<1>15. CASE SaveCallback
  <2>1. /\ call.op = "save"
        /\ storage' = [storage EXCEPT ![call.pval] = Contents(call.pval)]
        /\ UNCHANGED <<loaded_hd, order_hd>>
    BY <1>15 DEF SaveCallback
  <2>2. Contents(call.pval).len = order_hd[call.pval]
    BY DEF Contents
  <2> QED BY <1>2, <1>3, <2>1, <2>2
<1>16. CASE SearchQuery
  BY <1>2, <1>16 DEF SearchQuery, orderVars
<1>17. CASE Restart
  BY <1>17 DEF Restart
<1>18. CASE UNCHANGED vars
  BY <1>2, <1>18 DEF vars, orderVars
<1> QED BY <1>6, <1>7, <1>8, <1>9, <1>10, <1>11, <1>12, <1>13, <1>14, <1>15,
           <1>16, <1>17, <1>18 DEF Next, CallStep

(* While no callback fails and no partition value is a prefix of another,  *)
(* a positional call has persisted as many items as there are when it      *)
(* returns, whatever restarts and loads came before.                       *)
THEOREM OrderedSaved ==
  ASSUME Overlap = {}, LoadFails = FALSE, SaveFails = FALSE
  PROVE  Spec => []ReturnedMeansSaved
<1>1. Init => SavedInv
  BY ContiguousInit DEF Init, SavedInv
<1>2. SavedInv /\ [Next]_vars => SavedInv'
  BY SavedStep
<1>3. SavedInv => ReturnedMeansSaved
  BY CallIntro DEF SavedInv, ReturnedMeansSaved, WorksOn
<1> QED BY <1>1, <1>2, <1>3, PTL DEF Spec

-----------------------------------------------------------------------------
(* The refinement.  Assumed: no partition value is a prefix of another     *)
(* ("a" and "a__b"), the load callback does not fail, the program puts on  *)
(* no key of a missing item, and items of a plain map name every field (a  *)
(* record map takes any item).  The run OrderedLoadFailure shows what      *)
(* becomes of the second assumption when a callback fails, the README what *)
(* the others leave out.                                                   *)
WholeItems == Record \/ \A item \in Items : DOMAIN item = Field

(* The rows a caller can see: of a record map a full struct or none, of a  *)
(* plain map an entry for every field.                                     *)
GoodRow(row) == row \in [Field -> Value] \/ (Record /\ row = BlankRow)

-----------------------------------------------------------------------------
(* The row operations on good rows.                                        *)

(* An item put where there is no row, or that names every field, makes the *)
(* row it would make of nothing.                                           *)
LEMMA FreshItem ==
  ASSUME WholeItems, NEW item \in Items, NEW row \in StoredRow,
         Record => row = BlankRow
  PROVE  StoreItem(row, item) = StoreItem(BlankRow, item)
BY DEF WholeItems, StoreItem

(* Every put makes a good row of a good row, or of no row.                 *)
LEMMA GoodPut ==
  ASSUME WholeItems, NEW item \in Items, NEW row \in StoredRow,
         Record => GoodRow(row)
  PROVE  GoodRow(StoreItem(row, item))
<1>1. item \in ItemSet
  BY RowDataAssumption
<1>2. \A f \in DOMAIN item : Stored(item[f]) \in Value
  BY <1>1, ItemShape, RowDataAssumption DEF Stored
<1>3. CASE DOMAIN item = Field
  BY <1>2, <1>3 DEF StoreItem, GoodRow
<1>4. CASE Record /\ row = BlankRow
  <2>1. CASE DOMAIN item = {}
    BY <1>4, <2>1 DEF StoreItem, Allocated, GoodRow, BlankRow
  <2>2. CASE DOMAIN item # {}
    BY <1>2, <1>4, <2>2, RowDataAssumption DEF StoreItem, Allocated, GoodRow
  <2> QED BY <2>1, <2>2
<1>5. CASE Record /\ row \in [Field -> Value] /\ row # BlankRow
  BY <1>2, <1>5 DEF StoreItem, Allocated, GoodRow
<1> QED BY <1>3, <1>4, <1>5 DEF WholeItems, GoodRow

(* Putting the entries of a good row back where there is no row gives the  *)
(* row again: loading undoes saving.                                       *)
LEMMA LoadedRow ==
  ASSUME NEW row, GoodRow(row), NEW old \in StoredRow,
         Record => old = BlankRow
  PROVE  StoreItem(old, ItemOf(row)) = row
<1>1. row \in StoredRow
  BY BlankType DEF GoodRow
<1>2. /\ DOMAIN ItemOf(row) = { f \in Field : row[f] # NULL }
      /\ \A f \in DOMAIN ItemOf(row) : ItemOf(row)[f] = row[f]
  BY <1>1, ItemOfType
<1>3. CASE row \in [Field -> Value]
  <2>1. DOMAIN ItemOf(row) = Field
    BY <1>2, <1>3, RowDataAssumption
  <2>2. \A f \in Field : Stored(ItemOf(row)[f]) = row[f]
    BY <1>2, <1>3, <2>1, RowDataAssumption DEF Stored
  <2> QED BY <1>3, <2>1, <2>2 DEF StoreItem
<1>4. CASE Record /\ row = BlankRow
  <2>1. DOMAIN ItemOf(row) = {}
    BY <1>2, <1>4 DEF BlankRow
  <2> QED BY <1>4, <2>1 DEF StoreItem, Allocated, BlankRow
<1> QED BY <1>3, <1>4 DEF GoodRow

(* A good row moved to where there is no row arrives unchanged.            *)
LEMMA MovedRow ==
  ASSUME NEW from, GoodRow(from), NEW to \in StoredRow,
         Record => to = BlankRow
  PROVE  CopiedOver(from, to) = from
<1>1. CASE Record
  BY <1>1 DEF CopiedOver, GoodRow
<1>2. CASE ~Record
  BY <1>2, RowDataAssumption DEF CopiedOver, GoodRow
<1> QED BY <1>1, <1>2

(* A deleted record is blank.                                              *)
LEMMA DeletedRow ==
  ASSUME NEW row
  PROVE  Record => CormDelFields(row) = BlankRow
BY DEF CormDelFields

-----------------------------------------------------------------------------
(* The invariant behind the refinement.                                    *)

DataInv ==
  /\ ContiguousInv
  /\ strays = {}
  /\ \A r \in row_hd : GoodRow(fields_hd[r])
  /\ Record => \A r \in RowId \ row_hd : fields_hd[r] = BlankRow
  /\ \A p \in Part, i \in Positions :
       i < storage[p].len => GoodRow(storage[p].at[i])

(* A new source holds no row.                                              *)
LEMMA DataInit == Init => DataInv
<1> SUFFICES ASSUME Init PROVE DataInv
  OBVIOUS
<1>1. ContiguousInv
  BY ContiguousInit
<1> QED BY <1>1, OrderedAssumption DEF DataInv, Init, RowStoreInit, EmptyList

(* A put keeps the rows good.                                              *)
LEMMA PutData ==
  ASSUME WholeItems, DataInv, NEW r \in RowId, NEW item \in Items,
         RegistryPut(r, item)
  PROVE  /\ \A s \in row_hd' : GoodRow(fields_hd'[s])
         /\ Record => \A s \in RowId \ row_hd' : fields_hd'[s] = BlankRow
<1>1. fields_hd \in [RowId -> StoredRow]
  BY DEF DataInv, ContiguousInv, TypeInv, TypeOK, RowStoreTypeOK
<1>2. Record => GoodRow(fields_hd[r])
  BY DEF DataInv, GoodRow
<1>3. GoodRow(StoreItem(fields_hd[r], item))
  BY <1>1, <1>2, GoodPut
<1>4. /\ row_hd' = row_hd \cup {r}
      /\ fields_hd'[r] = StoreItem(fields_hd[r], item)
      /\ \A s \in RowId \ {r} : fields_hd'[s] = fields_hd[s]
  BY <1>1, RegistryPutDoes
<1>5. row_hd \subseteq RowId
  BY DEF DataInv, ContiguousInv, TypeInv, TypeOK, RowStoreTypeOK
<1> QED BY <1>3, <1>4, <1>5 DEF DataInv

(* So does a move from a row to where there is none.  Where the copy of a  *)
(* record could not be allocated, the row arrives blank.                   *)
LEMMA MoveData ==
  ASSUME DataInv, NEW from \in row_hd, NEW to \in RowId \ row_hd,
         MoveKey(from, to)
  PROVE  /\ \A s \in row_hd' : GoodRow(fields_hd'[s])
         /\ Record => \A s \in RowId \ row_hd' : fields_hd'[s] = BlankRow
         /\ \/ fields_hd'[to] = fields_hd[from]
            \/ Record /\ MallocFails /\ fields_hd'[to] = BlankRow
         /\ \A s \in RowId \ {from, to} : fields_hd'[s] = fields_hd[s]
<1>1. fields_hd \in [RowId -> StoredRow] /\ row_hd \subseteq RowId
  BY DEF DataInv, ContiguousInv, TypeInv, TypeOK, RowStoreTypeOK
<1>2. CopiedOver(fields_hd[from], fields_hd[to]) = fields_hd[from]
  BY <1>1, MovedRow DEF DataInv
<1>3. Record => CormDelFields(fields_hd[from]) = BlankRow
  BY DeletedRow
<1>4. PICK row \in ArrivedRows(fields_hd[from], fields_hd[to]) :
        fields_hd' = [fields_hd EXCEPT ![to] = row, ![from] = CormDelFields(@)]
  BY DEF MoveKey
<1>5. /\ fields_hd'[to] = row
      /\ fields_hd'[from] = CormDelFields(fields_hd[from])
      /\ \A s \in RowId \ {from, to} : fields_hd'[s] = fields_hd[s]
  BY <1>1, <1>4
<1>6. Record => fields_hd[to] = BlankRow
  BY DEF DataInv
<1>7. row = fields_hd[from] \/ (Record /\ MallocFails /\ row = BlankRow)
  BY <1>2, <1>4, <1>6 DEF ArrivedRows
<1>8. GoodRow(row)
  BY <1>7 DEF DataInv, GoodRow
<1>9. row_hd' = (row_hd \cup {to}) \ {from}
  BY DEF MoveKey
<1> QED BY <1>1, <1>3, <1>5, <1>7, <1>8, <1>9 DEF DataInv

(* Where the row that a shift moves is, and where it goes.                 *)
LEMMA ShiftUpRows ==
  ASSUME DataInv, ShiftUp
  PROVE  /\ call.op = "insert" /\ call.pval \in Part
         /\ call.hole \in 1 .. order_hd[call.pval] /\ call.pos < call.hole
         /\ order_hd[call.pval] < MaxLen
         /\ Key(call.pval, call.hole - 1) \in row_hd
         /\ Key(call.pval, call.hole) \in RowId \ row_hd
<1> USE OrderedAssumption
<1>1. /\ call.op = "insert" /\ call.pval \in Part
      /\ call.hole \in 1 .. order_hd[call.pval] /\ call.pos < call.hole
      /\ order_hd[call.pval] < MaxLen /\ order_hd[call.pval] \in Nat
  BY CallShape DEF DataInv, ContiguousInv, TypeInv, TypeOK, CallOK, ShiftUp
<1>2. /\ call.hole - 1 \in Positions /\ call.hole - 1 \in Occupied(call.pval)
      /\ call.hole \in Positions /\ call.hole \notin Occupied(call.pval)
  BY <1>1 DEF Occupied, Shifting
<1> QED BY <1>1, <1>2 DEF DataInv, ContiguousInv, Contiguous

(* The same for the shift after a removal.                                 *)
LEMMA ShiftDownRows ==
  ASSUME DataInv, ShiftDown
  PROVE  /\ call.op = "remove" /\ call.pval \in Part
         /\ call.hole \in 0 .. order_hd[call.pval] - 2
         /\ order_hd[call.pval] \in 0 .. MaxLen
         /\ Key(call.pval, call.hole + 1) \in row_hd
         /\ Key(call.pval, call.hole) \in RowId \ row_hd
<1> USE OrderedAssumption
<1>1. /\ call.op = "remove" /\ call.pval \in Part
      /\ call.hole \in 0 .. order_hd[call.pval] - 2
      /\ order_hd[call.pval] \in 0 .. MaxLen
  BY CallShape DEF DataInv, ContiguousInv, TypeInv, TypeOK, CallOK, ShiftDown
<1>2. /\ call.hole + 1 \in Positions /\ call.hole + 1 \in Occupied(call.pval)
      /\ call.hole \in Positions /\ call.hole \notin Occupied(call.pval)
  BY <1>1 DEF Occupied, Shifting
<1> QED BY <1>1, <1>2 DEF DataInv, ContiguousInv, Contiguous

(* What a load puts in the maps.                                           *)
LEMMA LoadData ==
  ASSUME DataInv, ~LoadFails, NEW p \in Part, EnsureLoaded(p)
  PROVE  /\ \A i \in Positions : i < storage[p].len =>
              fields_hd'[Key(p, i)] = storage[p].at[i]
         /\ \A r \in RowId : (r[1] # p \/ r[2] >= storage[p].len) =>
              /\ fields_hd'[r] = fields_hd[r]
              /\ r \in row_hd' <=> r \in row_hd
         /\ \A i \in Positions : i < storage[p].len => Key(p, i) \in row_hd'
<1> USE OrderedAssumption
<1>1. LoadItems(p, storage[p].len)
  BY DEF EnsureLoaded
<1>2. /\ fields_hd \in [RowId -> StoredRow]
      /\ row_hd \subseteq RowId
      /\ storage[p].len \in 0 .. MaxLen
  BY StorageShape DEF DataInv, ContiguousInv, TypeInv, TypeOK, RowStoreTypeOK
<1>3. \A i \in Positions : Key(p, i) \notin row_hd
  <2>1. order_hd[p] = 0 /\ call.op \in {"idle", "save"}
    BY CallIntro DEF DataInv, ContiguousInv, EnsureLoaded
  <2> QED BY <2>1 DEF DataInv, ContiguousInv, Contiguous, Occupied, Shifting
<1>4. ASSUME NEW i \in Positions, i < storage[p].len
      PROVE  fields_hd'[Key(p, i)] = storage[p].at[i] /\ Key(p, i) \in row_hd'
  <2>1. Key(p, i) \in RowId /\ Key(p, i)[1] = p /\ Key(p, i)[2] = i
    OBVIOUS
  <2>2. fields_hd'[Key(p, i)] =
          StoreItem(fields_hd[Key(p, i)], ItemOf(storage[p].at[i]))
    BY <1>1, <1>4, <2>1 DEF LoadItems
  <2>3. GoodRow(storage[p].at[i])
    BY <1>4 DEF DataInv
  <2>4. /\ fields_hd[Key(p, i)] \in StoredRow
        /\ Record => fields_hd[Key(p, i)] = BlankRow
    BY <1>2, <1>3, <2>1 DEF DataInv
  <2>5. StoreItem(fields_hd[Key(p, i)], ItemOf(storage[p].at[i])) = storage[p].at[i]
    BY <2>3, <2>4, LoadedRow
  <2>6. Key(p, i) \in row_hd'
    BY <1>1, <1>4, <2>1 DEF LoadItems
  <2> QED BY <2>2, <2>5, <2>6
<1>5. ASSUME NEW r \in RowId, r[1] # p \/ r[2] >= storage[p].len
      PROVE  fields_hd'[r] = fields_hd[r] /\ (r \in row_hd' <=> r \in row_hd)
  <2>1. ~(r[1] = p /\ r[2] < storage[p].len)
    BY <1>2, <1>5
  <2> QED BY <1>1, <2>1 DEF LoadItems
<1> QED BY <1>4, <1>5

(* Every step keeps the rows good and the empty positions blank.           *)
LEMMA DataStep ==
  ASSUME Overlap = {}, ~LoadFails, ~StrayPuts, WholeItems, DataInv, [Next]_vars
  PROVE  DataInv'
<1> USE OrderedAssumption
<1> DEFINE Rows == /\ \A r \in row_hd : GoodRow(fields_hd[r])
                   /\ Record => \A r \in RowId \ row_hd : fields_hd[r] = BlankRow
           Saved == \A p \in Part, i \in Positions :
                      i < storage[p].len => GoodRow(storage[p].at[i])
<1>1. ContiguousInv' /\ strays' = {}
  <2>1. ContiguousInv'
    BY ContiguousStep DEF DataInv
  <2> QED BY <2>1 DEF ContiguousInv, StraysOK
<1>2. /\ row_hd \subseteq RowId /\ fields_hd \in [RowId -> StoredRow]
      /\ storage \in [Part -> ListsUpTo(MaxLen, StoredRow)]
      /\ order_hd \in [Part -> 0 .. MaxLen]
      /\ call \in Calls /\ ContiguousInv
      /\ Rows /\ Saved
  BY DEF DataInv, ContiguousInv, TypeInv, TypeOK, RowStoreTypeOK
<1>3. SUFFICES Rows' /\ Saved'
  BY <1>1 DEF DataInv
<1>4. (UNCHANGED <<row_hd, fields_hd>>) => Rows'
  BY <1>2
<1>5. (UNCHANGED storage) => Saved'
  BY <1>2
<1>6. ASSUME NEW p \in Part, EnsureLoaded(p)
      PROVE  Rows' /\ Saved'
  <2>1. storage[p].len \in 0 .. MaxLen
    BY <1>2, StorageShape
  <2>2. row_hd' \subseteq RowId
    BY <1>1 DEF ContiguousInv, TypeInv, TypeOK, RowStoreTypeOK
  <2>3. ASSUME NEW r \in RowId
        PROVE  /\ r \in row_hd' => GoodRow(fields_hd'[r])
               /\ Record /\ r \notin row_hd' => fields_hd'[r] = BlankRow
    <3>1. PICK q \in Part, i \in Positions : r = Key(q, i)
      OBVIOUS
    <3>2. CASE q = p /\ i < storage[p].len
      BY <1>2, <1>6, <3>1, <3>2, LoadData
    <3>3. CASE q # p \/ i >= storage[p].len
      <4>1. fields_hd'[r] = fields_hd[r] /\ (r \in row_hd' <=> r \in row_hd)
        BY <1>6, <3>1, <3>3, LoadData
      <4> QED BY <1>2, <4>1
    <3> QED BY <2>1, <3>2, <3>3
  <2>4. Rows'
    BY <2>2, <2>3
  <2> QED BY <1>5, <1>6, <2>4 DEF EnsureLoaded
<1>7. ASSUME NEW p \in Part, NEW item \in Items, Append(p, item)
      PROVE  Rows' /\ Saved'
  <2>1. Key(p, order_hd[p]) \in RowId
    BY <1>2, <1>7 DEF Append
  <2> QED BY <1>5, <1>7, <2>1, PutData DEF Append
<1>8. CASE ShiftUp
  <2>1. /\ Key(call.pval, call.hole - 1) \in row_hd
        /\ Key(call.pval, call.hole) \in RowId \ row_hd
    BY <1>8, ShiftUpRows
  <2> QED BY <1>5, <1>8, <2>1, MoveData DEF ShiftUp
<1>9. CASE InsertFinish
  <2>1. Key(call.pval, call.pos) \in RowId /\ call.item \in Items
    BY <1>2, <1>9, CallShape DEF InsertFinish, ContiguousInv, TypeInv, CallOK
  <2> QED BY <1>5, <1>9, <2>1, PutData DEF InsertFinish
<1>10. ASSUME NEW p \in Part, NEW pos \in Positions, RemoveStart(p, pos)
       PROVE  Rows' /\ Saved'
  <2>1. /\ row_hd' = row_hd \ {Key(p, pos)} /\ Key(p, pos) \in RowId
        /\ fields_hd' = [fields_hd EXCEPT ![Key(p, pos)] = CormDelFields(@)]
    BY <1>10 DEF RemoveStart, RegistryDel
  <2>2. Record => CormDelFields(fields_hd[Key(p, pos)]) = BlankRow
    BY DeletedRow
  <2>3. Rows'
    BY <1>2, <2>1, <2>2
  <2> QED BY <1>5, <1>10, <2>3 DEF RemoveStart
<1>11. CASE ShiftDown
  <2>1. /\ Key(call.pval, call.hole + 1) \in row_hd
        /\ Key(call.pval, call.hole) \in RowId \ row_hd
    BY <1>11, ShiftDownRows
  <2> QED BY <1>5, <1>11, <2>1, MoveData DEF ShiftDown
<1>12. ASSUME NEW p \in Part, Clear(p)
       PROVE  Rows' /\ Saved'
  <2> DEFINE Gone == { r \in RowId : r[1] = p /\ r[2] < order_hd[p] }
  <2>1. /\ row_hd' = row_hd \ Gone
        /\ \A r \in RowId : fields_hd'[r] = IF r \in Gone
                                            THEN CormDelFields(fields_hd[r])
                                            ELSE fields_hd[r]
    BY <1>12 DEF Clear
  <2>2. \A r \in RowId : Record => CormDelFields(fields_hd[r]) = BlankRow
    BY DeletedRow
  <2>3. Rows'
    BY <1>2, <2>1, <2>2
  <2> QED BY <1>5, <1>12, <2>3 DEF Clear
<1>13. CASE SaveCallback
  <2>1. CASE storage' = storage
    BY <1>4, <1>5, <1>13, <2>1 DEF SaveCallback, rowVars
  <2>2. CASE storage' = [storage EXCEPT ![call.pval] = Contents(call.pval)]
    <3>1. call.op = "save" /\ call.pval \in Part
      BY <1>2, <1>13, CallShape DEF SaveCallback
    <3>2. ASSUME NEW i \in Positions, i < Contents(call.pval).len
          PROVE  GoodRow(Contents(call.pval).at[i])
      <4>1. /\ i \in 0 .. order_hd[call.pval] - 1
            /\ Contents(call.pval).at[i] = fields_hd[Key(call.pval, i)]
        BY <1>2, <3>1, <3>2 DEF Contents
      <4>2. Key(call.pval, i) \in row_hd
        BY <1>2, <3>1, <4>1 DEF ContiguousInv, Contiguous, Occupied, Shifting
      <4> QED BY <1>2, <4>1, <4>2
    <3> DEFINE new == Contents(call.pval)
    <3>3. \A i \in Positions : i < new.len => GoodRow(new.at[i])
      BY <3>2
    <3>4. storage' = [storage EXCEPT ![call.pval] = new]
      BY <2>2
    <3> HIDE DEF new
    <3>5. Saved'
      BY <1>2, <3>1, <3>3, <3>4
    <3> QED BY <1>4, <1>13, <3>5 DEF SaveCallback, rowVars
  <2> QED BY <1>13, <2>1, <2>2 DEF SaveCallback
<1>14. ASSUME NEW p \in Part, NEW pos \in 0 .. MaxLen, NEW item \in Items,
              UpdateItem(p, pos, item)
       PROVE  Rows' /\ Saved'
  <2>1. Key(p, pos) \in RowId
    BY <1>2, <1>14 DEF UpdateItem
  <2> QED BY <1>5, <1>14, <2>1, PutData DEF UpdateItem
<1>15. CASE Restart
  <2>1. /\ row_hd' = {} /\ fields_hd' = [r \in RowId |-> BlankRow]
        /\ storage' = storage
    BY <1>15 DEF Restart
  <2> QED BY <1>5, <2>1
<1>16. CASE \/ \E p \in Part : ExplicitSave(p)
            \/ \E p \in Part, pos \in 0 .. MaxLen, item \in Items :
                 InsertStart(p, pos, item)
            \/ RemoveFinish \/ SearchQuery \/ UNCHANGED vars
  <2>1. UNCHANGED <<row_hd, fields_hd, storage>>
    BY <1>16 DEF ExplicitSave, InsertStart, RemoveFinish, SearchQuery,
                 RefreshIndex, vars, rowVars, orderVars
  <2> QED BY <1>4, <1>5, <2>1
<1> QED BY <1>6, <1>7, <1>8, <1>9, <1>10, <1>11, <1>12, <1>13, <1>14, <1>15,
           <1>16 DEF Next, CallStep

-----------------------------------------------------------------------------
(* The refinement.                                                         *)

Lists == [p \in Part |-> ListOfPart(p)]

(* A partition stands for the same list after a step when its length and   *)
(* the row at each of its positions are the same.                          *)
LEMMA SameList ==
  ASSUME NEW p \in Part, ListLen(p)' = ListLen(p),
         \A i \in 0 .. ListLen(p) - 1 :
           fields_hd'[Key(p, RowAt(p, i)')] = fields_hd[Key(p, RowAt(p, i))]
  PROVE  ListOfPart(p)' = ListOfPart(p)
BY DEF ListOfPart

(* A step that leaves alone the count and the rows of a partition, and     *)
(* that neither finds nor leaves it in the middle of a shift, leaves its   *)
(* list alone.                                                             *)
LEMMA OtherPart ==
  ASSUME DataInv, NEW q \in Part,
         ~Shifting(q), ~Shifting(q)',
         order_hd'[q] = order_hd[q],
         \A i \in 0 .. order_hd[q] - 1 :
           fields_hd'[Key(q, i)] = fields_hd[Key(q, i)]
  PROVE  ListOfPart(q)' = ListOfPart(q)
BY DEF ListOfPart, ListLen, RowAt

(* A new source is an empty list per partition.                            *)
LEMMA ListsInit == Init => List!Init
<1> SUFFICES ASSUME Init PROVE List!Init
  OBVIOUS
<1>1. call.op = "idle"
  BY CallIntro DEF Init
<1>2. ASSUME NEW p \in Part
      PROVE  ListOfPart(p) = EmptyList
  <2>1. ListLen(p) = 0
    BY <1>1 DEF Init, ListLen, Shifting
  <2>2. 0 .. 0 - 1 = {}
    OBVIOUS
  <2> QED BY <2>1, <2>2 DEF ListOfPart, EmptyList
<1> QED BY <1>2 DEF Init, List!Init, EmptyList, List!EmptyList

-----------------------------------------------------------------------------
(* What each step does to the lists.  The state facts they all use:        *)
LEMMA StateShape ==
  ASSUME DataInv
  PROVE  /\ order_hd \in [Part -> 0 .. MaxLen]
         /\ fields_hd \in [RowId -> StoredRow]
         /\ storage \in [Part -> ListsUpTo(MaxLen, StoredRow)]
         /\ call \in Calls /\ CallOK
         /\ loaded_hd \subseteq Part
         /\ row_hd \subseteq RowId
BY DEF DataInv, ContiguousInv, TypeInv, TypeOK, RowStoreTypeOK

(* A partition no call shifts stands for the rows below its count.         *)
LEMMA QuietList ==
  ASSUME DataInv, NEW p \in Part, ~Shifting(p)
  PROVE  /\ ListOfPart(p).len = order_hd[p]
         /\ DOMAIN ListOfPart(p).at = 0 .. order_hd[p] - 1
         /\ \A i \in 0 .. order_hd[p] - 1 :
              ListOfPart(p).at[i] = fields_hd[Key(p, i)]
         /\ ListOfPart(p) = Contents(p)
BY DEF ListOfPart, ListLen, RowAt, Contents

(* The new list of a partition, by its length and its items.               *)
LEMMA NewList ==
  ASSUME NEW p \in Part, NEW n \in Int, NEW at,
         ListLen(p)' = n,
         at = [i \in 0 .. n - 1 |-> at[i]],
         \A i \in 0 .. n - 1 : fields_hd'[Key(p, RowAt(p, i)')] = at[i]
  PROVE  ListOfPart(p)' = [len |-> n, at |-> at]
BY DEF ListOfPart

(* The same when no call shifts the partition after the step.              *)
LEMMA NewQuietList ==
  ASSUME NEW p \in Part, NEW n \in Int, NEW at,
         ~Shifting(p)', order_hd'[p] = n,
         at = [i \in 0 .. n - 1 |-> at[i]],
         \A i \in 0 .. n - 1 : fields_hd'[Key(p, i)] = at[i]
  PROVE  ListOfPart(p)' = [len |-> n, at |-> at]
BY DEF ListOfPart, ListLen, RowAt

(* When one list changes, all of them are updated at that point.           *)
LEMMA OneList ==
  ASSUME NEW p \in Part, NEW l, ListOfPart(p)' = l,
         \A q \in Part \ {p} : ListOfPart(q)' = ListOfPart(q)
  PROVE  Lists' = [Lists EXCEPT ![p] = l]
BY DEF Lists

(* The first operation on a partition loads the persisted list.            *)
LEMMA LoadList ==
  ASSUME Overlap = {}, DataInv, ~LoadFails, NEW p \in Part, EnsureLoaded(p)
  PROVE  Lists' = [Lists EXCEPT ![p] = storage[p]]
<1> USE OrderedAssumption, StateShape
<1>1. call.op \in {"idle", "save"} /\ call' = call /\ order_hd[p] = 0
  BY CallIntro DEF EnsureLoaded, DataInv, ContiguousInv
<1>2. \A q \in Part : ~Shifting(q) /\ ~Shifting(q)'
  BY <1>1 DEF Shifting
<1>3. /\ storage[p].len \in 0 .. MaxLen
      /\ storage[p] = [len |-> storage[p].len, at |-> storage[p].at]
      /\ storage[p].at \in [0 .. storage[p].len - 1 -> StoredRow]
  BY ListShape
<1>4. order_hd' = [order_hd EXCEPT ![p] = storage[p].len]
  <2>1. \A i \in Positions : Key(p, i) \notin row_hd
    BY <1>1, <1>2 DEF DataInv, ContiguousInv, Contiguous, Occupied
  <2>2. LoadItems(p, storage[p].len)
    BY DEF EnsureLoaded
  <2>3. row_hd' \in SUBSET RowId
    BY <2>2 DEF LoadItems
  <2>4. \A i \in Positions : Key(p, i) \in row_hd' <=> i < storage[p].len
    BY <2>1, <2>2 DEF LoadItems
  <2>5. PartitionCount(row_hd', p) = storage[p].len
    BY <1>3, <2>3, <2>4, CountLoaded
  <2> QED BY <2>5 DEF EnsureLoaded
<1>5. ListOfPart(p)' = storage[p]
  <2>1. \A i \in 0 .. storage[p].len - 1 :
          fields_hd'[Key(p, i)] = storage[p].at[i]
    BY <1>3, LoadData
  <2>2. order_hd'[p] = storage[p].len
    BY <1>4
  <2>3. storage[p].at = [i \in 0 .. storage[p].len - 1 |-> storage[p].at[i]]
    BY <1>3
  <2> DEFINE at == storage[p].at
             n == storage[p].len
  <2>4. /\ n \in Int /\ order_hd'[p] = n
        /\ at = [i \in 0 .. n - 1 |-> at[i]]
        /\ \A i \in 0 .. n - 1 : fields_hd'[Key(p, i)] = at[i]
    BY <1>3, <2>1, <2>2, <2>3
  <2> HIDE DEF at, n
  <2>5. ListOfPart(p)' = [len |-> n, at |-> at]
    BY <1>2, <2>4, NewQuietList
  <2> QED BY <1>3, <2>5 DEF at, n
<1>6. ASSUME NEW q \in Part \ {p}
      PROVE  ListOfPart(q)' = ListOfPart(q)
  <2>1. order_hd'[q] = order_hd[q]
    BY <1>4
  <2>2. \A i \in 0 .. order_hd[q] - 1 :
          fields_hd'[Key(q, i)] = fields_hd[Key(q, i)]
    <3> SUFFICES ASSUME NEW i \in 0 .. order_hd[q] - 1
                 PROVE  fields_hd'[Key(q, i)] = fields_hd[Key(q, i)]
      OBVIOUS
    <3>1. Key(q, i) \in RowId /\ Key(q, i)[1] # p
      OBVIOUS
    <3> QED BY <3>1, LoadData
  <2> QED BY <1>2, <2>1, <2>2, OtherPart
<1> QED BY <1>5, <1>6, OneList

(* An appended item is inserted behind the last one.                       *)
LEMMA AppendList ==
  ASSUME DataInv, WholeItems, NEW p \in Part, NEW item \in Items,
         Append(p, item)
  PROVE  Lists' = [Lists EXCEPT ![p] =
                     Inserted(@, order_hd[p], StoreItem(BlankRow, item))]
<1> USE OrderedAssumption, StateShape
<1> DEFINE n == order_hd[p]
           x == StoreItem(BlankRow, item)
<1>1. call.op = "idle" /\ call'.op = "save"
  BY CallIntro DEF Append, Ready
<1>2. \A q \in Part : ~Shifting(q) /\ ~Shifting(q)'
  BY <1>1 DEF Shifting
<1>3. n \in 0 .. MaxLen - 1 /\ Key(p, n) \in RowId /\ Key(p, n) \notin row_hd
  BY <1>2 DEF Append, DataInv, ContiguousInv, Contiguous, Occupied
<1>4. /\ fields_hd' = [fields_hd EXCEPT ![Key(p, n)] = x]
      /\ order_hd' = [order_hd EXCEPT ![p] = n + 1]
  BY <1>3, FreshItem, RegistryPutDoes DEF Append, DataInv
<1>5. ListOfPart(p)' = Inserted(ListOfPart(p), n, x)
  <2> DEFINE l == Inserted(ListOfPart(p), n, x)
  <2>1. /\ l.len = n + 1
        /\ l.at = [i \in 0 .. n |-> l.at[i]]
        /\ l = [len |-> l.len, at |-> l.at]
        /\ \A i \in 0 .. n : l.at[i] = IF i < n THEN fields_hd[Key(p, i)] ELSE x
    BY <1>2, <1>3, QuietList DEF Inserted
  <2>2. \A i \in 0 .. n : fields_hd'[Key(p, i)] = l.at[i]
    BY <1>3, <1>4, <2>1
  <2> DEFINE at == l.at
             m == n + 1
  <2>3. m \in Int /\ order_hd'[p] = m
    BY <1>3, <1>4
  <2>4. 0 .. m - 1 = 0 .. n
    BY <1>3
  <2>5. /\ at = [i \in 0 .. m - 1 |-> at[i]]
        /\ \A i \in 0 .. m - 1 : fields_hd'[Key(p, i)] = at[i]
    BY <2>1, <2>2, <2>4
  <2>6. l = [len |-> m, at |-> at]
    BY <2>1
  <2> HIDE DEF at, m, l
  <2>7. ListOfPart(p)' = [len |-> m, at |-> at]
    BY <1>2, <2>3, <2>5, NewQuietList
  <2> QED BY <2>6, <2>7 DEF l
<1>6. \A q \in Part \ {p} : ListOfPart(q)' = ListOfPart(q)
  BY <1>2, <1>3, <1>4, OtherPart
<1> QED BY <1>5, <1>6, OneList DEF Lists

(* The insertion is carried out when its hole has come down to the         *)
(* position; until then the list of the partition is the old one.          *)
LEMMA InsertList ==
  ASSUME DataInv, WholeItems, InsertFinish
  PROVE  /\ call.pval \in loaded_hd /\ call.item \in Items
         /\ call.pos \in 0 .. Lists[call.pval].len
         /\ Lists' = [Lists EXCEPT ![call.pval] =
                        Inserted(@, call.pos, StoreItem(BlankRow, call.item))]
<1> USE OrderedAssumption, StateShape
<1>0. /\ call.op = "insert" /\ call.pval \in Part /\ call.pval \in loaded_hd
      /\ call.item \in Items
      /\ order_hd[call.pval] \in 0 .. MaxLen - 1
      /\ call.pos \in 0 .. order_hd[call.pval] /\ call.hole = call.pos
  <2>1. /\ call.op = "insert" /\ call.hole <= call.pos
        /\ call.pval \in Part /\ call.item \in Items
        /\ call.pos \in Nat /\ call.hole \in Nat
    BY CallShape DEF InsertFinish
  <2>2. order_hd[call.pval] \in 0 .. MaxLen
    BY <2>1
  <2>3. /\ call.pval \in loaded_hd /\ order_hd[call.pval] < MaxLen
        /\ call.pos <= call.hole /\ call.hole <= order_hd[call.pval]
    BY <2>1 DEF CallOK
  <2> QED BY <2>1, <2>2, <2>3
<1>1. PICK p \in Part, n \in 0 .. MaxLen - 1, h \in 0 .. MaxLen - 1, item \in Items :
        /\ h <= n /\ p = call.pval /\ n = order_hd[p] /\ h = call.pos /\ h = call.hole
        /\ item = call.item /\ p \in loaded_hd
  BY <1>0
<1> DEFINE x == StoreItem(BlankRow, item)
<1>2. call'.op = "save"
  BY <1>0, CallIntro DEF InsertFinish
<1>3. \A q \in Part : ~Shifting(q)' /\ (Shifting(q) <=> q = p)
  BY <1>0, <1>1, <1>2 DEF Shifting
<1>4. Key(p, h) \in RowId /\ Key(p, h) \notin row_hd
  BY <1>0, <1>1, <1>3 DEF DataInv, ContiguousInv, Contiguous, Occupied
<1>5. /\ fields_hd' = [fields_hd EXCEPT ![Key(p, h)] = x]
      /\ order_hd' = [order_hd EXCEPT ![p] = n + 1]
  BY <1>1, <1>4, FreshItem, RegistryPutDoes DEF InsertFinish, DataInv
<1>6. /\ ListOfPart(p).len = n
      /\ \A i \in 0 .. n - 1 : ListOfPart(p).at[i] =
           fields_hd[Key(p, IF i < h THEN i ELSE i + 1)]
  BY <1>0, <1>1, <1>3 DEF ListOfPart, ListLen, RowAt
<1>7. ListOfPart(p)' = Inserted(ListOfPart(p), h, x)
  <2> DEFINE l == Inserted(ListOfPart(p), h, x)
  <2>1. /\ l.len = n + 1
        /\ l.at = [i \in 0 .. n |-> l.at[i]]
        /\ l = [len |-> l.len, at |-> l.at]
        /\ \A i \in 0 .. n : l.at[i] = IF i = h THEN x ELSE fields_hd[Key(p, i)]
    <3> DEFINE y == x
    <3>1. /\ l = Inserted(ListOfPart(p), h, y)
      OBVIOUS
    <3> HIDE DEF y, l
    <3>2. /\ l.len = n + 1
          /\ l.at = [i \in 0 .. n |-> IF i < h THEN ListOfPart(p).at[i]
                                      ELSE IF i = h THEN y
                                      ELSE ListOfPart(p).at[i - 1]]
          /\ l = [len |-> l.len, at |-> l.at]
      BY <1>6, <3>1 DEF Inserted
    <3>3. \A i \in 0 .. n : l.at[i] = IF i = h THEN y ELSE fields_hd[Key(p, i)]
      <4> SUFFICES ASSUME NEW i \in 0 .. n
                   PROVE  l.at[i] = IF i = h THEN y ELSE fields_hd[Key(p, i)]
        OBVIOUS
      <4>1. CASE i < h
        BY <1>1, <1>6, <3>2, <4>1
      <4>2. CASE i = h
        BY <3>2, <4>2
      <4>3. CASE i > h
        <5>1. i - 1 \in 0 .. n - 1 /\ ~(i - 1 < h) /\ (i - 1) + 1 = i
          BY <1>1, <4>3
        <5> QED BY <1>1, <1>6, <3>2, <4>3, <5>1
      <4>4. i < h \/ i = h \/ i > h
        <5>1. h \in Int /\ n \in Int
          BY <1>1
        <5>2. i \in Int
          BY <5>1
        <5> QED BY <5>1, <5>2
      <4> QED BY <4>1, <4>2, <4>3, <4>4
    <3> QED BY <3>2, <3>3 DEF y
  <2>2. \A i \in 0 .. n : fields_hd'[Key(p, i)] = l.at[i]
    <3> HIDE DEF l, x
    <3> SUFFICES ASSUME NEW i \in 0 .. n PROVE fields_hd'[Key(p, i)] = l.at[i]
      OBVIOUS
    <3>1. Key(p, i) \in RowId /\ (Key(p, i) = Key(p, h) <=> i = h)
      BY <1>1
    <3> QED BY <1>4, <1>5, <2>1, <3>1
  <2> DEFINE at == l.at
             m == n + 1
  <2>3. m \in Int /\ order_hd'[p] = m
    BY <1>1, <1>5
  <2>4. 0 .. m - 1 = 0 .. n
    BY <1>1
  <2>5. /\ at = [i \in 0 .. m - 1 |-> at[i]]
        /\ \A i \in 0 .. m - 1 : fields_hd'[Key(p, i)] = at[i]
    BY <2>1, <2>2, <2>4
  <2>6. l = [len |-> m, at |-> at]
    BY <2>1
  <2> HIDE DEF at, m, l
  <2>7. ListOfPart(p)' = [len |-> m, at |-> at]
    BY <1>1, <1>3, <2>3, <2>5, NewQuietList
  <2> QED BY <2>6, <2>7 DEF l
<1>8. \A q \in Part \ {p} : ListOfPart(q)' = ListOfPart(q)
  BY <1>1, <1>3, <1>4, <1>5, OtherPart
<1> QED BY <1>1, <1>6, <1>7, <1>8, OneList DEF Lists

(* A removal takes the item out of the list when it starts; closing the    *)
(* gap afterwards changes no list.                                         *)
LEMMA RemoveList ==
  ASSUME DataInv, NEW p \in Part, NEW pos \in Positions, RemoveStart(p, pos)
  PROVE  /\ pos \in 0 .. Lists[p].len - 1
         /\ Lists' = [Lists EXCEPT ![p] = Removed(@, pos)]
<1> USE OrderedAssumption, StateShape
<1> DEFINE n == order_hd[p]
<1>1. call.op = "idle" /\ p \in loaded_hd /\ pos \in 0 .. n - 1 /\ n \in 0 .. MaxLen
  BY CallIntro DEF RemoveStart, Ready
<1>2. call'.op = "remove" /\ call'.pval = p /\ call'.hole = pos
  BY CallIntro DEF RemoveStart
<1>3. \A q \in Part : ~Shifting(q) /\ (Shifting(q)' <=> q = p)
  BY <1>1, <1>2 DEF Shifting
<1>4. order_hd' = order_hd /\ \A r \in RowId \ {Key(p, pos)} : fields_hd'[r] = fields_hd[r]
  BY DEF RemoveStart, RegistryDel
<1>5. ListOfPart(p).len = n
  BY <1>3, QuietList
<1>6. ListOfPart(p)' = Removed(ListOfPart(p), pos)
  <2> DEFINE l == Removed(ListOfPart(p), pos)
             row(i) == IF i < pos THEN i ELSE i + 1
  <2>1. /\ l = [len |-> l.len, at |-> l.at]
        /\ l.len = n - 1
        /\ l.at = [i \in 0 .. n - 2 |-> l.at[i]]
    BY <1>1, <1>5 DEF Removed
  <2>2. ASSUME NEW i \in 0 .. n - 2
        PROVE  l.at[i] = fields_hd[Key(p, row(i))]
    <3>1. i \in 0 .. n - 1 /\ i + 1 \in 0 .. n - 1
      BY <1>1
    <3>2. l.at[i] = IF i < pos THEN ListOfPart(p).at[i] ELSE ListOfPart(p).at[i + 1]
      BY <1>1, <1>5 DEF Removed
    <3> QED BY <1>3, <3>1, <3>2, QuietList
  <2> DEFINE at == l.at
             m == n - 1
  <2>3. m \in Int /\ 0 .. m - 1 = 0 .. n - 2
    BY <1>1
  <2> HIDE DEF l
  <2>4. at = [i \in 0 .. m - 1 |-> at[i]]
    BY <2>1, <2>3
  <2>5. ASSUME NEW i \in 0 .. m - 1
        PROVE  fields_hd'[Key(p, RowAt(p, i)')] = at[i]
    <3>1. RowAt(p, i)' = row(i)
      BY <1>2, <1>3 DEF RowAt
    <3>2. Key(p, row(i)) \in RowId \ {Key(p, pos)}
      BY <1>1
    <3> QED BY <1>4, <2>2, <2>3, <3>1, <3>2
  <2>6. ListLen(p)' = m
    BY <1>2, <1>3, <1>4 DEF ListLen
  <2>7. l = [len |-> m, at |-> at]
    BY <2>1
  <2> HIDE DEF at, m
  <2>8. ListOfPart(p)' = [len |-> m, at |-> at]
    BY <2>3, <2>4, <2>5, <2>6, NewList
  <2> QED BY <2>7, <2>8 DEF l
<1>7. \A q \in Part \ {p} : ListOfPart(q)' = ListOfPart(q)
  BY <1>1, <1>3, <1>4, OtherPart
<1> QED BY <1>1, <1>6, <1>7, <1>5, OneList DEF Lists

(* Clearing empties the list.                                              *)
LEMMA ClearList ==
  ASSUME DataInv, NEW p \in Part, Clear(p)
  PROVE  Lists' = [Lists EXCEPT ![p] = EmptyList]
<1> USE OrderedAssumption
<1>1. order_hd \in [Part -> 0 .. MaxLen] /\ fields_hd \in [RowId -> StoredRow]
  BY StateShape
<1>2. call.op = "idle" /\ call'.op = "save"
  BY CallIntro DEF Clear, Ready
<1>3. \A q \in Part : ~Shifting(q) /\ ~Shifting(q)'
  BY <1>2 DEF Shifting
<1>4. order_hd' = [order_hd EXCEPT ![p] = 0]
  BY DEF Clear
<1>5. ListOfPart(p)' = EmptyList
  <2>1. ListLen(p)' = 0
    BY <1>1, <1>3, <1>4 DEF ListLen
  <2>2. 0 .. 0 - 1 = {}
    OBVIOUS
  <2> QED BY <2>1, <2>2 DEF ListOfPart, EmptyList
<1>6. ASSUME NEW q \in Part \ {p}
      PROVE  ListOfPart(q)' = ListOfPart(q)
  <2>1. \A r \in RowId : r[1] # p => fields_hd'[r] = fields_hd[r]
    BY DEF Clear
  <2>2. \A i \in 0 .. order_hd[q] - 1 :
          Key(q, i) \in RowId /\ Key(q, i)[1] = q
    BY <1>1
  <2> QED BY <1>1, <1>3, <1>4, <2>1, <2>2, OtherPart
<1> QED BY <1>5, <1>6, OneList

(* A put on the key of an item updates that item and no other.             *)
LEMMA UpdateList ==
  ASSUME DataInv, ~StrayPuts,
         NEW p \in Part, NEW pos \in 0 .. MaxLen, NEW item \in Items,
         UpdateItem(p, pos, item)
  PROVE  /\ p \in loaded_hd /\ pos \in 0 .. Lists[p].len - 1
         /\ Lists' = [Lists EXCEPT ![p] =
                        Replaced(@, pos, StoreItem(@.at[pos], item))]
<1> USE OrderedAssumption
<1>1. order_hd \in [Part -> 0 .. MaxLen] /\ fields_hd \in [RowId -> StoredRow]
  BY StateShape
<1> DEFINE x == StoreItem(fields_hd[Key(p, pos)], item)
           n == order_hd[p]
<1>2. /\ call.op = "idle" /\ call' = call /\ order_hd' = order_hd
      /\ p \in loaded_hd /\ pos \in 0 .. n - 1
      /\ fields_hd' = [fields_hd EXCEPT ![Key(p, pos)] = x]
  BY <1>1, CallIntro, RegistryPutDoes DEF UpdateItem, Ready
<1>3. \A q \in Part : ~Shifting(q) /\ ~Shifting(q)'
  BY <1>2 DEF Shifting
<1>4. ListOfPart(p).at[pos] = fields_hd[Key(p, pos)] /\ ListOfPart(p).len = n
  BY <1>2, <1>3, QuietList
<1>5. ListOfPart(p)' = Replaced(ListOfPart(p), pos, x)
  <2> HIDE DEF x
  <2> DEFINE l == Replaced(ListOfPart(p), pos, x)
  <2>1. /\ l = [len |-> n, at |-> l.at]
        /\ l.at = [i \in 0 .. n - 1 |-> l.at[i]]
        /\ \A i \in 0 .. n - 1 :
             l.at[i] = IF i = pos THEN x ELSE fields_hd[Key(p, i)]
    <3> DEFINE f == [i \in 0 .. n - 1 |-> fields_hd[Key(p, i)]]
    <3>1. ListOfPart(p) = [len |-> n, at |-> f]
      BY <1>3, QuietList DEF Contents
    <3>2. l = [len |-> n, at |-> [f EXCEPT ![pos] = x]]
      BY <3>1 DEF Replaced
    <3> HIDE DEF l
    <3> QED BY <1>2, <3>2
  <2> HIDE DEF l
  <2>2. \A i \in 0 .. n - 1 : fields_hd'[Key(p, i)] = l.at[i]
    <3> SUFFICES ASSUME NEW i \in 0 .. n - 1
                 PROVE  fields_hd'[Key(p, i)] = l.at[i]
      OBVIOUS
    <3>1. Key(p, i) \in RowId /\ (Key(p, i) = Key(p, pos) <=> i = pos)
      BY <1>1
    <3> QED BY <1>1, <1>2, <2>1, <3>1
  <2> DEFINE at == l.at
  <2>3. /\ n \in Int /\ order_hd'[p] = n
        /\ at = [i \in 0 .. n - 1 |-> at[i]]
        /\ \A i \in 0 .. n - 1 : fields_hd'[Key(p, i)] = at[i]
    BY <1>1, <1>2, <2>1, <2>2
  <2> HIDE DEF at
  <2>4. ListOfPart(p)' = [len |-> n, at |-> at]
    BY <1>3, <2>3, NewQuietList
  <2> QED BY <2>1, <2>4 DEF l, at
<1>6. ASSUME NEW q \in Part \ {p}
      PROVE  ListOfPart(q)' = ListOfPart(q)
  <2>1. \A i \in 0 .. order_hd[q] - 1 :
          Key(q, i) \in RowId /\ Key(q, i) # Key(p, pos)
    BY <1>1
  <2> QED BY <1>1, <1>2, <1>3, <2>1, OtherPart
<1>7. Lists' = [Lists EXCEPT ![p] = Replaced(ListOfPart(p), pos, x)]
  BY <1>5, <1>6, OneList
<1> QED BY <1>2, <1>4, <1>7 DEF Lists

(* A list of which one item has lost its fields, and nothing else changed. *)
LostItem ==
  \E p \in loaded_hd :
    \E pos \in 0 .. Lists[p].len - 1 :
      /\ Record /\ MallocFails
      /\ Lists' = [Lists EXCEPT ![p] = Replaced(@, pos, BlankRow)]

(* The list of a partition at whose position j a blank row has arrived.    *)
LEMMA LostList ==
  ASSUME NEW p \in Part, NEW n \in Int, ListLen(p) = n, ListLen(p)' = n,
         NEW j \in 0 .. n - 1,
         fields_hd'[Key(p, RowAt(p, j)')] = BlankRow,
         \A i \in 0 .. n - 1 : i # j =>
           fields_hd'[Key(p, RowAt(p, i)')] = fields_hd[Key(p, RowAt(p, i))]
  PROVE  ListOfPart(p)' = Replaced(ListOfPart(p), j, BlankRow)
<1> DEFINE f == [i \in 0 .. n - 1 |-> fields_hd[Key(p, RowAt(p, i))]]
           at == [f EXCEPT ![j] = BlankRow]
<1>1. ListOfPart(p) = [len |-> n, at |-> f]
  BY DEF ListOfPart
<1>2. Replaced(ListOfPart(p), j, BlankRow) = [len |-> n, at |-> at]
  BY <1>1 DEF Replaced
<1>3. at = [i \in 0 .. n - 1 |-> at[i]]
  OBVIOUS
<1>4. ASSUME NEW i \in 0 .. n - 1
      PROVE  fields_hd'[Key(p, RowAt(p, i)')] = at[i]
  BY <1>4
<1> HIDE DEF at
<1>5. ListOfPart(p)' = [len |-> n, at |-> at]
  BY <1>3, <1>4, NewList
<1> QED BY <1>2, <1>5

(* The hole travels, the list does not change: the row beside the hole     *)
(* moves into it and keeps its place in the list, if not its fields.       *)
LEMMA ShiftUpList ==
  ASSUME DataInv, ShiftUp
  PROVE  Lists' = Lists \/ LostItem
<1> USE OrderedAssumption
<1>1. /\ order_hd \in [Part -> 0 .. MaxLen] /\ ContiguousInv
      /\ fields_hd \in [RowId -> StoredRow] /\ call \in Calls
  BY StateShape DEF DataInv
<1>2. PICK p \in Part, n \in 0 .. MaxLen - 1, h \in 1 .. MaxLen - 1 :
        /\ call.op = "insert" /\ p = call.pval /\ h = call.hole
        /\ p \in loaded_hd
        /\ n = order_hd[p] /\ h <= n
        /\ Key(p, h - 1) \in row_hd /\ Key(p, h) \in RowId \ row_hd
  <2>1. /\ call.op = "insert" /\ call.pval \in Part
        /\ call.hole \in 1 .. order_hd[call.pval]
        /\ order_hd[call.pval] < MaxLen
        /\ Key(call.pval, call.hole - 1) \in row_hd
        /\ Key(call.pval, call.hole) \in RowId \ row_hd
    BY ShiftUpRows
  <2>2. order_hd[call.pval] \in 0 .. MaxLen - 1
    BY <1>1, <2>1
  <2>3. call.hole \in 1 .. MaxLen - 1 /\ call.hole <= order_hd[call.pval]
    BY <2>1, <2>2
  <2>4. call.pval \in loaded_hd
    BY <2>1, StateShape DEF CallOK
  <2> QED BY <2>1, <2>2, <2>3, <2>4
<1>3. call'.op = "insert" /\ call'.pval = p /\ call'.hole = h - 1
  BY <1>1, <1>2, CallShape, CallIntro DEF ShiftUp
<1>4. \A q \in Part : (Shifting(q) <=> q = p) /\ (Shifting(q)' <=> q = p)
  BY <1>2, <1>3 DEF Shifting
<1>5. /\ order_hd' = order_hd
      /\ \/ fields_hd'[Key(p, h)] = fields_hd[Key(p, h - 1)]
         \/ Record /\ MallocFails /\ fields_hd'[Key(p, h)] = BlankRow
      /\ \A s \in RowId \ {Key(p, h - 1), Key(p, h)} : fields_hd'[s] = fields_hd[s]
  BY <1>2, MoveData DEF ShiftUp
<1>6. ListLen(p) = n /\ ListLen(p)' = n
  BY <1>2, <1>3, <1>4, <1>5 DEF ListLen
<1>7. ASSUME NEW i \in 0 .. n - 1
      PROVE  /\ i = h - 1 => RowAt(p, i)' = h /\ RowAt(p, i) = h - 1
             /\ i # h - 1 => /\ RowAt(p, i)' = RowAt(p, i)
                            /\ RowAt(p, i) \in Positions \ {h - 1, h}
  <2>1. /\ RowAt(p, i)' = IF i < h - 1 THEN i ELSE i + 1
        /\ RowAt(p, i) = IF i < h THEN i ELSE i + 1
    BY <1>2, <1>3, <1>4 DEF RowAt
  <2> QED BY <2>1
<1>8. \A i \in 0 .. n - 1 : i # h - 1 =>
        fields_hd'[Key(p, RowAt(p, i)')] = fields_hd[Key(p, RowAt(p, i))]
  BY <1>5, <1>7
<1>9. 0 .. ListLen(p) - 1 = 0 .. n - 1 /\ h - 1 \in 0 .. n - 1
  BY <1>2, <1>6
<1>10. ASSUME NEW q \in Part \ {p}
       PROVE  ListOfPart(q)' = ListOfPart(q)
  <2>1. \A i \in 0 .. order_hd[q] - 1 :
          Key(q, i) \in RowId \ {Key(p, h - 1), Key(p, h)}
    BY <1>1
  <2> QED BY <1>4, <1>5, <2>1, OtherPart
<1>11. CASE fields_hd'[Key(p, h)] = fields_hd[Key(p, h - 1)]
  <2>1. ListOfPart(p)' = ListOfPart(p)
    BY <1>6, <1>7, <1>8, <1>9, <1>11, SameList
  <2> QED BY <1>10, <2>1 DEF Lists
<1>12. CASE Record /\ MallocFails /\ fields_hd'[Key(p, h)] = BlankRow
  <2> DEFINE n2 == n
             j == h - 1
  <2>1. /\ n2 \in Int /\ j \in 0 .. n2 - 1
        /\ ListLen(p) = n2 /\ ListLen(p)' = n2
        /\ fields_hd'[Key(p, RowAt(p, j)')] = BlankRow
        /\ \A i \in 0 .. n2 - 1 : i # j =>
              fields_hd'[Key(p, RowAt(p, i)')] = fields_hd[Key(p, RowAt(p, i))]
    BY <1>6, <1>7, <1>8, <1>9, <1>12
  <2> HIDE DEF n2, j
  <2>2. ListOfPart(p)' = Replaced(ListOfPart(p), j, BlankRow)
    BY <2>1, LostList
  <2>3. Lists' = [Lists EXCEPT ![p] = Replaced(ListOfPart(p), j, BlankRow)]
    BY <1>10, <2>2, OneList
  <2>4. j \in 0 .. Lists[p].len - 1
    BY <2>1 DEF Lists, ListOfPart
  <2> QED BY <1>2, <1>12, <2>3, <2>4 DEF LostItem, Lists
<1> QED BY <1>5, <1>11, <1>12

(* The same for the shift down after a removal.                            *)
LEMMA ShiftDownList ==
  ASSUME DataInv, ShiftDown
  PROVE  Lists' = Lists \/ LostItem
<1> USE OrderedAssumption
<1>1. /\ order_hd \in [Part -> 0 .. MaxLen] /\ ContiguousInv
      /\ fields_hd \in [RowId -> StoredRow] /\ call \in Calls
  BY StateShape DEF DataInv
<1>2. PICK p \in Part, n \in 0 .. MaxLen, h \in Positions :
        /\ call.op = "remove" /\ p = call.pval /\ h = call.hole
        /\ p \in loaded_hd
        /\ n = order_hd[p] /\ h <= n - 2
        /\ Key(p, h + 1) \in row_hd /\ Key(p, h) \in RowId \ row_hd
  <2>1. /\ call.op = "remove" /\ call.pval \in Part
        /\ call.hole \in 0 .. order_hd[call.pval] - 2
        /\ order_hd[call.pval] \in 0 .. MaxLen
        /\ Key(call.pval, call.hole + 1) \in row_hd
        /\ Key(call.pval, call.hole) \in RowId \ row_hd
    BY ShiftDownRows
  <2>2. call.hole \in Positions /\ call.hole <= order_hd[call.pval] - 2
    BY <2>1
  <2>3. call.pval \in loaded_hd
    BY <2>1, StateShape DEF CallOK
  <2> QED BY <2>1, <2>2, <2>3
<1>3. call'.op = "remove" /\ call'.pval = p /\ call'.hole = h + 1
  BY <1>1, <1>2, CallShape, CallIntro DEF ShiftDown
<1>4. \A q \in Part : (Shifting(q) <=> q = p) /\ (Shifting(q)' <=> q = p)
  BY <1>2, <1>3 DEF Shifting
<1>5. /\ order_hd' = order_hd
      /\ \/ fields_hd'[Key(p, h)] = fields_hd[Key(p, h + 1)]
         \/ Record /\ MallocFails /\ fields_hd'[Key(p, h)] = BlankRow
      /\ \A s \in RowId \ {Key(p, h + 1), Key(p, h)} : fields_hd'[s] = fields_hd[s]
  BY <1>2, MoveData DEF ShiftDown
<1>6. ListLen(p) = n - 1 /\ ListLen(p)' = n - 1
  BY <1>2, <1>3, <1>4, <1>5 DEF ListLen
<1>7. ASSUME NEW i \in 0 .. n - 2
      PROVE  /\ i = h => RowAt(p, i)' = h /\ RowAt(p, i) = h + 1
             /\ i # h => /\ RowAt(p, i)' = RowAt(p, i)
                            /\ RowAt(p, i) \in Positions \ {h + 1, h}
  <2>1. /\ RowAt(p, i)' = IF i < h + 1 THEN i ELSE i + 1
        /\ RowAt(p, i) = IF i < h THEN i ELSE i + 1
    BY <1>2, <1>3, <1>4 DEF RowAt
  <2> QED BY <2>1
<1>8. \A i \in 0 .. n - 2 : i # h =>
        fields_hd'[Key(p, RowAt(p, i)')] = fields_hd[Key(p, RowAt(p, i))]
  BY <1>5, <1>7
<1>9. 0 .. ListLen(p) - 1 = 0 .. n - 2 /\ h \in 0 .. n - 2
  BY <1>2, <1>6
<1>10. ASSUME NEW q \in Part \ {p}
       PROVE  ListOfPart(q)' = ListOfPart(q)
  <2>1. \A i \in 0 .. order_hd[q] - 1 :
          Key(q, i) \in RowId \ {Key(p, h + 1), Key(p, h)}
    BY <1>1
  <2> QED BY <1>4, <1>5, <2>1, OtherPart
<1>11. CASE fields_hd'[Key(p, h)] = fields_hd[Key(p, h + 1)]
  <2>1. ListOfPart(p)' = ListOfPart(p)
    BY <1>6, <1>7, <1>8, <1>9, <1>11, SameList
  <2> QED BY <1>10, <2>1 DEF Lists
<1>12. CASE Record /\ MallocFails /\ fields_hd'[Key(p, h)] = BlankRow
  <2> DEFINE n2 == n - 1
             j == h
  <2>1. /\ n2 \in Int /\ j \in 0 .. n2 - 1
        /\ ListLen(p) = n2 /\ ListLen(p)' = n2
        /\ fields_hd'[Key(p, RowAt(p, j)')] = BlankRow
        /\ \A i \in 0 .. n2 - 1 : i # j =>
              fields_hd'[Key(p, RowAt(p, i)')] = fields_hd[Key(p, RowAt(p, i))]
    BY <1>6, <1>7, <1>8, <1>9, <1>12
  <2> HIDE DEF n2, j
  <2>2. ListOfPart(p)' = Replaced(ListOfPart(p), j, BlankRow)
    BY <2>1, LostList
  <2>3. Lists' = [Lists EXCEPT ![p] = Replaced(ListOfPart(p), j, BlankRow)]
    BY <1>10, <2>2, OneList
  <2>4. j \in 0 .. Lists[p].len - 1
    BY <2>1 DEF Lists, ListOfPart
  <2> QED BY <1>2, <1>12, <2>3, <2>4 DEF LostItem, Lists
<1> QED BY <1>5, <1>11, <1>12

(* Starting an insertion, finishing a removal, and every step that leaves  *)
(* the rows and the counts alone and shifts nothing, changes no list.      *)
LEMMA QuietSteps ==
  ASSUME DataInv,
         \/ \E p \in Part, pos \in 0 .. MaxLen, item \in Items :
              InsertStart(p, pos, item)
         \/ RemoveFinish
         \/ \E p \in Part : ExplicitSave(p)
         \/ SaveCallback
         \/ SearchQuery
  PROVE  Lists' = Lists
<1> USE OrderedAssumption
<1>1. /\ order_hd \in [Part -> 0 .. MaxLen] /\ call \in Calls /\ CallOK
  BY StateShape
<1>2. ASSUME NEW p \in Part, NEW pos \in 0 .. MaxLen, NEW item \in Items,
             InsertStart(p, pos, item)
      PROVE  Lists' = Lists
  <2>1. call.op = "idle" /\ order_hd' = order_hd /\ fields_hd' = fields_hd
    BY <1>2, CallIntro DEF InsertStart, Ready, rowVars
  <2>2. order_hd[p] \in Nat /\ pos \in Nat
    BY <1>1
  <2>3. call'.op = "insert" /\ call'.pval = p /\ call'.hole = order_hd[p]
    BY <1>2, <2>2, CallIntro DEF InsertStart
  <2>4. \A q \in Part : ~Shifting(q) /\ (Shifting(q)' <=> q = p)
    BY <2>1, <2>3 DEF Shifting
  <2>5. ListLen(p)' = order_hd[p] /\ ListLen(p) = order_hd[p]
    BY <2>1, <2>3, <2>4 DEF ListLen
  <2>6. \A i \in 0 .. order_hd[p] - 1 : RowAt(p, i)' = i /\ RowAt(p, i) = i
    BY <2>2, <2>3, <2>4 DEF RowAt
  <2>7. ListOfPart(p)' = ListOfPart(p)
    BY <2>1, <2>5, <2>6, SameList
  <2>8. \A q \in Part \ {p} : ListOfPart(q)' = ListOfPart(q)
    BY <2>1, <2>4, OtherPart
  <2> QED BY <2>7, <2>8 DEF Lists
<1>3. CASE RemoveFinish
  <2>1. PICK p \in Part, n \in 0 .. MaxLen :
          /\ call.op = "remove" /\ p = call.pval /\ n = order_hd[p]
          /\ call.hole = n - 1
    <3>1. call.op = "remove" /\ call.pval \in Part /\ call.hole \in Nat
      BY <1>1, <1>3, CallShape DEF RemoveFinish
    <3>2. order_hd[call.pval] \in 0 .. MaxLen
      BY <1>1, <3>1
    <3> QED BY <1>1, <1>3, <3>1, <3>2 DEF RemoveFinish, CallOK
  <2>2. /\ call'.op = "save" /\ fields_hd' = fields_hd
        /\ order_hd' = [order_hd EXCEPT ![p] = n - 1]
    BY <1>3, <2>1, CallIntro DEF RemoveFinish, rowVars
  <2>3. \A q \in Part : ~Shifting(q)' /\ (Shifting(q) <=> q = p)
    BY <2>1, <2>2 DEF Shifting
  <2>4. ListLen(p)' = n - 1 /\ ListLen(p) = n - 1
    BY <1>1, <2>1, <2>2, <2>3 DEF ListLen
  <2>5. \A i \in 0 .. (n - 1) - 1 : RowAt(p, i)' = i /\ RowAt(p, i) = i
    BY <2>1, <2>3 DEF RowAt
  <2>6. ListOfPart(p)' = ListOfPart(p)
    BY <2>2, <2>4, <2>5, SameList
  <2>7. \A q \in Part \ {p} : ListOfPart(q)' = ListOfPart(q)
    BY <1>1, <2>2, <2>3, OtherPart
  <2> QED BY <2>6, <2>7 DEF Lists
<1>4. CASE \/ \E p \in Part : ExplicitSave(p)
           \/ SaveCallback \/ SearchQuery
  <2>1. UNCHANGED <<order_hd, fields_hd>>
    BY <1>4 DEF ExplicitSave, SaveCallback, SearchQuery, RefreshIndex,
                rowVars, orderVars
  <2>2. /\ call.op \in {"idle", "save"}
        /\ call'.op \in {"idle", "save"}
    BY <1>4, CallIntro DEF ExplicitSave, Ready, SaveCallback, SearchQuery,
                           orderVars
  <2>3. \A q \in Part : ListOfPart(q)' = ListOfPart(q)
    BY <2>1, <2>2, OtherPart DEF Shifting
  <2> QED BY <2>3 DEF Lists
<1> QED BY <1>2, <1>3, <1>4

(* The abstract list stores items the way the source does.                 *)
LEMMA SameRows ==
  ASSUME NEW row, NEW item
  PROVE  /\ List!StoreItem(row, item) = StoreItem(row, item)
         /\ List!BlankRow = BlankRow
         /\ \A l, pos, x : List!Inserted(l, pos, x) = Inserted(l, pos, x)
         /\ \A l, pos, x : List!Replaced(l, pos, x) = Replaced(l, pos, x)
BY DEF List!Inserted, Inserted, List!Replaced, Replaced, List!StoreItem, StoreItem, List!Allocated, Allocated, List!Stored, Stored,
       List!BlankRow, BlankRow

(* Every step of the source is a step of the lists, or changes none.       *)
LEMMA ListsStep ==
  ASSUME Overlap = {}, ~LoadFails, ~StrayPuts, WholeItems, DataInv, [Next]_vars
  PROVE  [List!Next]_(List!vars)
<1> USE OrderedAssumption
<1>1. /\ order_hd \in [Part -> 0 .. MaxLen] /\ call \in Calls /\ CallOK
  BY StateShape
<1>2. ASSUME NEW p \in Part, call.op = "idle"
      PROVE  Lists[p].len \in Nat
  BY <1>1, <1>2, QuietList DEF Lists, Shifting
<1>3. (UNCHANGED <<Lists, storage, loaded_hd>>) => [List!Next]_(List!vars)
  BY DEF List!vars, Lists
<1>4. /\ List!BlankRow = BlankRow
      /\ \A row, item : List!StoreItem(row, item) = StoreItem(row, item)
      /\ \A l, pos, x : List!Inserted(l, pos, x) = Inserted(l, pos, x)
      /\ \A l, pos, x : List!Replaced(l, pos, x) = Replaced(l, pos, x)
  BY SameRows
<1>5. ASSUME NEW p \in Part, EnsureLoaded(p)
      PROVE  List!Next
  <2>1. List!Load(p)
    BY <1>5, LoadList DEF List!Load, EnsureLoaded, Lists
  <2> QED BY <2>1 DEF List!Next
<1>6. ASSUME NEW p \in Part, NEW item \in Items, Append(p, item)
      PROVE  List!Next
  <2>1. call.op = "idle" /\ p \in loaded_hd
    BY <1>6, CallIntro DEF Append, Ready
  <2>2. Lists[p].len = order_hd[p] /\ order_hd[p] \in 0 .. Lists[p].len
    BY <1>1, <2>1, QuietList DEF Lists, Shifting
  <2>3. Lists' = [Lists EXCEPT ![p] =
                    List!Inserted(@, order_hd[p],
                                  List!StoreItem(List!BlankRow, item))]
    BY <1>4, <1>6, AppendList
  <2>4. UNCHANGED <<storage, loaded_hd>>
    BY <1>6 DEF Append
  <2>5. List!Insert(p, order_hd[p], item)
    BY <2>1, <2>2, <2>3, <2>4 DEF List!Insert, Lists
  <2> QED BY <2>2, <2>5 DEF List!Next, Lists
<1>7. CASE InsertFinish
  <2>1. Lists' = [Lists EXCEPT ![call.pval] =
                    List!Inserted(@, call.pos,
                                  List!StoreItem(List!BlankRow, call.item))]
    BY <1>4, <1>7, InsertList
  <2>2. /\ call.pval \in Part /\ call.item \in Items
        /\ call.pos \in 0 .. Lists[call.pval].len
    BY <1>1, <1>7, CallShape, InsertList DEF InsertFinish
  <2>3. call.pval \in loaded_hd /\ UNCHANGED <<storage, loaded_hd>>
    BY <1>7, InsertList DEF InsertFinish
  <2>4. List!Insert(call.pval, call.pos, call.item)
    BY <2>1, <2>2, <2>3 DEF List!Insert, Lists
  <2> QED BY <2>2, <2>4 DEF List!Next, Lists
<1>8. ASSUME NEW p \in Part, NEW pos \in Positions, RemoveStart(p, pos)
      PROVE  List!Next
  <2>1. List!Remove(p, pos)
    BY <1>8, RemoveList DEF List!Remove, List!Removed, Removed,
                            RemoveStart, Ready, Lists
  <2>2. call.op = "idle"
    BY <1>8, CallIntro DEF RemoveStart, Ready
  <2>3. pos \in 0 .. Lists[p].len
    BY <1>2, <1>8, <2>2, RemoveList
  <2> QED BY <2>1, <2>3 DEF List!Next, Lists
<1>9. ASSUME NEW p \in Part, Clear(p)
      PROVE  List!Next
  <2>1. List!Clear(p)
    BY <1>9, ClearList DEF List!Clear, List!EmptyList, EmptyList, Clear,
                           Ready, Lists
  <2> QED BY <2>1 DEF List!Next
<1>10. ASSUME NEW p \in Part, NEW pos \in 0 .. MaxLen, NEW item \in Items,
              UpdateItem(p, pos, item)
       PROVE  List!Next
  <2>1. List!Update(p, pos, item)
    <3>1. /\ p \in loaded_hd /\ pos \in 0 .. Lists[p].len - 1
          /\ Lists' = [Lists EXCEPT ![p] =
                         Replaced(@, pos, StoreItem(@.at[pos], item))]
      BY <1>10, UpdateList
    <3>2. UNCHANGED <<storage, loaded_hd>>
      BY <1>10 DEF UpdateItem
    <3> QED BY <1>4, <3>1, <3>2 DEF List!Update, Lists
  <2>2. call.op = "idle"
    BY <1>10, CallIntro DEF UpdateItem, Ready
  <2>3. pos \in 0 .. Lists[p].len
    BY <1>2, <1>10, <2>2, UpdateList
  <2> QED BY <2>1, <2>3 DEF List!Next, Lists
<1>11. CASE SaveCallback
  <2>1. PICK p \in Part : p = call.pval /\ call.op = "save"
    BY <1>1, <1>11, CallShape DEF SaveCallback
  <2>2. Lists' = Lists /\ loaded_hd' = loaded_hd
    BY <1>11, QuietSteps DEF SaveCallback
  <2>3. Contents(p) = Lists[p]
    BY <2>1, QuietList DEF Lists, Shifting
  <2>4. CASE storage' = [storage EXCEPT ![p] = Contents(p)]
    <3>1. List!Save(p)
      BY <2>1, <2>2, <2>3, <2>4 DEF List!Save, Lists
    <3> QED BY <3>1 DEF List!Next
  <2>5. CASE storage' = storage
    BY <1>3, <2>2, <2>5
  <2> QED BY <1>11, <2>1, <2>4, <2>5 DEF SaveCallback
<1>12. CASE Restart
  <2>1. call'.op = "idle" /\ order_hd' = [p \in Part |-> 0]
    BY <1>12, CallIntro DEF Restart
  <2>2. ASSUME NEW p \in Part
        PROVE  ListOfPart(p)' = EmptyList
    <3>1. ListLen(p)' = 0
      BY <2>1 DEF ListLen, Shifting
    <3>2. 0 .. 0 - 1 = {}
      OBVIOUS
    <3> QED BY <3>1, <3>2 DEF ListOfPart, EmptyList
  <2>3. List!Forget
    BY <1>12, <2>2 DEF Restart, List!Forget, List!EmptyList, EmptyList
  <2> QED BY <2>3 DEF List!Next
<1>13. CASE ShiftUp \/ ShiftDown
  <2>1. Lists' = Lists \/ LostItem
    BY <1>13, ShiftUpList, ShiftDownList
  <2>2. UNCHANGED <<storage, loaded_hd>>
    BY <1>13 DEF ShiftUp, ShiftDown
  <2>3. CASE LostItem
    <3>1. PICK p \in loaded_hd : \E pos \in 0 .. Lists[p].len - 1 :
            /\ Record /\ MallocFails
            /\ Lists' = [Lists EXCEPT ![p] = Replaced(@, pos, BlankRow)]
      BY <2>3 DEF LostItem
    <3>2. PICK pos \in 0 .. Lists[p].len - 1 :
            /\ Record /\ MallocFails
            /\ Lists' = [Lists EXCEPT ![p] = Replaced(@, pos, BlankRow)]
      BY <3>1
    <3>3. p \in Part
      BY StateShape
    <3>4. List!LoseFields(p, pos)
      BY <1>4, <2>2, <3>2, <3>3 DEF List!LoseFields, Lists
    <3>5. pos \in 0 .. Lists[p].len
      <4>1. Lists[p].len \in Int
        BY <1>1, <3>3 DEF Lists, ListOfPart, ListLen
      <4> QED BY <4>1
    <3> QED BY <3>3, <3>4, <3>5 DEF List!Next, Lists
  <2> QED BY <1>3, <2>1, <2>2, <2>3
<1>14. CASE \/ \E p \in Part, pos \in 0 .. MaxLen, item \in Items :
                 InsertStart(p, pos, item)
            \/ RemoveFinish \/ SearchQuery
            \/ \E p \in Part : ExplicitSave(p)
  <2>1. Lists' = Lists
    BY <1>14, QuietSteps
  <2>2. UNCHANGED <<storage, loaded_hd>>
    BY <1>14 DEF InsertStart, RemoveFinish, SearchQuery, ExplicitSave, orderVars
  <2> QED BY <1>3, <2>1, <2>2
<1>15. CASE UNCHANGED vars
  <2>1. UNCHANGED <<order_hd, call, fields_hd, storage, loaded_hd>>
    BY <1>15 DEF vars, rowVars, orderVars
  <2>2. Lists' = Lists
    BY <2>1 DEF Lists, ListOfPart, ListLen, RowAt, Shifting
  <2> QED BY <1>3, <2>1, <2>2
<1> QED BY <1>5, <1>6, <1>7, <1>8, <1>9, <1>10, <1>11, <1>12, <1>13, <1>14,
           <1>15 DEF Next, CallStep

(* An ordered source implements a list per partition: whatever calls come, *)
(* whatever cannot be allocated, wherever the process is lost, its callers *)
(* see the edits of OrderedList and the persisted copies are copies of the *)
(* lists.  Items lose fields (LoseFields) only where records are shifted   *)
(* and memory runs out: with MallocFails = FALSE that step is disabled.    *)
THEOREM OrderedImplementsList ==
  ASSUME Overlap = {}, ~LoadFails, ~StrayPuts, WholeItems
  PROVE  Spec => ImplementsList
<1>1. Init => DataInv /\ List!Init
  BY DataInit, ListsInit
<1>2. DataInv /\ [Next]_vars => DataInv'
  BY DataStep
<1>3. DataInv /\ [Next]_vars => [List!Next]_(List!vars)
  BY ListsStep
<1> QED BY <1>1, <1>2, <1>3, PTL DEF Spec, ImplementsList, List!Spec
=============================================================================
