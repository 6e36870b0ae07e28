--------------------------- MODULE RowStore_proofs ---------------------------
(***************************************************************************)
(* What the row operations of RowStore preserve, whatever the source: the  *)
(* shape of the maps, and the agreement of a clean index with the rows.    *)
(***************************************************************************)
EXTENDS RowStore, TLAPS

USE DEF StoredRow, TokenRow

(* An item names fields only and gives each a value or NULL.               *)
LEMMA ItemShape ==
  ASSUME NEW item \in ItemSet
  PROVE  /\ DOMAIN item \subseteq Field
         /\ \A f \in DOMAIN item : item[f] \in Value \cup {NULL}
BY DEF ItemSet

(* hyle_registry_put leaves a row of the fields map a row.                 *)
LEMMA StoreItemType ==
  ASSUME NEW row \in StoredRow, NEW item \in ItemSet
  PROVE  StoreItem(row, item) \in StoredRow
BY ItemShape, RowDataAssumption DEF StoreItem, Stored, Allocated

(* It writes token streams of values only.                                 *)
LEMMA WriteTokensType ==
  ASSUME NEW row \in TokenRow, NEW item \in ItemSet, NEW lost
  PROVE  WriteTokens(row, item, lost) \in TokenRow
BY ItemShape, RowDataAssumption, RowStoreAssumption DEF WriteTokens

(* The copy and the deletion of a row yield rows.                          *)
LEMMA RowOpsType ==
  ASSUME NEW from \in StoredRow, NEW to \in StoredRow
  PROVE  /\ CopiedOver(from, to) \in StoredRow
         /\ CormDelFields(from) \in StoredRow
BY DEF CopiedOver, CormDelFields, BlankRow

(* A row without entries is a row.                                         *)
LEMMA BlankType ==
  BlankRow \in StoredRow /\ NoTokens \in TokenRow
BY DEF BlankRow, NoTokens

(* The entries of a stored row are an item.                                *)
LEMMA ItemOfType ==
  ASSUME NEW row \in StoredRow
  PROVE  /\ ItemOf(row) \in ItemSet
         /\ DOMAIN ItemOf(row) = { f \in Field : row[f] # NULL }
         /\ \A f \in DOMAIN ItemOf(row) : ItemOf(row)[f] = row[f]
<1> DEFINE D == { f \in Field : row[f] # NULL }
<1>1. D \in SUBSET Field
  OBVIOUS
<1>2. ItemOf(row) \in [D -> Value \cup {NULL}]
  BY DEF ItemOf
<1>3. ItemOf(row) \in ItemSet
  BY <1>1, <1>2 DEF ItemSet
<1> QED BY <1>3 DEF ItemOf

(* What hyle_registry_put does to all but the token streams, whatever      *)
(* buffers it gets.                                                        *)
LEMMA RegistryPutDoes ==
  ASSUME NEW r, NEW item, RegistryPut(r, item)
  PROVE  /\ row_hd' = row_hd \cup {r}
         /\ fields_hd' = [fields_hd EXCEPT ![r] = StoreItem(@, item)]
         /\ MarkDirty
         /\ UNCHANGED <<derived, lemma_index>>
BY DEF RegistryPut, RegistryPutLosing

(* hyle_registry_put keeps the shape of the maps.                          *)
LEMMA RegistryPutType ==
  ASSUME RowStoreTypeOK, NEW r \in RowId, NEW item \in ItemSet,
         RegistryPut(r, item)
  PROVE  RowStoreTypeOK'
<1>1. StoreItem(fields_hd[r], item) \in StoredRow
  BY StoreItemType DEF RowStoreTypeOK
<1>2. PICK lost : tokens_hd' = [tokens_hd EXCEPT ![r] = WriteTokens(@, item, lost)]
  BY DEF RegistryPut, RegistryPutLosing
<1>3. WriteTokens(tokens_hd[r], item, lost) \in TokenRow
  BY WriteTokensType DEF RowStoreTypeOK
<1>4. tokens_hd' \in [RowId -> TokenRow]
  BY <1>2, <1>3 DEF RowStoreTypeOK
<1>5. /\ row_hd' = row_hd \cup {r}
      /\ fields_hd' = [fields_hd EXCEPT ![r] = StoreItem(@, item)]
      /\ MarkDirty
      /\ UNCHANGED <<derived, lemma_index>>
  BY RegistryPutDoes
<1> QED BY <1>1, <1>4, <1>5 DEF RowStoreTypeOK, MarkDirty, HasIndex

(* hyle_registry_del keeps the shape of the maps.                          *)
LEMMA RegistryDelType ==
  ASSUME RowStoreTypeOK, NEW r \in RowId, RegistryDel(r)
  PROVE  RowStoreTypeOK'
<1>1. CormDelFields(fields_hd[r]) \in StoredRow
  BY RowOpsType DEF RowStoreTypeOK
<1> QED BY <1>1 DEF RowStoreTypeOK, RegistryDel, MarkDirty, HasIndex

(* The rebuild of the index keeps its shape.                               *)
LEMMA RefreshIndexType ==
  ASSUME RowStoreTypeOK, RefreshIndex
  PROVE  RowStoreTypeOK'
BY DEF RowStoreTypeOK, RefreshIndex, RebuiltIndex

(* The initial maps have their shape.                                      *)
LEMMA RowStoreInitType ==
  ASSUME RowStoreInit
  PROVE  RowStoreTypeOK
BY DEF RowStoreInit, RowStoreTypeOK, BlankRow, NoTokens

-----------------------------------------------------------------------------
(* The index of stored fields is what a rebuild at this moment would give. *)
IndexIsCurrent ==
  HasIndex /\ ~lemma_dirty =>
    \A r \in RowId, f \in Searchable, v \in Value :
      <<r, f, v>> \in lemma_index
        <=> r \in row_hd /\ v # Empty /\ v = IndexedText(r, f)

(* A rebuild makes it so.                                                  *)
LEMMA RefreshIndexCurrent ==
  ASSUME RowStoreTypeOK, RefreshIndex
  PROVE  IndexIsCurrent'
BY DEF RowStoreTypeOK, RefreshIndex, RebuiltIndex, IndexIsCurrent, IndexedText, HasIndex

(* A step that marks the index dirty cannot break it.                      *)
LEMMA DirtyIsCurrent ==
  ASSUME MarkDirty
  PROVE  IndexIsCurrent'
BY DEF MarkDirty, IndexIsCurrent, HasIndex

(* Where every token stream decodes, a read of a field returns the text    *)
(* the rebuild would index for it.                                         *)
LEMMA ReadIsIndexed ==
  ASSUME RowStoreTypeOK, Decodable = Value, NEW r \in RowId,
         NEW f \in Searchable
  PROVE  FieldGetStr(r, f) = IndexedText(r, f)
BY RowDataAssumption, RowStoreAssumption
   DEF RowStoreTypeOK, FieldGetStr, IndexedText
==============================================================================
