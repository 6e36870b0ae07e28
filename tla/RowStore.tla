------------------------------ MODULE RowStore ------------------------------
(***************************************************************************)
(* The corm maps of one entry of the source registry and the full-text     *)
(* index that is rebuilt from them: the part of registry_entry_t that the  *)
(* row operations write.  Plain sources and ordered sources are both built *)
(* on it.                                                                  *)
(***************************************************************************)
EXTENDS RowData

CONSTANTS
  RowId,        \* the row keys of the source
  Searchable,   \* the stored fields with the searchable flag
  Derived,      \* the searchable fields of type HYLE_FIELD_DERIVED
  Encodable,    \* the strings lemma_tok_encode turns into at most 1024 tokens
  Decodable     \* the strings that fit a slot of the decode ring

ASSUME RowStoreAssumption ==
  /\ Searchable \subseteq Field
  /\ Derived \cap Field = {}
  /\ Encodable \subseteq Value
  /\ Decodable \subseteq Value

VARIABLES
  row_hd,       \* the ids in the row map
  fields_hd,    \* the fields map, per row
  tokens_hd,    \* the token map, per row and field (derived fields too)
  derived,      \* what the derive callback returns (state of its owner)
  lemma_index,  \* the index: <<row, field, text>> entries
  lemma_dirty   \* the index is older than the rows

rowVars == <<row_hd, fields_hd, tokens_hd, derived, lemma_index, lemma_dirty>>

(* A source has a lemma database only when some field is searchable.       *)
HasIndex == Searchable \cup Derived # {}

TokenRow == [Field \cup Derived -> Value \cup {NULL}]
NoTokens == [f \in Field \cup Derived |-> NULL]

RowStoreTypeOK ==
  /\ row_hd \subseteq RowId
  /\ fields_hd \in [RowId -> StoredRow]
  /\ tokens_hd \in [RowId -> TokenRow]
  /\ derived \in [RowId -> [Derived -> Value \cup {NULL}]]
  /\ lemma_index \subseteq RowId \X (Searchable \cup Derived) \X Value
  /\ lemma_dirty \in BOOLEAN

RowStoreInit ==
  /\ row_hd = {}
  /\ fields_hd = [r \in RowId |-> BlankRow]
  /\ tokens_hd = [r \in RowId |-> NoTokens]
  /\ derived \in [RowId -> [Derived -> Value \cup {NULL}]]
  /\ lemma_index = {}
  /\ lemma_dirty = TRUE

-----------------------------------------------------------------------------
MarkDirty == lemma_dirty' = (lemma_dirty \/ HasIndex)

(* Mutant: an old token stream is not replaced.                            *)
WriteTokensOnce(row, item, lost) ==
  [f \in Field \cup Derived |->
     IF row[f] = NULL /\ f \in DOMAIN item \ lost /\ item[f] \in Encodable
     THEN item[f] ELSE row[f]]

(* The streams of a row after a put: of each named field whose text        *)
(* encodes the new stream, except where its buffer could not be allocated: *)
(* there (lost) an earlier stream stays, and the put still succeeds.       *)
WriteTokens(row, item, lost) ==
  [f \in Field \cup Derived |->
     IF f \in DOMAIN item \ lost /\ item[f] \in Encodable
     THEN item[f] ELSE row[f]]

(* The fields whose buffers may fail to be allocated in one put.           *)
Losses(item) ==
  IF MallocFails THEN SUBSET { f \in DOMAIN item : item[f] \in Encodable }
                 ELSE {{}}

(* hyle_registry_put, less the streams of the fields in lost.              *)
RegistryPutLosing(r, item, lost) ==
  /\ row_hd' = row_hd \cup {r}
  /\ fields_hd' = [fields_hd EXCEPT ![r] = StoreItem(@, item)]
  /\ tokens_hd' = [tokens_hd EXCEPT ![r] = WriteTokens(@, item, lost)]
  /\ MarkDirty
  /\ UNCHANGED <<derived, lemma_index>>

RegistryPut(r, item) ==
  \E lost \in Losses(item) : RegistryPutLosing(r, item, lost)

(* Mutant: the caller's token stream does not mark the index.              *)
RegistryPutTokensUnmarked(r, f, v) ==
  /\ row_hd' = row_hd \cup {r}
  /\ tokens_hd' = [tokens_hd EXCEPT ![r][f] = v]
  /\ UNCHANGED <<fields_hd, derived, lemma_index, lemma_dirty>>

(* hyle_registry_put_tokens: a token stream of the caller, whose text is v *)
RegistryPutTokens(r, f, v) ==
  /\ row_hd' = row_hd \cup {r}
  /\ tokens_hd' = [tokens_hd EXCEPT ![r][f] = v]
  /\ MarkDirty
  /\ UNCHANGED <<fields_hd, derived, lemma_index>>

(* Mutants: a deletion does not mark the index; or leaves the fields.      *)
RegistryDelUnmarked(r) ==
  /\ row_hd' = row_hd \ {r}
  /\ fields_hd' = [fields_hd EXCEPT ![r] = CormDelFields(@)]
  /\ UNCHANGED <<tokens_hd, derived, lemma_index, lemma_dirty>>

RegistryDelRowOnly(r) ==
  /\ row_hd' = row_hd \ {r}
  /\ MarkDirty
  /\ UNCHANGED <<fields_hd, tokens_hd, derived, lemma_index>>

(* hyle_registry_del: the token map is not touched *)
RegistryDel(r) ==
  /\ row_hd' = row_hd \ {r}
  /\ fields_hd' = [fields_hd EXCEPT ![r] = CormDelFields(@)]
  /\ MarkDirty
  /\ UNCHANGED <<tokens_hd, derived, lemma_index>>

-----------------------------------------------------------------------------
(* hyle_field_get_str: the token stream wins when there is one and it      *)
(* decodes; the fields map is only the fallback.                           *)
FieldGetStr(r, f) ==
  IF tokens_hd[r][f] \in Decodable
  THEN tokens_hd[r][f]
  ELSE IF f \in Field THEN fields_hd[r][f] ELSE NULL

(* The text prefilter_fts indexes for one field of one row: its tokens     *)
(* when there are any, else what the derive callback returns for a derived *)
(* field, else the stored value.                                           *)
IndexedText(r, f) ==
  IF tokens_hd[r][f] # NULL THEN tokens_hd[r][f]
  ELSE IF f \in Derived THEN derived[r][f] ELSE fields_hd[r][f]

(* Mutant: the rebuild does not look whether there is a text.              *)
RebuiltIndexUnchecked ==
  { <<r, f, IndexedText(r, f)>> : r \in row_hd, f \in Searchable \cup Derived }

RebuiltIndex ==
  { e \in row_hd \X (Searchable \cup Derived) \X Value :
      e[3] = IndexedText(e[1], e[2]) /\ e[3] # Empty }

(* prefilter_fts, the lazy rebuild: done by a query that carries a filter  *)
(* on a searchable field, and only when the index is dirty.                *)
RefreshIndex ==
  /\ HasIndex
  /\ lemma_dirty
  /\ lemma_index' = RebuiltIndex
  /\ lemma_dirty' = FALSE
  /\ UNCHANGED <<row_hd, fields_hd, tokens_hd, derived>>

(* The rows a full-text filter "field contains text" then keeps.           *)
IndexAnswer(f, v) == { r \in RowId : <<r, f, v>> \in lemma_index }
=============================================================================
