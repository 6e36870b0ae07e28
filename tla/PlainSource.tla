----------------------------- MODULE PlainSource -----------------------------
(***************************************************************************)
(* A source registered with hyle_registry_register and used through the    *)
(* row operations and full-text queries.                                   *)
(***************************************************************************)
EXTENDS RowStore

CONSTANTS
  TokenTexts,     \* the texts callers hand to hyle_registry_put_tokens
  DeriveChanges   \* TRUE when what the derive callback returns may change

ASSUME PlainSourceAssumption ==
  /\ TokenTexts \subseteq Value
  /\ DeriveChanges \in BOOLEAN

PlainInit == RowStoreInit

(* hyle_registry_register on an existing entry closes its maps and opens   *)
(* new, empty ones; the index is opened anew and is dirty.                 *)
Register ==
  /\ row_hd' = {}
  /\ fields_hd' = [r \in RowId |-> BlankRow]
  /\ tokens_hd' = [r \in RowId |-> NoTokens]
  /\ lemma_index' = {}
  /\ lemma_dirty' = TRUE
  /\ UNCHANGED derived

(* The owner of a derive callback changes what it returns for a row: none  *)
(* of its state is known to the registry, nothing is marked dirty.         *)
ProviderChange(r, f, v) ==
  /\ DeriveChanges
  /\ derived' = [derived EXCEPT ![r][f] = v]
  /\ UNCHANGED <<row_hd, fields_hd, tokens_hd, lemma_index, lemma_dirty>>

PlainNext ==
  \/ Register
  \/ \E r \in RowId, item \in Items : RegistryPut(r, item)
  \/ \E r \in RowId, f \in Field \cup Derived, v \in TokenTexts :
       RegistryPutTokens(r, f, v)
  \/ \E r \in RowId : RegistryDel(r)
  \/ \E r \in RowId, f \in Derived, v \in Value \cup {NULL} :
       ProviderChange(r, f, v)
  \/ RefreshIndex

PlainSpec == PlainInit /\ [][PlainNext]_rowVars

-----------------------------------------------------------------------------
(* A full-text query answers from the rows as they are: whenever the index *)
(* is not marked dirty, it holds exactly the live rows, each under the     *)
(* text a read of that field returns at this moment.  It fails when any of *)
(* the write paths (put, put_tokens, del, register) forgets to mark the    *)
(* index dirty, or when the rebuild leaves entries of an earlier rebuild.  *)
SearchAgreesWithRead ==
  HasIndex /\ ~lemma_dirty =>
    \A f \in Searchable, v \in Value \ {Empty} :
      IndexAnswer(f, v) = { r \in row_hd : FieldGetStr(r, f) = v }

(* A query never finds a deleted row, and never a row by a text that none  *)
(* of its readers could have returned: whenever the index is not dirty,    *)
(* what it holds of any field, derived ones included, is of live rows, and *)
(* what it holds of a tokenized derived field is the token text of now.    *)
SearchFindsLiveRows ==
  HasIndex /\ ~lemma_dirty =>
    \A e \in lemma_index :
      /\ e[1] \in row_hd
      /\ tokens_hd[e[1]][e[2]] # NULL => e[3] = tokens_hd[e[1]][e[2]]

(* What a deletion leaves behind.  Of a source of typed records a row that *)
(* is not in the row map has lost every value of the fields map, so that   *)
(* whatever is still read of it, and of the same id once a later put has   *)
(* brought the row back without naming the field, is its old token stream: *)
(* hyle_registry_del does not touch those, and the streams of its fields   *)
(* are the only thing that outlives a row.                                 *)
DeletedLeavesOnlyTokens ==
  Record =>
    \A r \in RowId \ row_hd, f \in Field \cup Derived :
      FieldGetStr(r, f) # NULL => FieldGetStr(r, f) = tokens_hd[r][f]

(* A put is read back: after hyle_registry_put returns, every named field  *)
(* of the row reads as the value that was put, whatever was put, tokenized *)
(* or deleted under that id before.  A value whose stream is not written   *)
(* (a NULL value, a text of more than 1024 tokens, a stream in lost, whose *)
(* buffer could not be allocated) is read back only where no token stream  *)
(* of an earlier value is left to hide it; the put returns 0 all the same. *)
PutIsReadBack ==
  [][\A r \in RowId, item \in Items : \A lost \in Losses(item) :
       RegistryPutLosing(r, item, lost) =>
         \A f \in DOMAIN item :
           LET written == f \notin lost /\ item[f] \in Encodable
           IN written \/ tokens_hd[r][f] \notin Decodable =>
                FieldGetStr(r, f)' = Stored(item[f])]_rowVars
==============================================================================
