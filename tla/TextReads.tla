------------------------------ MODULE TextReads ------------------------------
(***************************************************************************)
(* Reading the texts of a source: hyle_field_get_str decodes a token       *)
(* stream into one of a few buffers used in turn, derive providers compute *)
(* a field from other texts, and prefilter_fts, building the index anew,   *)
(* calls a provider for every row, in the middle of its loop.              *)
(***************************************************************************)
EXTENDS RowStore, Sequences

CONSTANTS
  Slots,        \* DECODE_RING_SLOTS
  IdxModulus,   \* g_decode_ring_idx counts modulo this: 2^32
  Garbage,      \* what a text that does not fit leaves in its buffer
  MaxProviders, \* the size of derive_registry
  Provider,     \* callbacks programs register
  ReadsField,   \* per provider: the field it reads to compute its text
  PutsItem,     \* per provider: what it puts into the row, the empty item: nothing
  TokenTexts    \* the texts callers put as token streams

ASSUME TextReadsAssumption ==
  /\ Slots \in Nat \ {0} /\ IdxModulus \in Nat \ {0}
  /\ IdxModulus % Slots = 0
  /\ Garbage \notin Value
  /\ MaxProviders \in Nat
  /\ ReadsField \in [Provider -> Field]
  /\ PutsItem \in [Provider -> ItemSet]
  /\ TokenTexts \subseteq Value
  /\ NULL \notin Provider

VARIABLES
  ring,         \* g_decode_ring
  ring_idx,     \* g_decode_ring_idx
  texts,        \* history: the last texts handed out, each with its buffer and age
  derive_registry,
  todo,         \* the rows and fields a rebuild has still to index
  rebuilding,   \* prefilter_fts is in its loop
  wrote,        \* history: the rows providers wrote to during the last rebuild
  unknown       \* history: the derived fields without a provider at that time

readVars == <<ring, ring_idx, texts>>
buildVars == <<todo, rebuilding, wrote, unknown>>
textVars == <<rowVars, readVars, derive_registry, buildVars>>

ReadsTypeOK ==
  /\ RowStoreTypeOK
  /\ ring \in [0 .. Slots - 1 -> Value \cup {NULL, Garbage}]
  /\ ring_idx \in 0 .. IdxModulus - 1
  /\ Len(derive_registry) <= MaxProviders
  /\ todo \subseteq RowId \X (Searchable \cup Derived)

ReadsInit ==
  /\ RowStoreInit
  /\ derived = [r \in RowId |-> [f \in Derived |-> NULL]]
  /\ ring = [s \in 0 .. Slots - 1 |-> NULL] /\ ring_idx = 0 /\ texts = {}
  /\ derive_registry = <<>>
  /\ todo = {} /\ rebuilding = FALSE /\ wrote = {} /\ unknown = Derived

-----------------------------------------------------------------------------
(* hyle_derive_register: a key may be registered again.                    *)
DeriveRegister(f, p) ==
  /\ ~rebuilding
  /\ Len(derive_registry) < MaxProviders
  /\ derive_registry' = Append(derive_registry, [key |-> f, fn |-> p])
  /\ UNCHANGED <<rowVars, readVars, buildVars>>

(* Mutant: the last registration of a key is called.                       *)
ProviderOfLast(f) ==
  LET found == { i \in DOMAIN derive_registry :
                   derive_registry[i].key = f /\ derive_registry[i].fn # NULL }
  IN IF found = {} THEN NULL
     ELSE derive_registry[CHOOSE i \in found : \A j \in found : j <= i].fn

(* hyle_derive_call: the first one that has a function.                    *)
ProviderOf(f) ==
  LET found == { i \in DOMAIN derive_registry :
                   derive_registry[i].key = f /\ derive_registry[i].fn # NULL }
  IN IF found = {} THEN NULL
     ELSE derive_registry[CHOOSE i \in found : \A j \in found : i <= j].fn

-----------------------------------------------------------------------------
(* Mutant: the last buffer is never taken.                                 *)
NextSlotButLast == ring_idx % (Slots - 1)

(* alloc_decode_slot *)
NextSlot == ring_idx % Slots

(* The decoding of a stream takes a buffer, also when its text does not    *)
(* fit.                                                                    *)
Decoded(r, f) ==
  LET slot == NextSlot
      fits == tokens_hd[r][f] \in Decodable
      text == IF fits THEN tokens_hd[r][f] ELSE Garbage
      older == { [slot |-> t.slot, text |-> t.text, age |-> t.age + 1] :
                   t \in { u \in texts : u.age + 1 < Slots } }
  IN /\ ring' = [ring EXCEPT ![slot] = text]
     /\ ring_idx' = (ring_idx + 1) % IdxModulus
     /\ texts' = IF fits THEN older \cup {[slot |-> slot, text |-> text, age |-> 0]}
                 ELSE older

(* hyle_field_get_str; its text is FieldGetStr(r, f).                      *)
ReadText(r, f) ==
  IF tokens_hd[r][f] # NULL THEN Decoded(r, f) ELSE UNCHANGED readVars

Read(r, f) ==
  /\ ~rebuilding
  /\ tokens_hd[r][f] # NULL
  /\ ReadText(r, f)
  /\ UNCHANGED <<rowVars, derive_registry, buildVars>>

Write(A) == ~rebuilding /\ A /\ UNCHANGED <<readVars, derive_registry, buildVars>>

-----------------------------------------------------------------------------
(* prefilter_fts finds the index dirty: lemma_clear, and the loop begins.  *)
RebuildStart ==
  /\ ~rebuilding
  /\ HasIndex /\ lemma_dirty
  /\ rebuilding' = TRUE
  /\ lemma_index' = {}
  /\ todo' = row_hd \X (Searchable \cup Derived)
  /\ wrote' = {} /\ unknown' = { f \in Derived : ProviderOf(f) = NULL }
  /\ UNCHANGED <<row_hd, fields_hd, tokens_hd, derived, lemma_dirty, readVars,
                 derive_registry>>

Indexed(r, f, text) == IF text \in {NULL, Empty} THEN {} ELSE {<<r, f, text>>}

(* The provider reads a text and may put something into the row, which     *)
(* marks the index dirty that is being built.                              *)
CallProvider(p, r, f) ==
  /\ ReadText(r, ReadsField[p])
  /\ lemma_index' = lemma_index \cup Indexed(r, f, FieldGetStr(r, ReadsField[p]))
  /\ IF DOMAIN PutsItem[p] = {}
     THEN UNCHANGED <<fields_hd, tokens_hd, lemma_dirty, wrote>>
     ELSE /\ fields_hd' = [fields_hd EXCEPT ![r] = StoreItem(@, PutsItem[p])]
          /\ \E lost \in Losses(PutsItem[p]) :
               tokens_hd' = [tokens_hd EXCEPT ![r] = WriteTokens(@, PutsItem[p], lost)]
          /\ MarkDirty
          /\ wrote' = wrote \cup {r}

(* One field of one row: its tokens, the provider's text, or the stored    *)
(* text; no provider, no text.                                             *)
RebuildField(r, f) ==
  /\ <<r, f>> \in todo
  /\ todo' = todo \ {<<r, f>>}
  /\ IF f \in Derived /\ tokens_hd[r][f] = NULL /\ ProviderOf(f) # NULL
     THEN CallProvider(ProviderOf(f), r, f)
     ELSE /\ lemma_index' = lemma_index \cup Indexed(r, f,
                 IF tokens_hd[r][f] # NULL THEN tokens_hd[r][f]
                 ELSE IF f \in Derived THEN NULL ELSE fields_hd[r][f])
          /\ UNCHANGED <<fields_hd, tokens_hd, lemma_dirty, wrote, readVars>>
  /\ UNCHANGED <<row_hd, derived, derive_registry, rebuilding, unknown>>

(* lemma_dirty = 0, whatever the providers did.                            *)
RebuildEnd ==
  /\ rebuilding /\ todo = {}
  /\ rebuilding' = FALSE /\ lemma_dirty' = FALSE
  /\ UNCHANGED <<row_hd, fields_hd, tokens_hd, derived, lemma_index, readVars,
                 derive_registry, todo, wrote, unknown>>

ReadsNext ==
  \/ \E f \in Derived, p \in Provider \cup {NULL} : DeriveRegister(f, p)
  \/ \E r \in RowId, f \in Field : Read(r, f)
  \/ \E r \in RowId, item \in Items : Write(RegistryPut(r, item))
  \/ \E r \in RowId, f \in Searchable, v \in TokenTexts : Write(RegistryPutTokens(r, f, v))
  \/ \E r \in RowId : Write(RegistryDel(r))
  \/ RebuildStart
  \/ \E r \in RowId, f \in Searchable \cup Derived : RebuildField(r, f)
  \/ RebuildEnd

-----------------------------------------------------------------------------
(* A decoded text stays what it was read as for as long as fewer than      *)
(* Slots texts are decoded after it, whoever decodes them, texts that did  *)
(* not fit included, and across the wrap-around of the counter.            *)
DecodedTextsStay ==
  \A t \in texts : ring[t.slot] = t.text

IndexedTexts(r, f) == { v \in Value : <<r, f, v>> \in lemma_index }

TextOfNow(r, f) ==
  IF tokens_hd[r][f] # NULL THEN tokens_hd[r][f]
  ELSE IF f \notin Derived THEN fields_hd[r][f]
  ELSE IF ProviderOf(f) = NULL THEN NULL
  ELSE FieldGetStr(r, ReadsField[ProviderOf(f)])

(* An index that is not dirty shows the texts of now, those providers      *)
(* compute included, however many providers were registered since.  What   *)
(* it may miss is a row that a provider wrote to while the index was built *)
(* and a field that had no provider then.                                  *)
IndexMissesOnlyCallbackWrites ==
  HasIndex /\ ~lemma_dirty /\ ~rebuilding =>
    \A r \in RowId \ wrote, f \in (Searchable \cup Derived) \ unknown :
      IndexedTexts(r, f)
        = IF r \in row_hd THEN { TextOfNow(r, f) } \ {NULL, Empty} ELSE {}
=============================================================================
