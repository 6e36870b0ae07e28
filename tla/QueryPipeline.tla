---------------------------- MODULE QueryPipeline ----------------------------
(***************************************************************************)
(* What hyle_registry_query computes from the rows of a source: full-text  *)
(* candidates, reference candidates, the free-text term, the filters that  *)
(* are left, the order and the page.                                       *)
(*                                                                         *)
(* Texts are opaque: the comparisons the code makes on them are constants. *)
(* A multi-reference value is a text of several lines; its lines are the   *)
(* positions (or slugs) of rows of the target source.                      *)
(***************************************************************************)
EXTENDS QueryData, SequencesExt

CONSTANTS
  Field,            \* the fields of the schema
  Type,             \* "text" | "reference" | "multi_reference" | "derived"
  Searchable,       \* the fields with the searchable flag
  HasTarget,        \* the reference fields whose target source is registered
  Combine,          \* the fields whose combine flag says AND
  CiSubstr(_, _),       \* hyle_ci_substr
  CiSubstrPunct(_, _),  \* hyle_ci_substr_punct
  SameText(_, _),   \* strncasecmp of texts of one length gives 0
  Tokens(_),        \* the lines of a stored text
  Position(_),      \* slug -> its position in the target source, or itself
  Label(_),         \* line -> display text of the row it refers to, or NULL
  FtsHandles(_),    \* lemma_query or lemma_query_phrase takes the text on
  FtsFinds(_, _),   \* the index finds the stored text by the filter's text
  Number(_),        \* strtod takes the whole text, and gives this; or NULL
  TextBefore(_, _), \* strcasecmp gives a negative number
  MaxFields,        \* PREFILTER_MAX_FIELDS
  MaxValues         \* PREFILTER_MAX_VALUES

ASSUME QueryPipelineAssumption ==
  /\ Type \in [Field -> {"text", "reference", "multi_reference", "derived"}]
  /\ Searchable \subseteq Field /\ HasTarget \subseteq Field /\ Combine \subseteq Field
  /\ MaxFields \in Nat /\ MaxValues \in Nat

(* A query asks with a sequence of filters, each a field and a text that   *)
(* is not empty; op gives the "and" or "or" a "<field>_op" parameter set.  *)
(* failed says which maps do not open while it is answered: <<"fts", i>>,  *)
(* a map of the full-text filter i; <<"set", f>> and <<"meet", f>>, those  *)
(* of the reference field f; <<"q", 0>>, the one of the free-text term.    *)
(* The rows of a source are a sequence, in the order corm iterates them;   *)
(* stored gives each row a text or NULL per field, for a derived field     *)
(* what its callback returns.                                              *)

(* The elements of s that are in S, in their order: what a pass over a     *)
(* row map keeps.                                                          *)
KeptUpTo(s, S) ==
  LET kept[n \in 0 .. Len(s)] ==
        IF n = 0 THEN <<>>
        ELSE IF s[n] \in S THEN Append(kept[n - 1], s[n]) ELSE kept[n - 1]
  IN kept

Only(s, S) == KeptUpTo(s, S)[Len(s)]

(* corm_get(fields_hd, "row:field"): derived fields and names outside the  *)
(* schema have no entry.                                                   *)
FieldVal(stored, r, f) ==
  IF f \in Field /\ Type[f] # "derived" THEN stored[r][f] ELSE NULL

-----------------------------------------------------------------------------
(* prefilter_fts: the filters the index takes on.  One whose map, or the   *)
(* map of whose intersection, does not open is left to the later stages.   *)
FtsFilters(query) ==
  { i \in DOMAIN query.filters :
      /\ <<"fts", i>> \notin query.failed
      /\ query.filters[i].field \in Searchable
      /\ FtsHandles(query.filters[i].value) }

FtsKeeps(stored, r, flt) ==
  stored[r][flt.field] # NULL /\ FtsFinds(stored[r][flt.field], flt.value)

PrefilterFts(rows, stored, query) ==
  Only(rows, { r \in ToSet(rows) :
                 \A i \in FtsFilters(query) : FtsKeeps(stored, r, query.filters[i]) })

-----------------------------------------------------------------------------
(* prefilter_multi_ref, pass 0: filters on reference fields that the index *)
(* has left, up to the one that finds a table full ...                     *)
RefFilters(query) ==
  { i \in DOMAIN query.filters \ FtsFilters(query) :
      LET f == query.filters[i].field IN
        /\ f \in Field
        /\ \/ Type[f] = "reference"
           \/ Type[f] = "multi_reference" /\ f \in HasTarget }

FieldsOf(query, I) == { query.filters[i].field : i \in I }
ValuesOf(query, I, f) ==
  { query.filters[i].value : i \in { j \in I : query.filters[j].field = f } }

Collected(query) ==
  { i \in RefFilters(query) :
      LET before == { j \in RefFilters(query) : j < i }
      IN /\ Cardinality(FieldsOf(query, before)) < MaxFields
         /\ Cardinality(before) < MaxValues }

(* Mutant: a single-reference field is handled whatever it asks for.       *)
HandledAlways(query) == Collected(query)

(* ... without the single-reference fields that ask for one value only.    *)
Handled(query) ==
  { i \in Collected(query) :
      LET f == query.filters[i].field IN
        \/ Type[f] = "multi_reference"
        \/ Cardinality(ValuesOf(query, Collected(query), f)) >= 2 }

(* Pass 1: every value of the field, or some value.                        *)
AllOf(query, f) == IF query.op[f] = NULL THEN f \in Combine ELSE query.op[f] = "and"

RefKeeps(fv, vals, type, all) ==
  LET want == { Position(v) : v \in vals }
  IN /\ fv # NULL
     /\ IF type = "reference" THEN ~all /\ fv \in vals
        ELSE IF all THEN want \subseteq Tokens(fv)
        ELSE want \cap Tokens(fv) # {}

(* The handled fields, in the order the filters name them.                 *)
RefOrder(query) ==
  LET f(i)   == query.filters[i].field
      firsts == { i \in Handled(query) : \A j \in Handled(query) : f(j) = f(i) => i <= j }
      order  == Only([i \in DOMAIN query.filters |-> i], firsts)
  IN [k \in DOMAIN order |-> f(order[k])]

(* Pass 1 goes from field to field: one whose set does not open is passed  *)
(* over, and an intersection that does not open leaves no set at all, of   *)
(* this field or of those before.                                          *)
GroupsUpTo(order, failed) ==
  LET groups[n \in 0 .. Len(order)] ==
        IF n = 0 THEN {}
        ELSE IF <<"set", order[n]>> \in failed THEN groups[n - 1]
        ELSE IF groups[n - 1] # {} /\ <<"meet", order[n]>> \in failed THEN {}
        ELSE groups[n - 1] \cup {order[n]}
  IN groups

RefGroups(query) == GroupsUpTo(RefOrder(query), query.failed)[Len(RefOrder(query))]

PrefilterMultiRef(base, stored, query) ==
  LET groups == RefGroups(query)
      handled == Handled(query)
  IN Only(base, { r \in ToSet(base) :
       \A f \in groups :
         RefKeeps(stored[r][f], ValuesOf(query, handled, f), Type[f], AllOf(query, f)) })

-----------------------------------------------------------------------------
(* prefilter_q: the row id, a stored or derived text, or the display text  *)
(* of a row that a reference field refers to.                              *)
LabelMatches(stored, r, f, q) ==
  /\ Type[f] \in {"reference", "multi_reference"} /\ f \in HasTarget
  /\ \E tok \in Tokens(stored[r][f]) :
       Label(tok) # NULL /\ CiSubstrPunct(Label(tok), q)

RowMatchesQ(stored, r, q) ==
  \/ CiSubstrPunct(r, q)
  \/ \E f \in Field :
       /\ stored[r][f] # NULL
       /\ CiSubstrPunct(stored[r][f], q) \/ LabelMatches(stored, r, f, q)

QFails(query) == <<"q", 0>> \in query.failed

PrefilterQ(base, stored, query) ==
  IF query.q = NULL \/ QFails(query) THEN base
  ELSE Only(base, { r \in ToSet(base) : RowMatchesQ(stored, r, query.q) })

-----------------------------------------------------------------------------
(* hyle_filter_rows on a filter whose value no pre-filter has dropped.     *)
FilterKeeps(stored, r, flt) ==
  LET fv == FieldVal(stored, r, flt.field) IN
    /\ fv # NULL
    /\ IF flt.field \in Field /\ Type[flt.field] = "multi_reference"
       THEN \E tok \in Tokens(fv) : SameText(tok, flt.value)
       ELSE CiSubstr(fv, flt.value)

(* Mutant: the value of a filter is dropped before its map is open.        *)
ResidualDroppedEarly(query) ==
  { i \in DOMAIN query.filters \ Handled(query) :
      ~(query.filters[i].field \in Searchable /\ FtsHandles(query.filters[i].value)) }

Residual(query) == DOMAIN query.filters \ (FtsFilters(query) \cup Handled(query))

(* The free-text term, when prefilter_q has left it: derived texts and     *)
(* labels are not looked at.                                               *)
QKeeps(stored, r, q) ==
  \/ CiSubstrPunct(r, q)
  \/ \E f \in Field : FieldVal(stored, r, f) # NULL /\ CiSubstrPunct(FieldVal(stored, r, f), q)

FilterRows(base, stored, query) ==
  LET left == Residual(query)
  IN Only(base, { r \in ToSet(base) :
       /\ \A i \in left : FilterKeeps(stored, r, query.filters[i])
       /\ query.q # NULL /\ QFails(query) => QKeeps(stored, r, query.q) })

-----------------------------------------------------------------------------
(* hyle_sort_rows: by number when every text that is neither missing nor   *)
(* empty is one, else as texts; rows without an entry come first.  Rows    *)
(* that compare equal keep their order, as a merge sort leaves them.       *)
AllNumbers(texts) == \A v \in texts \ {NULL, ""} : Number(v) # NULL

(* Mutant: numbers are compared as texts.                                  *)
CmpBeforeAsText(v, w, numeric) ==
  IF v = NULL \/ w = NULL THEN v = NULL /\ w # NULL ELSE TextBefore(v, w)

CmpBefore(v, w, numeric) ==
  IF v = NULL \/ w = NULL THEN v = NULL /\ w # NULL
  ELSE IF numeric /\ v # "" /\ w # "" THEN Number(v) < Number(w)
  ELSE TextBefore(v, w)

SortRows(s, stored, query) ==
  LET key == [i \in DOMAIN s |-> FieldVal(stored, s[i], query.sort_field)]
      numeric == AllNumbers({ key[i] : i \in DOMAIN s })
      less(i, j) == IF query.sort_asc THEN CmpBefore(key[i], key[j], numeric)
                                      ELSE CmpBefore(key[j], key[i], numeric)
      ahead(i) == { j \in DOMAIN s : less(j, i) \/ (~less(i, j) /\ j < i) }
  IN IF query.sort_field = NULL THEN s
     ELSE [k \in DOMAIN s |-> s[CHOOSE i \in DOMAIN s : Cardinality(ahead(i)) = k - 1]]

(* Mutant: the page number is taken as if it were zero-based.              *)
PaginateFromZero(s, page, per_page) ==
  LET skip == (page * per_page) % 2 ^ Width
      take == IF Len(s) - skip < per_page THEN Len(s) - skip ELSE per_page
  IN IF page = 0 \/ per_page = 0 THEN s
     ELSE IF skip >= Len(s) THEN <<>>
     ELSE SubSeq(s, skip + 1, skip + take)

(* hyle_paginate *)
Paginate(s, page, per_page) ==
  LET skip == ((page - 1) * per_page) % 2 ^ Width
      take == IF Len(s) - skip < per_page THEN Len(s) - skip ELSE per_page
  IN IF page = 0 \/ per_page = 0 THEN s
     ELSE IF skip >= Len(s) THEN <<>>
     ELSE SubSeq(s, skip + 1, skip + take)

-----------------------------------------------------------------------------
(* hyle_registry_query with hyle_apply_view: the rows of the page, and the *)
(* total it reports.                                                       *)
Candidates(rows, stored, query) ==
  PrefilterQ(PrefilterMultiRef(PrefilterFts(rows, stored, query), stored, query),
             stored, query)

Answer(rows, stored, query) ==
  SortRows(FilterRows(Candidates(rows, stored, query), stored, query), stored, query)

RegistryQuery(rows, stored, query) ==
  LET answer == Answer(rows, stored, query)
  IN [rows  |-> Paginate(answer, query.page, query.per_page), total |-> Len(answer)]
==============================================================================
