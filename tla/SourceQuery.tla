----------------------------- MODULE SourceQuery -----------------------------
(***************************************************************************)
(* A client that walks through the pages of a query, one call of           *)
(* hyle_registry_query per page, while rows of the source are put between  *)
(* two pages.                                                              *)
(***************************************************************************)
EXTENDS QueryPipeline

CONSTANTS
  RowId,    \* row ids
  Rows,     \* the rows callers put: a text or NULL per field
  Queries,  \* the queries clients ask, with page = 1
  FaultyQueries  \* queries during which maps do not open

VARIABLES
  rows,     \* the row map, in the order it is iterated
  stored,   \* the texts of the fields, per row
  walk      \* the client: its query, the rows it was given, what it was told

queryVars == <<rows, stored, walk>>

IsQuery(query) ==
  /\ DOMAIN query = {"filters", "op", "q", "sort_field", "sort_asc", "page", "per_page", "failed"}
  /\ query.filters \in Seq(ToSet(query.filters))
  /\ query.page = 1 /\ query.per_page \in Nat /\ query.sort_asc \in BOOLEAN

(* A source has fewer rows than a uint32_t counts.                         *)
ASSUME SourceQueryAssumption ==
  /\ Rows \subseteq [Field -> STRING \cup {NULL}]
  /\ IsFiniteSet(RowId) /\ Cardinality(RowId) < 2 ^ Width
  /\ \A query \in Queries \cup FaultyQueries : IsQuery(query)
  /\ \A query \in Queries : query.failed = {}

Texts == { row[f] : row \in Rows, f \in Field } \ {NULL}

(* strcasecmp: texts that are neither before the other compare equal, and  *)
(* the empty text is before all others.                                    *)
ASSUME TextOrderAssumption ==
  /\ \A u, v, w \in Texts :
       /\ ~TextBefore(v, v)
       /\ TextBefore(u, v) /\ TextBefore(v, w) => TextBefore(u, w)
       /\ TextBefore(u, w) => TextBefore(u, v) \/ TextBefore(v, w)
  /\ \A v \in Texts \ {""} : TextBefore("", v)
  /\ \A v \in Texts : Number(v) # NULL => Number(v) \in Int

NoWalk == [state |-> "none"]

Init ==
  /\ rows = <<>>
  /\ stored = [r \in RowId |-> [f \in Field |-> NULL]]
  /\ walk = NoWalk

InRows(r) == \E i \in DOMAIN rows : rows[i] = r

(* A write is noted in a walk that goes on; a walk that has ended is over. *)
Noted(change) ==
  IF walk.state = "more" THEN [walk EXCEPT !.writes = @ \cup {change}] ELSE NoWalk

(* hyle_registry_put of a new row: the row map is iterated in the order    *)
(* its keys came.                                                          *)
PutNew(r, row) ==
  /\ ~InRows(r)
  /\ rows' = Append(rows, r)
  /\ stored' = [stored EXCEPT ![r] = row]
  /\ walk' = Noted("new")

PutAgain(r, row) ==
  /\ InRows(r)
  /\ stored[r] # row
  /\ stored' = [stored EXCEPT ![r] = row]
  /\ walk' = Noted("changed")
  /\ UNCHANGED rows

(* One call of hyle_registry_query: the rows of the page follow the rows   *)
(* of the pages before it.  A page that is not full is the last.           *)
Fetched(query, seen, writes) ==
  LET reply == RegistryQuery(rows, stored, query)
      paged == query.page > 0 /\ query.per_page > 0
  IN [state  |-> IF paged /\ Len(reply.rows) = query.per_page THEN "more" ELSE "ended",
      query  |-> query,
      seen   |-> seen \o reply.rows,
      total  |-> reply.total,
      writes |-> writes]

(* A query short of memory: some of the maps of its pre-filters do not     *)
(* open.  It answers as if nothing had happened.                           *)
FaultyQuery(query) ==
  /\ walk.state = "none"
  /\ walk' = [Fetched(query, <<>>, {}) EXCEPT !.state = "faulty"]
  /\ UNCHANGED <<rows, stored>>

FirstPage(query) ==
  /\ walk.state = "none"
  /\ walk' = Fetched(query, <<>>, {})
  /\ UNCHANGED <<rows, stored>>

NextPage ==
  /\ walk.state = "more"
  /\ walk' = Fetched([walk.query EXCEPT !.page = @ + 1], walk.seen, walk.writes)
  /\ UNCHANGED <<rows, stored>>

EndWalk ==
  /\ walk.state # "none"
  /\ walk' = NoWalk
  /\ UNCHANGED <<rows, stored>>

Next ==
  \/ \E r \in RowId, row \in Rows : PutNew(r, row) \/ PutAgain(r, row)
  \/ \E query \in Queries : FirstPage(query)
  \/ \E query \in FaultyQueries : FaultyQuery(query)
  \/ NextPage
  \/ EndWalk

Spec == Init /\ [][Next]_queryVars

-----------------------------------------------------------------------------
Walking == walk.state \in {"more", "ended"}
Unpaged == [walk.query EXCEPT !.page = 0]
WholeAnswer == Answer(rows, stored, Unpaged)
Beginning(s, t) == Len(s) <= Len(t) /\ s = SubSeq(t, 1, Len(s))

(* What a filter on one field means, said without the stages: what the     *)
(* index has taken on is asked of the index; a reference by one text and a *)
(* plain field by substring; a reference by several texts, and a           *)
(* multi-reference, by identity, any of them or with "and" all of them.    *)
(* Different fields are ANDed.                                             *)
FieldMeans(r, query, f) ==
  LET indexed == ValuesOf(query, FtsFilters(query), f)
      other   == ValuesOf(query, DOMAIN query.filters \ FtsFilters(query), f)
      all     == IF query.op[f] # NULL THEN query.op[f] = "and" ELSE f \in Combine
      value   == stored[r][f]
      is(v)   == IF Type[f] = "reference" THEN value = v ELSE Position(v) \in Tokens(value)
      has(v)  == IF Type[f] = "derived" THEN FALSE
                 ELSE IF Type[f] = "multi_reference"
                 THEN \E tok \in Tokens(value) : SameText(tok, v)
                 ELSE CiSubstr(value, v)
      byIdentity == \/ Type[f] = "multi_reference" /\ f \in HasTarget
                    \/ Type[f] = "reference" /\ Cardinality(other) > 1
  IN indexed \cup other # {} =>
       /\ value # NULL
       /\ \A v \in indexed : FtsFinds(value, v)
       /\ other # {} =>
            IF ~byIdentity THEN \A v \in other : has(v)
            ELSE IF all THEN \A v \in other : is(v)
            ELSE \E v \in other : is(v)

Means(r, query) ==
  /\ \A f \in Field : FieldMeans(r, query, f)
  /\ \A i \in DOMAIN query.filters : query.filters[i].field \in Field
  /\ query.q # NULL => RowMatchesQ(stored, r, query.q)

(* The reference filters of a query fit the tables of prefilter_multi_ref. *)
FitsTables(query) == Collected(query) = RefFilters(query)

(* The stages of a query, which drop the filters they have dealt with and  *)
(* hand smaller and smaller sets on, together keep exactly the rows that   *)
(* meet every filter and the free-text term, whatever the order, the mix   *)
(* and the repetition of the filters.                                      *)
AnswerIsWhatFiltersMean ==
  Walking /\ FitsTables(walk.query) =>
    ToSet(WholeAnswer) = { r \in ToSet(rows) : Means(r, walk.query) }

(* What a query short of memory gives up is the condition on a reference   *)
(* field whose own set, or a later intersection, did not open, and nothing *)
(* else: every row it gives meets the other filters, by the index or, when *)
(* the index could not be used, by the stored text, and the free-text      *)
(* term.                                                                   *)
OnlyReferencesAreLost ==
  walk.state = "faulty" /\ FitsTables(walk.query) =>
    LET query   == walk.query
        order   == RefOrder(query)
        lost(f) == \E i \in DOMAIN order :
                     /\ order[i] = f
                     /\ \/ <<"set", f>> \in query.failed
                        \/ \E j \in i .. Len(order) : <<"meet", order[j]>> \in query.failed
    IN \A r \in ToSet(walk.seen) :
         /\ \A i \in DOMAIN query.filters :
              LET flt == query.filters[i] IN
                IF flt.field \in ToSet(order)
                THEN lost(flt.field) \/ FieldMeans(r, query, flt.field)
                ELSE \/ FilterKeeps(stored, r, flt)
                     \/ flt.field \in Searchable /\ FtsKeeps(stored, r, flt)
         /\ query.q # NULL => RowMatchesQ(stored, r, query.q)

(* Page after page is the whole answer cut in pieces: as long as nothing   *)
(* is written, or rows are only added and the query does not sort, what    *)
(* the client was given is a beginning of the answer of now, no row twice  *)
(* and none left out.  When the source did not change, its last page ends  *)
(* the answer, as long as every page said it is.                           *)
PagesFollowTheAnswer ==
  /\ Walking
  /\ walk.writes = {} \/ (walk.writes = {"new"} /\ walk.query.sort_field = NULL)
  => /\ Beginning(walk.seen, WholeAnswer)
     /\ walk.state = "ended" /\ walk.writes = {} =>
          walk.seen = WholeAnswer /\ walk.total = Len(walk.seen)

(* An answer is sorted over all its pages: "numeric when all numeric", a   *)
(* row never before one whose number is smaller, and descending is the     *)
(* mirror image; rows without the field are at one end.                    *)
AnswerIsSorted ==
  Walking /\ walk.query.sort_field # NULL =>
    LET answer == WholeAnswer
        val == [i \in DOMAIN answer |-> FieldVal(stored, answer[i], walk.query.sort_field)]
        numbers == \A i \in DOMAIN val : val[i] \in {NULL, ""} \/ Number(val[i]) # NULL
    IN \A i, j \in DOMAIN val :
         (IF walk.query.sort_asc THEN i < j ELSE j < i) =>
           /\ val[j] = NULL => val[i] = NULL
           /\ numbers /\ {val[i], val[j]} \cap {NULL, ""} = {}
                => Number(val[i]) <= Number(val[j])
           /\ ~numbers /\ NULL \notin {val[i], val[j]} => ~TextBefore(val[j], val[i])
==============================================================================
