----------------------------- MODULE QueryParse -----------------------------
(***************************************************************************)
(* hyle_parse_query: one pass over the parameters of a query string, a     *)
(* parameter per step, after which the "<field>_op" overrides are put on   *)
(* the filters.                                                            *)
(*                                                                         *)
(* A parameter has a name and a text, or NULL for a text when it has no    *)
(* "=".  A name that ends in "_op" is given by the field before it and     *)
(* override = TRUE.                                                        *)
(***************************************************************************)
EXTENDS QueryData, SequencesExt

CONSTANTS
  Params,         \* the parameters query strings are made of
  MaxParams,      \* bound: parameters in a query string
  Decode(_),      \* url_decode
  SortSpec(_),    \* [field, dir], the texts around the first ":"; dir may be NULL
  Pieces(_),      \* the texts between the commas
  Atol(_),        \* atol
  MaxOps,         \* overrides the parser has room for (64)
  AllocFails      \* TRUE when calloc and realloc may return NULL

ASSUME QueryParseAssumption ==
  /\ MaxParams \in Nat /\ MaxOps \in Nat /\ AllocFails \in BOOLEAN
  /\ \A p \in Params :
       /\ p.override \in BOOLEAN
       /\ p.text # NULL => LET pieces == Pieces(Decode(p.text))
                           IN pieces \in Seq(ToSet(pieces)) \ {<<>>}

VARIABLES
  params,   \* the query string
  next,     \* the parameter the pass has come to
  ops,      \* op_field and op_val
  out,      \* the hyle_query_t
  held,     \* the blocks of memory that are allocated
  result    \* "called", "running", or what the call has returned

parseVars == <<params, next, ops, out, held, result>>

NoQuery == [sort_field |-> NULL, sort_asc |-> TRUE, page |-> 0, per_page |-> 0,
            q |-> NULL, filters |-> <<>>, include |-> <<>>]

ParseInit ==
  /\ params \in UNION { [1 .. n -> Params] : n \in 0 .. MaxParams }
  /\ next = 1
  /\ ops = <<>>
  /\ out = NoQuery
  /\ held = {}
  /\ result = "called"

Start ==
  /\ result = "called"
  /\ \/ params = <<>> /\ result' = "ok" /\ UNCHANGED held
     \/ params # <<>> /\ result' = "running" /\ held' = {"names", "values"}
     \/ params # <<>> /\ AllocFails /\ result' = "nomem" /\ UNCHANGED held
  /\ UNCHANGED <<params, next, ops, out>>

(* hyle_query_clear and the two tables: the way out of a failed realloc.   *)
OutOfMemory ==
  /\ AllocFails
  /\ out' = [out EXCEPT !.filters = <<>>, !.include = <<>>]
  /\ held' = {}
  /\ result' = "nomem"
  /\ UNCHANGED <<params, next, ops>>

-----------------------------------------------------------------------------
Param == params[next]
Text == Decode(Param.text)
Ignored == {"custom", "mode", "search_mode"}
Settings == {"sort", "page", "per_page", "q"}

Parsing == result = "running" /\ next <= Len(params)
Named(names) == Parsing /\ Param.text # NULL /\ ~Param.override /\ Param.name \in names
Advance == next' = next + 1 /\ UNCHANGED <<params, result>>

SkipParam ==
  /\ Parsing
  /\ \/ Param.text = NULL
     \/ Named(Ignored)
     \/ ~Param.override /\ Param.name \notin Settings \cup {"include"} /\ Text = ""
  /\ Advance
  /\ UNCHANGED <<ops, out, held>>

(* "<field>_op" is consumed whatever it says, and recorded when it says    *)
(* "and" or "or" and there is room.                                        *)
RecordOverride ==
  /\ Parsing /\ Param.text # NULL /\ Param.override
  /\ ops' = IF Text \in {"and", "or"} /\ Len(ops) < MaxOps
            THEN Append(ops, [field |-> Param.name, op |-> Text]) ELSE ops
  /\ Advance
  /\ UNCHANGED <<out, held>>

(* The direction is written only when there is a ":".                      *)
Ascends(spec) == spec.dir # "desc"
WithSort(query, spec) ==
  [query EXCEPT !.sort_field = spec.field,
                !.sort_asc = IF spec.dir = NULL THEN @ ELSE Ascends(spec)]

Setting ==
  /\ Named(Settings)
  /\ out' = CASE Param.name = "sort"     -> WithSort(out, SortSpec(Text))
              [] Param.name = "page"     -> [out EXCEPT !.page = Atol(Text) % 2 ^ Width]
              [] Param.name = "per_page" -> [out EXCEPT !.per_page = Atol(Text) % 2 ^ Width]
              [] OTHER                   -> [out EXCEPT !.q = Text]
  /\ Advance
  /\ UNCHANGED <<ops, held>>

(* Each piece is decoded once more.                                        *)
Include ==
  /\ Named({"include"})
  /\ \/ /\ out' = [out EXCEPT !.include =
                     @ \o [k \in DOMAIN Pieces(Text) |-> Decode(Pieces(Text)[k])]]
        /\ held' = held \cup {"include"}
        /\ Advance /\ UNCHANGED ops
     \/ OutOfMemory

Filter ==
  /\ Parsing /\ Param.text # NULL /\ ~Param.override
  /\ Param.name \notin Settings \cup Ignored \cup {"include"}
  /\ Text # ""
  /\ \/ /\ out' = [out EXCEPT !.filters =
                     Append(@, [field |-> Param.name, value |-> Text, op |-> NULL])]
        /\ held' = held \cup {"filters"}
        /\ Advance /\ UNCHANGED ops
     \/ OutOfMemory

(* Mutant: the first override of a field stays.                            *)
FirstOp(field) ==
  LET of == { j \in DOMAIN ops : ops[j].field = field }
  IN IF of = {} THEN NULL ELSE ops[CHOOSE j \in of : \A k \in of : j <= k].op

(* The overrides, in the order they came: the last one of a field stays.   *)
LastOp(field) ==
  LET of == { j \in DOMAIN ops : ops[j].field = field }
  IN IF of = {} THEN NULL ELSE ops[CHOOSE j \in of : \A k \in of : k <= j].op

Finish ==
  /\ result = "running" /\ next > Len(params)
  /\ out' = [out EXCEPT !.filters =
               [k \in DOMAIN @ |-> [field |-> @[k].field, value |-> @[k].value,
                                    op |-> LastOp(@[k].field)]]]
  /\ held' = held \ {"names", "values"}
  /\ result' = "ok"
  /\ UNCHANGED <<params, next, ops>>

(* hyle_query_clear, called by the owner of the query.                     *)
QueryClear ==
  /\ result \in {"ok", "nomem"}
  /\ out' = [out EXCEPT !.filters = <<>>, !.include = <<>>]
  /\ held' = held \ {"filters", "include"}
  /\ result' = "cleared"
  /\ UNCHANGED <<params, next, ops>>

ParseNext ==
  \/ Start \/ SkipParam \/ RecordOverride \/ Setting \/ Include \/ Filter
  \/ Finish \/ QueryClear

ParseSpec == ParseInit /\ [][ParseNext]_parseVars

-----------------------------------------------------------------------------
(* "Apply _op overrides to matching filters (last-wins, order-independent)" *)
(* An override reaches every filter on its field, before or after it in    *)
(* the query string, and of several the last one counts.                   *)
Overrides(f) ==
  { k \in DOMAIN params :
      /\ params[k].override /\ params[k].name = f /\ params[k].text # NULL
      /\ Decode(params[k].text) \in {"and", "or"} }

OverridesFit ==
  Cardinality({ k \in DOMAIN params : k \in Overrides(params[k].name) }) <= MaxOps

OverridesReachFilters ==
  result = "ok" /\ OverridesFit =>
    \A n \in DOMAIN out.filters :
      LET last == Overrides(out.filters[n].field)
      IN IF last = {} THEN out.filters[n].op = NULL
         ELSE \E k \in last : /\ \A j \in last : j <= k
                              /\ out.filters[n].op = Decode(params[k].text)

(* "Caller must call hyle_query_clear() to free them": when the call       *)
(* returns, its own tables are freed, the query holds its arrays and       *)
(* nothing else, after a failure none, and after a clear nothing is left.  *)
OnlyTheQueryHoldsMemory ==
  /\ result = "ok" => held = (IF out.filters # <<>> THEN {"filters"} ELSE {})
                              \cup (IF out.include # <<>> THEN {"include"} ELSE {})
  /\ result \in {"nomem", "cleared"} =>
       held = {} /\ out.filters = <<>> /\ out.include = <<>>
=============================================================================
