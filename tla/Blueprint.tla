----------------------------- MODULE Blueprint ------------------------------
(***************************************************************************)
(* hyle_blueprint_manifest on a query that hyle_parse_query has parsed:    *)
(* the filters, the included fields, the sort field and the lookups, one   *)
(* name per step, and hyle_manifest_clear.                                 *)
(*                                                                         *)
(* The program keeps the query string while it uses either structure, and  *)
(* clears the query and the manifest in any order.                         *)
(***************************************************************************)
EXTENDS QueryParse

CONSTANTS
  Sources,       \* the blueprint: a sequence of schemas [id, fields], a field
                 \* being [name, reference, target]; target may be NULL
  SourceIds      \* the sources a program asks for

ASSUME BlueprintAssumption ==
  \A n \in DOMAIN Sources : \A k \in DOMAIN Sources[n].fields :
    Sources[n].fields[k].reference \in BOOLEAN

VARIABLES
  stage,         \* the loop the call is in, or how it returned
  at,            \* where the loop is
  source_id,     \* the source the call is for
  manifest,      \* the hyle_manifest_t
  manifestHeld   \* its blocks of memory

manifestVars == <<stage, at, source_id, manifest, manifestHeld>>

NoManifest == [base_source |-> NULL, filter_list |-> <<>>, select |-> <<>>,
               lookups |-> <<>>, inlines |-> <<>>, sort_field |-> NULL,
               sort_asc |-> FALSE, query |-> NULL, page |-> 0, per_page |-> 0]

BlueprintInit ==
  /\ ParseInit
  /\ stage = "none" /\ at = 1 /\ source_id = NULL
  /\ manifest = NoManifest /\ manifestHeld = {}

(* The first entry with a key, or NULL.                                    *)
FirstOf(entries) == IF entries = <<>> THEN NULL ELSE Head(entries)
SourceById(id) == FirstOf(SelectSeq(Sources, LAMBDA schema : schema.id = id))
FieldIn(id, name) == FirstOf(SelectSeq(SourceById(id).fields, LAMBDA f : f.name = name))
FieldByName(name) == FieldIn(source_id, name)

-----------------------------------------------------------------------------
(* Mutant: the manifest is not cleared.                                    *)
ManifestFailKeeping(how) ==
  /\ stage' = how
  /\ UNCHANGED <<at, source_id, manifest, manifestHeld>>

(* hyle_manifest_clear, and -1 is returned.                                *)
ManifestFail(how) ==
  /\ stage' = how
  /\ manifest' = NoManifest /\ manifestHeld' = {}
  /\ UNCHANGED <<at, source_id>>

ManifestCall(id) ==
  /\ result = "ok" /\ stage = "none"
  /\ source_id' = id
  /\ at' = 1
  /\ IF SourceById(id) = NULL
     THEN stage' = "unknown" /\ UNCHANGED manifest
     ELSE stage' = "filters" /\ manifest' = [manifest EXCEPT !.base_source = id]
  /\ UNCHANGED manifestHeld

To(loop) == stage' = loop /\ at' = 1 /\ UNCHANGED source_id
NextName == at' = at + 1 /\ UNCHANGED <<stage, source_id>>

(* Mutant: a filter on an unknown field is passed over.                    *)
ManifestFilterLenient ==
  /\ stage = "filters" /\ at <= Len(out.filters)
  /\ LET f == FieldByName(out.filters[at].field)
     IN manifest' = IF f = NULL THEN manifest
          ELSE [manifest EXCEPT !.filter_list =
                 Append(@, [field |-> out.filters[at].field, value |-> out.filters[at].value,
                            is_reference |-> f.reference])]
  /\ manifestHeld' = manifestHeld \cup {"filter_list"}
  /\ NextName

(* The array is allocated before the first filter; when that fails the     *)
(* manifest keeps its base_source, and no memory.                          *)
ManifestFilter ==
  /\ stage = "filters" /\ at <= Len(out.filters)
  /\ LET filter == out.filters[at]
         f == FieldByName(filter.field)
     IN \/ /\ f # NULL
           /\ manifest' = [manifest EXCEPT !.filter_list =
                Append(@, [field |-> filter.field, value |-> filter.value,
                           is_reference |-> f.reference])]
           /\ manifestHeld' = manifestHeld \cup {"filter_list"}
           /\ NextName
        \/ f = NULL /\ ManifestFail("unknown")
        \/ /\ at = 1 /\ AllocFails
           /\ stage' = "nomem"
           /\ UNCHANGED <<at, source_id, manifest, manifestHeld>>

ManifestFiltersEnd ==
  /\ stage = "filters" /\ at > Len(out.filters)
  /\ To("include")
  /\ UNCHANGED <<manifest, manifestHeld>>

(* Mutant: a target is compared with the last one only.                    *)
AddTargetToLast(targets, target) ==
  IF targets # <<>> /\ targets[Len(targets)] = target THEN targets ELSE Append(targets, target)

AddTarget(targets, target) ==
  IF Contains(targets, target) THEN targets ELSE Append(targets, target)

(* A target that is not there yet needs memory.                            *)
NeedsTarget(f, targets) == f.reference /\ f.target # NULL /\ ~Contains(targets, f.target)

ManifestInclude ==
  /\ stage = "include" /\ at <= Len(out.include)
  /\ LET f == FieldByName(out.include[at])
     IN \/ /\ f # NULL
           /\ manifest' = [manifest EXCEPT
                !.select = Append(@, out.include[at]),
                !.inlines = IF f.reference /\ f.target # NULL
                            THEN AddTarget(@, f.target) ELSE @]
           /\ manifestHeld' = manifestHeld \cup {"select"}
                \cup (IF NeedsTarget(f, manifest.inlines) THEN {"inlines"} ELSE {})
           /\ NextName
        \/ f = NULL /\ ManifestFail("unknown")
        \/ /\ AllocFails
           /\ at = 1 \/ (f # NULL /\ NeedsTarget(f, manifest.inlines))
           /\ ManifestFail("nomem")

(* The sort field and the other settings, after the last included field.   *)
ManifestSettings ==
  /\ stage = "include" /\ at > Len(out.include)
  /\ \/ /\ out.sort_field # NULL /\ FieldByName(out.sort_field) = NULL
        /\ ManifestFail("unknown")
     \/ /\ out.sort_field = NULL \/ FieldByName(out.sort_field) # NULL
        /\ manifest' = [manifest EXCEPT
             !.sort_field = out.sort_field,
             !.sort_asc = IF out.sort_field = NULL THEN @ ELSE out.sort_asc,
             !.query = out.q, !.page = out.page, !.per_page = out.per_page]
        /\ To("lookups")
        /\ UNCHANGED manifestHeld

ManifestLookup ==
  /\ stage = "lookups" /\ at <= Len(manifest.filter_list)
  /\ LET f == FieldByName(manifest.filter_list[at].field)
         referring == manifest.filter_list[at].is_reference /\ f.target # NULL
     IN \/ ~referring /\ NextName /\ UNCHANGED <<manifest, manifestHeld>>
        \/ /\ referring
           /\ manifest' = [manifest EXCEPT !.lookups = AddTarget(@, f.target)]
           /\ manifestHeld' = manifestHeld \cup {"lookups"}
           /\ NextName
        \/ AllocFails /\ NeedsTarget(f, manifest.lookups) /\ ManifestFail("nomem")

ManifestReturn ==
  /\ stage = "lookups" /\ at > Len(manifest.filter_list)
  /\ To("ok")
  /\ UNCHANGED <<manifest, manifestHeld>>

Returned == stage \in {"ok", "unknown", "nomem"}

(* hyle_manifest_clear, called by the owner of the manifest.               *)
ManifestClear ==
  /\ Returned
  /\ To("none")
  /\ manifest' = NoManifest /\ manifestHeld' = {}

ManifestNext ==
  \/ \E id \in SourceIds : ManifestCall(id)
  \/ ManifestFilter \/ ManifestFiltersEnd \/ ManifestInclude \/ ManifestSettings
  \/ ManifestLookup \/ ManifestReturn \/ ManifestClear

(* A call of one of the two functions does not interrupt the other.        *)
BlueprintNext ==
  \/ (stage = "none" \/ Returned) /\ ParseNext /\ UNCHANGED manifestVars
  \/ ManifestNext /\ UNCHANGED parseVars

BlueprintSpec == BlueprintInit /\ [][BlueprintNext]_<<parseVars, manifestVars>>

-----------------------------------------------------------------------------
(* What the query string asks for.                                         *)
IsFilter(param) ==
  /\ ~param.override /\ param.text # NULL
  /\ param.name \notin Settings \cup Ignored \cup {"include"}
  /\ Decode(param.text) # ""

AskedUpTo(query) ==
  LET asked[n \in 0 .. Len(query)] ==
        IF n = 0 THEN <<>>
        ELSE IF IsFilter(query[n]) THEN Append(asked[n - 1], query[n])
        ELSE asked[n - 1]
  IN asked

AskedFilters == AskedUpTo(params)[Len(params)]

IncludesOf(param) ==
  IF param.name = "include" /\ ~param.override /\ param.text # NULL
  THEN LET pieces == Pieces(Decode(param.text))
       IN [j \in DOMAIN pieces |-> Decode(pieces[j])]
  ELSE <<>>

IncludesUpTo(query) ==
  LET included[n \in 0 .. Len(query)] ==
        IF n = 0 THEN <<>> ELSE included[n - 1] \o IncludesOf(query[n])
  IN included

AskedIncludes == IncludesUpTo(params)[Len(params)]

IsSetting(param, name) == param.name = name /\ ~param.override /\ param.text # NULL
IsSort(param) == IsSetting(param, "sort")
Given(name) == { k \in DOMAIN params : IsSetting(params[k], name) }

(* Of several parameters of a name the last counts; but a sort without a   *)
(* direction leaves the direction of the one before it.                    *)
LastOf(places) == CHOOSE k \in places : \A j \in places : j <= k
LastText(query, places) ==
  IF places = {} THEN NULL ELSE Decode(query[LastOf(places)].text)
LastNumber(query, places) ==
  IF places = {} THEN 0 ELSE Atol(Decode(query[LastOf(places)].text)) % 2 ^ Width
LastSort(query, sorts) ==
  IF sorts = {} THEN NULL ELSE SortSpec(Decode(query[LastOf(sorts)].text)).field

Directed(query, sorts) == { k \in sorts : SortSpec(Decode(query[k].text)).dir # NULL }
LastDir(query, sorts) ==
  IF Directed(query, sorts) = {} THEN TRUE
  ELSE Ascends(SortSpec(Decode(query[LastOf(Directed(query, sorts))].text)))

AskedSort == LastSort(params, Given("sort"))
AskedSettings ==
  [sort_field |-> AskedSort,
   sort_asc   |-> AskedSort # NULL /\ LastDir(params, Given("sort")),
   query      |-> LastText(params, Given("q")),
   page       |-> LastNumber(params, Given("page")),
   per_page   |-> LastNumber(params, Given("per_page"))]

Known(name) == FieldByName(name) # NULL

EveryNameIsKnown ==
  /\ \A n \in DOMAIN AskedFilters : Known(AskedFilters[n].name)
  /\ \A n \in DOMAIN AskedIncludes : Known(AskedIncludes[n])
  /\ AskedSort = NULL \/ Known(AskedSort)

(* "Finds the schema in bp that matches source_id and copies the query's   *)
(* filter, sort, page and include settings into out": the manifest has     *)
(* the filters and the included fields of the query string in their order, *)
(* its last sort, page, per_page and q, whatever is cleared in between;    *)
(* and a call that has memory fails exactly when the source or a name in   *)
(* the query string is unknown.  The "<field>_op" overrides stay behind: a *)
(* filter of a manifest has no operator.                                   *)
ManifestAnswersTheQueryString ==
  /\ stage = "unknown" => SourceById(source_id) = NULL \/ ~EveryNameIsKnown
  /\ stage = "ok" =>
       /\ EveryNameIsKnown
       /\ manifest.select = AskedIncludes
       /\ \A part \in DOMAIN AskedSettings : manifest[part] = AskedSettings[part]
       /\ manifest.filter_list =
            [n \in DOMAIN AskedFilters |->
               [field |-> AskedFilters[n].name, value |-> Decode(AskedFilters[n].text),
                is_reference |-> FieldByName(AskedFilters[n].name).reference]]

(* "Reference filters register their target source in lookups; reference   *)
(* includes register their target source in inlines": every such target    *)
(* is there, once, and no other.                                           *)
Targets(names) ==
  { FieldByName(n).target : n \in { n \in names : FieldByName(n).reference } } \ {NULL}

ManifestLoadsWhatIsReferenced ==
  stage = "ok" =>
    /\ ToSet(manifest.lookups) = Targets({ AskedFilters[n].name : n \in DOMAIN AskedFilters })
    /\ ToSet(manifest.inlines) = Targets(ToSet(AskedIncludes))
    /\ IsInjective(manifest.lookups) /\ IsInjective(manifest.inlines)

(* A call that returns -1 leaves nothing to free, whichever allocation     *)
(* failed; one that returns 0 leaves the arrays the manifest uses, which   *)
(* hyle_manifest_clear frees.  Nor does the parser leave anything but what *)
(* the query holds.                                                        *)
OnlyResultsHoldMemory ==
  /\ OnlyTheQueryHoldsMemory
  /\ stage \in {"none", "unknown", "nomem"} => manifestHeld = {}
  /\ stage = "ok" =>
       manifestHeld = { array \in {"filter_list", "select", "lookups", "inlines"} :
                          manifest[array] # <<>> }
=============================================================================
