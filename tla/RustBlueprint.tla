---------------------------- MODULE RustBlueprint ----------------------------
(***************************************************************************)
(* The blueprint of the Rust crate: planning a query (manifest), resolving *)
(* it against the rows that were fetched (resolve), the columns of the     *)
(* view, and the text of a value (display_value).                          *)
(*                                                                         *)
(* A blueprint maps model names to models; a model is the sequence of its  *)
(* fields, each a name and a type; types and values are records with a     *)
(* kind.  A source maps the names of fetched models to [rows, one], rows   *)
(* being a sequence of maps from field names to values.  A displayed text  *)
(* is the sequence of the texts it is put together from, in their order.   *)
(* Types and values nest; the two recursions over them are functions of    *)
(* how many levels are left.                                               *)
(***************************************************************************)
EXTENDS SequencesExt, FiniteSets, Integers

CONSTANTS
  FieldTypes,   \* the types of fields, and those they are made of
  FieldValues,  \* the values of fields, and those they are made of
  MaxNesting,   \* bound: the levels of a type
  RawTexts(_)   \* value_to_display_text: a value as it is

Null == [kind |-> "null"]
Text(t) == [kind |-> "text", text |-> t]

Get(f, key, default) == IF key \in DOMAIN f THEN f[key] ELSE default
IndexOf(s, x) == CHOOSE i \in DOMAIN s : s[i] = x

FieldNames(model) == [i \in DOMAIN model |-> model[i].name]
HasField(model, name) == \E i \in DOMAIN model : model[i].name = name
TypeOf(model, name) == model[IndexOf(FieldNames(model), name)].type

Error(kind) == [error |-> kind]
Failed(answer) == "error" \in DOMAIN answer

-----------------------------------------------------------------------------
(* collect_references: the models a field refers to, per way of loading,   *)
(* or none of them and an error.                                           *)
Loads(lookups, inlines, unknown) ==
  [lookups |-> lookups, inlines |-> inlines, unknown |-> unknown]

Together(loads) ==
  Loads(UNION { l.lookups : l \in loads }, UNION { l.inlines : l \in loads },
        \E l \in loads : l.unknown)

(* Mutant: the items of an array are not looked at.                        *)
InsideOfShapes(type, need) ==
  IF type.kind = "shape"
  THEN { [type |-> type.fields[i].type, need |-> need] : i \in DOMAIN type.fields }
  ELSE {}

(* The types that a type is made of, and whether they have to be loaded:   *)
(* the items of an array always, those of a shape as the shape.            *)
Inside(type, need) ==
  IF type.kind = "shape"
  THEN { [type |-> type.fields[i].type, need |-> need] : i \in DOMAIN type.fields }
  ELSE IF type.kind = "array" THEN { [type |-> type.item, need |-> TRUE] }
  ELSE {}

ASSUME NestingAssumption ==
  /\ MaxNesting \in Nat
  /\ \A type \in FieldTypes :
       /\ \A inner \in Inside(type, TRUE) : inner.type \in FieldTypes
       /\ type.kind = "shape" => type.fields \in Seq(Range(type.fields))
  /\ ~\E chain \in [0 .. MaxNesting -> FieldTypes] :
        \A n \in 1 .. MaxNesting :
          \E inner \in Inside(chain[n - 1], TRUE) : inner.type = chain[n]
  /\ Null \in FieldValues /\ RawTexts(Null) = <<>>
  /\ \A value \in FieldValues :
       /\ RawTexts(value) \in Seq(Range(RawTexts(value)))
       /\ value.kind = "array" =>
            value.items \in Seq(Range(value.items)) /\ Range(value.items) \subseteq FieldValues
       /\ value.kind = "map" =>
            \A i \in DOMAIN value.entries : value.entries[i].value \in FieldValues

(* One level of collect_references; below has the answers of those inside. *)
ReferencesOf(blueprint, below, type, need) ==
  IF type.kind # "reference"
  THEN Together({ below[inner.type][inner.need] : inner \in Inside(type, need) })
  ELSE IF type.entity \notin DOMAIN blueprint THEN Loads({}, {}, TRUE)
  ELSE IF need THEN Loads({type.entity}, {}, FALSE)
  ELSE Loads({}, {type.entity}, FALSE)

CollectReferences(blueprint) ==
  LET collect[n \in 0 .. MaxNesting] ==
        [type \in FieldTypes |-> [need \in BOOLEAN |->
           IF n = 0 THEN Together({}) ELSE ReferencesOf(blueprint, collect[n - 1], type, need)]]
  IN collect[MaxNesting]

(* Blueprint::manifest.  filters is the layout of filter fields, a         *)
(* sequence of lines; the conditions, page and sort of a query pass        *)
(* through unlooked at.                                                    *)
FilterFields(query) == UNION { Range(query.filters[i]) : i \in DOMAIN query.filters }

Selected(model, query) == IF query.select = <<>> THEN FieldNames(model) ELSE query.select

PlanOf(blueprint, query) ==
  LET model  == blueprint[query.model]
      fields == Selected(model, query)
      asked  == FilterFields(query)
      loads  == Together({ CollectReferences(blueprint)[TypeOf(model, f)][(f \in asked)] :
                             f \in Range(fields) \cup asked })
  IN CASE fields = <<>> -> Error("EmptySelection")
       [] \E f \in Range(fields) \cup asked : ~HasField(model, f) -> Error("UnknownField")
       [] loads.unknown -> Error("UnknownReference")
       [] OTHER -> [base |-> query.model, fields |-> fields, method |-> query.method,
                    filter_fields |-> query.filters,
                    lookups |-> loads.lookups, inlines |-> loads.inlines]

ManifestOf(blueprint, query) ==
  IF query.model \notin DOMAIN blueprint THEN Error("UnknownModel")
  ELSE PlanOf(blueprint, query)

-----------------------------------------------------------------------------
(* value_to_lookup_key: the key of a text (or of a number, as its text),   *)
(* in a set; other values have none.                                       *)
LookupKeys(value) == IF value.kind = "text" THEN {value.text} ELSE {}

(* rows_by_id: a row without an id is not there to be looked up, and the   *)
(* last row of an id wins.                                                 *)
RowsById(rows) ==
  LET keys(i) == LookupKeys(Get(rows[i], "id", Null))
      last(k) == CHOOSE i \in DOMAIN rows :
                   k \in keys(i) /\ \A j \in DOMAIN rows : k \in keys(j) => j <= i
  IN [k \in UNION { keys(i) : i \in DOMAIN rows } |-> rows[last(k)]]

(* Blueprint::resolve *)
Resolved(manifest, source) ==
  IF manifest.base \notin DOMAIN source THEN Error("MissingBaseModel")
  ELSE [rows |-> source[manifest.base].rows, one |-> source[manifest.base].one,
        lookups |-> [m \in (manifest.lookups \cup manifest.inlines) \cap DOMAIN source |->
                       RowsById(source[m].rows)]]

(* derive_columns: the fields of the manifest as the blueprint has them.   *)
DeriveColumns(blueprint, manifest) ==
  IF manifest.base \notin DOMAIN blueprint THEN Error("UnknownModel")
  ELSE LET model == blueprint[manifest.base]
       IN IF \E f \in Range(manifest.fields) : ~HasField(model, f)
          THEN Error("UnknownField")
          ELSE [columns |-> [i \in DOMAIN manifest.fields |->
                  [key |-> manifest.fields[i], type |-> TypeOf(model, manifest.fields[i])]]]

(* resolve_and_view of the WebAssembly module, and is_single.              *)
ResolveAndView(blueprint, manifest, source) ==
  LET outcome == Resolved(manifest, source)
      columns == DeriveColumns(blueprint, manifest)
  IN IF Failed(outcome) THEN outcome
     ELSE IF Failed(columns) THEN columns
     ELSE [outcome |-> outcome, columns |-> columns.columns,
           single  |-> manifest.method = "one" \/ outcome.one]

-----------------------------------------------------------------------------
(* A reference shows the display field of the row it names, when that row  *)
(* was loaded and has the field, and else what is stored.                  *)
ShowReference(outcome, type, value) ==
  LET lookup == Get(outcome.lookups, type.entity, <<>>)
      found  == LookupKeys(value) \cap DOMAIN lookup
      row    == lookup[CHOOSE key \in found : TRUE]
  IN IF found # {} /\ type.display_field \in DOMAIN row
     THEN RawTexts(row[type.display_field]) ELSE RawTexts(value)

Entry(value, name) ==
  LET found == { i \in DOMAIN value.entries : value.entries[i].name = name }
  IN IF found = {} THEN Null ELSE value.entries[CHOOSE i \in found : TRUE].value

(* display_value_for_type: one level, and the whole.                       *)
ShowInside(outcome, below, type, value) ==
  IF type.kind = "reference" THEN ShowReference(outcome, type, value)
  ELSE IF type.kind = "array" /\ value.kind = "array"
  THEN FlattenSeq([i \in DOMAIN value.items |-> below[type.item][value.items[i]]])
  ELSE IF type.kind = "shape" /\ value.kind = "map"
  THEN FlattenSeq([i \in DOMAIN type.fields |->
         LET sub == Entry(value, type.fields[i].name)
         IN IF sub = Null THEN <<>>
            ELSE <<type.fields[i].name>> \o below[type.fields[i].type][sub]])
  ELSE RawTexts(value)

ShowValue(outcome) ==
  LET show[n \in 0 .. MaxNesting] ==
        [type \in FieldTypes |-> [value \in FieldValues |->
           IF n = 0 THEN <<>> ELSE ShowInside(outcome, show[n - 1], type, value)]]
  IN show[MaxNesting]

(* display_value *)
DisplayValue(blueprint, outcome, model, name, value) ==
  IF value = Null THEN <<>>
  ELSE IF model \notin DOMAIN blueprint THEN RawTexts(value)
  ELSE IF ~HasField(blueprint[model], name) THEN RawTexts(value)
  ELSE ShowValue(outcome)[TypeOf(blueprint[model], name)][value]

-----------------------------------------------------------------------------
(* forma_to_query: the fields of a context that the forma has, in the      *)
(* order of the context; without a list, every field.                      *)
FormaToQuery(forma, table, context, id) ==
  LET known(n) == n \in Range(forma.fields)
  IN [model   |-> table,
      select  |-> IF context \in DOMAIN forma.contexts
                  THEN SelectSeq(forma.contexts[context], known)
                  ELSE forma.fields,
      filters |-> forma.filters,
      method  |-> IF id = Null THEN "many" ELSE "one"]
=============================================================================
