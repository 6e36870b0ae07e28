----------------------------- MODULE HyleClient -----------------------------
(***************************************************************************)
(* The parts of a program that share one client: each loads it, plans a    *)
(* query with the blueprint of the moment, fetches the models the manifest *)
(* names one after the other, resolves and shows the view.  The blueprint  *)
(* and the rows belong to the program, which may replace them at any time. *)
(***************************************************************************)
EXTENDS WasmLoader, RustBlueprint

CONSTANTS
  Viewer,       \* the callers of load that show views
  Blueprints,   \* the blueprints the program uses
  Worlds,       \* what its providers hold: model -> [rows, one]
  Asks          \* what views ask for: queries, and formas with a context

VARIABLES
  blueprint,    \* the blueprint of now
  world,        \* the rows of now
  screen        \* per viewer: how far its view is

clientVars == <<blueprint, world, screen>>
programVars == <<loaderVars, clientVars>>

ASSUME HyleClientAssumption ==
  /\ Viewer \subseteq Caller
  /\ \A b \in Blueprints : \A m \in DOMAIN b :
       \A i \in DOMAIN b[m] : b[m][i].type \in FieldTypes
  /\ \A w \in Worlds : \A m \in DOMAIN w :
       /\ w[m].rows \in Seq(Range(w[m].rows))
       /\ \A r \in DOMAIN w[m].rows : Range(w[m].rows[r]) \subseteq FieldValues

Away == [state |-> "away"]
Broken(error) == [state |-> "failed", error |-> error]

ClientInit ==
  /\ LoaderInit
  /\ blueprint \in Blueprints /\ world \in Worlds
  /\ screen = [c \in Viewer |-> Away]

LoaderStep(A) == A /\ UNCHANGED clientVars

-----------------------------------------------------------------------------
Shows(c, s) ==
  /\ screen' = [screen EXCEPT ![c] = s]
  /\ UNCHANGED <<loaderVars, blueprint, world>>

QueryOf(ask) ==
  IF "forma" \in DOMAIN ask
  THEN FormaToQuery(ask.forma, ask.model, ask.context, ask.id) ELSE ask

(* manifest() of the client, of a viewer that waits for no load: it may    *)
(* not have called load at all.                                            *)
Plan(c, ask) ==
  /\ caller[c] # "waiting" /\ screen[c] = Away
  /\ LET manifest == ManifestOf(blueprint, QueryOf(ask))
     IN Shows(c, IF ~IsReady THEN Broken("NotReady")
                 ELSE IF Failed(manifest) THEN Broken("NoManifest")
                 ELSE [state |-> "planned", manifest |-> manifest,
                       source |-> <<>>, planned |-> blueprint])

Wanted(manifest) == {manifest.base} \cup manifest.lookups \cup manifest.inlines

(* The provider of a model that the manifest names answers.                *)
Fetch(c, m) ==
  /\ screen[c].state = "planned"
  /\ m \in (Wanted(screen[c].manifest) \cap DOMAIN world) \ DOMAIN screen[c].source
  /\ Shows(c, [screen[c] EXCEPT !.source =
                 [n \in DOMAIN @ \cup {m} |-> IF n = m THEN world[m] ELSE @[n]]])

(* resolveAndView() on what was fetched: some providers may have failed.   *)
Show(c) ==
  /\ screen[c].state = "planned"
  /\ LET s    == screen[c]
         view == ResolveAndView(blueprint, s.manifest, s.source)
     IN Shows(c, IF ~Failed(view)
                 THEN [state |-> "shown", manifest |-> s.manifest, source |-> s.source,
                       steady |-> s.planned = blueprint, planned |-> s.planned,
                       view |-> view]
                 ELSE IF s.planned = blueprint /\ s.manifest.base \in DOMAIN s.source
                 THEN Broken("PlanNotShown") ELSE Broken("NoView"))

Leave(c) ==
  /\ screen[c].state \in {"shown", "failed"}
  /\ Shows(c, Away)

Replace ==
  /\ blueprint' \in Blueprints /\ world' \in Worlds
  /\ <<blueprint, world>>' # <<blueprint, world>>
  /\ UNCHANGED <<loaderVars, screen>>

ClientNext ==
  \/ LoaderStep(Settle)
  \/ \E c \in Caller : LoaderStep(Load(c) \/ LoadThrows(c) \/ Resume(c))
  \/ \E c \in Viewer :
       \/ \E ask \in Asks : Plan(c, ask)
       \/ \E m \in DOMAIN world : Fetch(c, m)
       \/ Show(c)
       \/ Leave(c)
  \/ Replace

(* The event loop runs the reactions of a promise that is settled, and the *)
(* module arrives and is initialised, or does not, in finite time.         *)
Fairness ==
  /\ WF_programVars(LoaderStep(Settle))
  /\ \A c \in Caller : WF_programVars(LoaderStep(Resume(c)))

ClientSpec == ClientInit /\ [][ClientNext]_programVars /\ Fairness

-----------------------------------------------------------------------------
(* What a value of a type is shown from: names of fields, and values that  *)
(* are not walked into, references among them.                             *)
LeavesInside(below, type, value) ==
  IF type.kind = "array" /\ value.kind = "array"
  THEN UNION { below[type.item][value.items[i]] : i \in DOMAIN value.items }
  ELSE IF type.kind = "shape" /\ value.kind = "map"
  THEN UNION { LET sub == Entry(value, type.fields[i].name)
               IN IF sub = Null THEN {}
                  ELSE {[name |-> type.fields[i].name]} \cup below[type.fields[i].type][sub] :
               i \in DOMAIN type.fields }
  ELSE {[type |-> type, value |-> value]}

Leaves ==
  LET leaves[n \in 0 .. MaxNesting] ==
        [type \in FieldTypes |-> [value \in FieldValues |->
           IF n = 0 THEN {} ELSE LeavesInside(leaves[n - 1], type, value)]]
  IN leaves[MaxNesting]

IsReference(leaf) == "type" \in DOMAIN leaf /\ leaf.type.kind = "reference"

(* What the last of the fetched rows with the id of a reference shows.     *)
DisplayFields(source, leaf) ==
  LET rows  == IF leaf.type.entity \in DOMAIN source THEN source[leaf.type.entity].rows ELSE <<>>
      keys  == LookupKeys(leaf.value)
      named == { i \in DOMAIN rows : keys # {} /\ LookupKeys(Get(rows[i], "id", Null)) = keys }
  IN { rows[i][leaf.type.display_field] :
         i \in { j \in named : /\ \A k \in named : k <= j
                               /\ leaf.type.display_field \in DOMAIN rows[j] } }

TextsOf(source, leaf) ==
  IF "name" \in DOMAIN leaf THEN {leaf.name}
  ELSE IF IsReference(leaf) /\ DisplayFields(source, leaf) # {}
  THEN UNION { Range(RawTexts(value)) : value \in DisplayFields(source, leaf) }
  ELSE Range(RawTexts(leaf.value))

(* What was planned can be shown: with the blueprint of the plan and the   *)
(* rows of the base model resolve_and_view gives a view.  While that       *)
(* blueprint is used no reference in the view, however deep in lists and   *)
(* shapes, is of a model that the manifest did not name, and one whose row *)
(* was fetched shows what that row displays, never the bare id; nothing    *)
(* else is shown, and nothing left out.                                    *)
PlannedViewShowsNames ==
  \A c \in Viewer :
    /\ screen[c].state = "failed" => screen[c].error # "PlanNotShown"
    /\ screen[c].state = "shown" /\ screen[c].steady /\ screen[c].planned = blueprint =>
         \A i \in DOMAIN screen[c].view.columns, r \in DOMAIN screen[c].view.outcome.rows :
           LET s      == screen[c]
               column == s.view.columns[i]
               value  == Get(s.view.outcome.rows[r], column.key, Null)
               shown  == DisplayValue(blueprint, s.view.outcome, s.manifest.base,
                                      column.key, value)
               leaves == Leaves[column.type][value]
           IN /\ \A leaf \in leaves : IsReference(leaf) =>
                   leaf.type.entity \in s.manifest.lookups \cup s.manifest.inlines
              /\ Range(shown) = UNION { TextsOf(s.source, leaf) : leaf \in leaves }
=============================================================================
