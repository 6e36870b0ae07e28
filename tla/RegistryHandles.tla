--------------------------- MODULE RegistryHandles ---------------------------
(***************************************************************************)
(* The corm handles of the source registry: the maps a registered source   *)
(* owns, those a query opens on the way and the one it hands to its        *)
(* caller.  A handle is a number; a number that was closed is given out    *)
(* again, so a stale number may come to name a map of somebody else.       *)
(***************************************************************************)
EXTENDS Naturals, FiniteSets

CONSTANTS
  Source,       \* source ids
  MaxEntries,   \* HYLE_REGISTRY_MAX
  MaxHandle,    \* bound: the numbers corm_open can return
  MaxResults,   \* bound: row sets the callers hold at a time
  Fresh(_),     \* the number corm_open returns when these are open
  OpenFails     \* TRUE when corm_open may return 0

Handle == 1 .. MaxHandle
None == 0

ASSUME RegistryHandlesAssumption ==
  /\ MaxEntries \in Nat
  /\ MaxHandle \in Nat
  /\ MaxResults \in Nat
  /\ OpenFails \in BOOLEAN
  /\ \A o \in SUBSET Handle : o # Handle => Fresh(o) \in Handle \ o

VARIABLES
  registered,   \* the sources that have an entry
  entry,        \* the handles of each entry
  open,         \* the handles that are open
  call,         \* the query in progress
  results,      \* the row sets that callers hold
  stale         \* some registration failed on its fields map (history)

vars == <<registered, entry, open, call, results, stale>>

MapNames == {"row_hd", "fields_hd", "tokens_hd", "order_hd", "loaded_hd"}
Temporaries == {"fts_hd", "pre_hd", "q_hd", "filtered_hd", "sorted_hd"}
Stages == {"idle", "fts", "multi_ref", "q", "filter", "sort", "page"}

NoTemporaries == [t \in Temporaries |-> None]
Idle == [stage |-> "idle", source |-> None, tmp |-> NoTemporaries]

Init ==
  /\ registered = {}
  /\ entry = [s \in Source |-> [m \in MapNames |-> None]]
  /\ open = {}
  /\ call = Idle
  /\ results = {}
  /\ stale = FALSE

(* Mutant: the 0 of a failed open is taken for a handle.                   *)
WithZero(o, h) == o \cup {h}

(* corm_open, and the handles that are open after it returned h.           *)
Opens(o) == (IF o = Handle THEN {} ELSE {Fresh(o)})
            \cup (IF OpenFails THEN {None} ELSE {})
With(o, h) == (o \cup {h}) \ {None}

-----------------------------------------------------------------------------
(* hyle_registry_register.  alloc_entry looks at the capacity before it    *)
(* looks for the entry.  Each old map is closed before the new one is      *)
(* opened, in the order rows, fields, tokens.                              *)
MayRegister(s) == call.stage = "idle" /\ Cardinality(registered) < MaxEntries

RowsClosed(s) == open \ {entry[s]["row_hd"]}
FieldsClosed(s, row) == With(RowsClosed(s), row) \ {entry[s]["fields_hd"]}
TokensClosed(s, row, fields) ==
  With(FieldsClosed(s, row), fields) \ {entry[s]["tokens_hd"]}

RegisterRowsFail(s) ==
  /\ MayRegister(s)
  /\ None \in Opens(RowsClosed(s))
  /\ open' = RowsClosed(s)
  /\ entry' = [entry EXCEPT ![s]["row_hd"] = None]
  /\ registered' = registered \cup {s}
  /\ UNCHANGED <<call, results, stale>>

(* The old fields map is closed by now, and its number stays in the entry. *)
RegisterFieldsFail(s) ==
  /\ MayRegister(s)
  /\ \E row \in Opens(RowsClosed(s)) \ {None} :
       /\ None \in Opens(FieldsClosed(s, row))
       /\ open' = FieldsClosed(s, row) \ {row}
  /\ entry' = [entry EXCEPT ![s]["row_hd"] = None]
  /\ registered' = registered \cup {s}
  /\ stale' = (stale \/ entry[s]["fields_hd"] # None)
  /\ UNCHANGED <<call, results>>

(* Nothing looks at whether the token map opened.                          *)
WithMaps(s, row, fields, tokens) ==
  [entry[s] EXCEPT !["row_hd"] = row, !["fields_hd"] = fields, !["tokens_hd"] = tokens]

Register(s) ==
  /\ MayRegister(s)
  /\ \E row \in Opens(RowsClosed(s)) \ {None} :
     \E fields \in Opens(FieldsClosed(s, row)) \ {None} :
     \E tokens \in Opens(TokensClosed(s, row, fields)) :
       /\ open' = With(TokensClosed(s, row, fields), tokens)
       /\ entry' = [entry EXCEPT ![s] = WithMaps(s, row, fields, tokens)]
  /\ registered' = registered \cup {s}
  /\ UNCHANGED <<call, results, stale>>

(* hyle_ordered_register: after hyle_registry_register has succeeded, both *)
(* of the maps of an ordered source are closed and opened again.           *)
OrderClosed(s, o) == o \ {entry[s]["order_hd"], entry[s]["loaded_hd"]}

OrderedRegister(s) ==
  /\ MayRegister(s)
  /\ \E row \in Opens(RowsClosed(s)) \ {None} :
     \E fields \in Opens(FieldsClosed(s, row)) \ {None} :
     \E tokens \in Opens(TokensClosed(s, row, fields)) :
       LET o == OrderClosed(s, With(TokensClosed(s, row, fields), tokens))
       IN \E order \in Opens(o) : \E ld \in Opens(With(o, order)) :
            /\ open' = With(With(o, order), ld)
            /\ entry' = [entry EXCEPT ![s] =
                           [WithMaps(s, row, fields, tokens) EXCEPT
                              !["order_hd"] = order, !["loaded_hd"] = ld]]
  /\ registered' = registered \cup {s}
  /\ UNCHANGED <<call, results, stale>>

-----------------------------------------------------------------------------
(* hyle_registry_query, stage by stage.                                    *)
QueryStart(s) ==
  /\ call.stage = "idle"
  /\ s \in registered
  /\ Cardinality(results) < MaxResults
  /\ call' = [stage |-> "fts", source |-> s, tmp |-> NoTemporaries]
  /\ UNCHANGED <<registered, entry, open, results, stale>>

StageAfter == [fts |-> "multi_ref", multi_ref |-> "q", q |-> "filter",
               filter |-> "sort", sort |-> "page"]

(* A stage that is done, or has nothing to do, gives way to the next one.  *)
NextStage ==
  /\ call.stage \in DOMAIN StageAfter
  /\ call' = [call EXCEPT !.stage = StageAfter[@]]
  /\ UNCHANGED <<registered, entry, open, results, stale>>

(* Mutant: the set of the filter is not closed after the intersection.     *)
NarrowLeaking(t) ==
  \E hd \in Opens(open) \ {None} :
    \/ /\ call.tmp[t] = None
       /\ open' = With(open, hd)
       /\ call' = [call EXCEPT !.tmp[t] = hd]
    \/ /\ call.tmp[t] # None
       /\ \E both \in Opens(With(open, hd)) \ {None} :
            /\ open' = With(With(open, hd), both) \ {call.tmp[t]}
            /\ call' = [call EXCEPT !.tmp[t] = both]

(* The candidate set a filter opens becomes the set of the stage, or is    *)
(* intersected with it in a third map, and the two are closed.             *)
Narrow(t) ==
  \E hd \in Opens(open) \ {None} :
    \/ /\ call.tmp[t] = None
       /\ open' = With(open, hd)
       /\ call' = [call EXCEPT !.tmp[t] = hd]
    \/ /\ call.tmp[t] # None
       /\ \E both \in Opens(With(open, hd)) \ {None} :
            /\ open' = With(With(open, hd), both) \ {call.tmp[t], hd}
            /\ call' = [call EXCEPT !.tmp[t] = both]

(* prefilter_fts, one filter the index handles.  When a map does not open  *)
(* what was open for the filter is closed and the filter is passed over.   *)
FtsFilter ==
  /\ call.stage = "fts"
  /\ Narrow("fts_hd")
  /\ UNCHANGED <<registered, entry, results, stale>>

(* prefilter_multi_ref, one field.  When the map of an intersection does   *)
(* not open, both sets are closed and the stage is left with none.         *)
MultiRefField ==
  /\ call.stage = "multi_ref"
  /\ \/ Narrow("pre_hd")
     \/ /\ call.tmp["pre_hd"] # None
        /\ \E hd \in Opens(open) \ {None} : None \in Opens(With(open, hd))
        /\ open' = open \ {call.tmp["pre_hd"]}
        /\ call' = [call EXCEPT !.tmp["pre_hd"] = None]
  /\ UNCHANGED <<registered, entry, results, stale>>

(* prefilter_q, hyle_filter_rows and hyle_sort_rows: one map each.         *)
OpenStageMap(stage, t) ==
  /\ call.stage = stage
  /\ \E hd \in Opens(open) :
       /\ open' = With(open, hd)
       /\ call' = [call EXCEPT !.stage = StageAfter[stage], !.tmp[t] = hd]
  /\ UNCHANGED <<registered, entry, results, stale>>

QFilter == OpenStageMap("q", "q_hd")
FilterRows == OpenStageMap("filter", "filtered_hd")
SortRows == OpenStageMap("sort", "sorted_hd")

(* Mutant: the row map is closed, too, when no stage opened a map.         *)
ClosedWithInput ==
  LET opened == { call.tmp[t] : t \in Temporaries }
  IN IF opened = {None} THEN {entry[call.source]["row_hd"]} ELSE opened

(* The row set of the caller is opened and filled, and the temporaries are *)
(* closed: sorted and filtered rows by hyle_apply_view, the candidate sets *)
(* by hyle_registry_query.                                                 *)
ClosedOnReturn == { call.tmp[t] : t \in Temporaries }

QueryReturn ==
  /\ call.stage = "page"
  /\ \E hd \in Opens(open) :
       /\ open' = With(open, hd) \ ClosedOnReturn
       /\ results' = results \cup {[row_hd |-> hd,
                                    fields_hd |-> entry[call.source]["fields_hd"]]}
  /\ call' = Idle
  /\ UNCHANGED <<registered, entry, stale>>

(* hyle_row_set_free *)
RowSetFree(rs) ==
  /\ call.stage = "idle"
  /\ open' = open \ {rs.row_hd}
  /\ results' = results \ {rs}
  /\ UNCHANGED <<registered, entry, call, stale>>

Next ==
  \/ \E s \in Source :
       \/ RegisterRowsFail(s) \/ RegisterFieldsFail(s) \/ Register(s)
       \/ OrderedRegister(s) \/ QueryStart(s)
  \/ NextStage \/ FtsFilter \/ MultiRefField \/ QFilter \/ FilterRows \/ SortRows
  \/ QueryReturn
  \/ \E rs \in results : RowSetFree(rs)

Spec == Init /\ [][Next]_vars

-----------------------------------------------------------------------------
(* The type invariant: a number is a handle or 0.                          *)
TypeOK ==
  /\ registered \subseteq Source
  /\ entry \in [Source -> [MapNames -> Handle \cup {None}]]
  /\ open \subseteq Handle
  /\ call \in [stage : Stages, source : Source \cup {None},
               tmp : [Temporaries -> Handle \cup {None}]]
  /\ results \subseteq [row_hd : Handle \cup {None}, fields_hd : Handle \cup {None}]
  /\ stale \in BOOLEAN

(* Who holds which handle.                                                 *)
EntryHandles == { entry[s][m] : s \in Source, m \in MapNames }
CallHandles == { call.tmp[t] : t \in Temporaries }
ResultHandles == { rs.row_hd : rs \in results }

(* No map is lost: whatever a registration or a query opens is closed      *)
(* again, or still held by an entry, by the query in progress or by a      *)
(* caller, also when opening a map failed half way.                        *)
NoLeak == open \subseteq EntryHandles \cup CallHandles \cup ResultHandles

(* A map is closed by nobody but its owner: the handles of entries, of the *)
(* query in progress and of callers' row sets are all open and all         *)
(* different.  "row_hd: always created and owned by libhyle", and a row    *)
(* set is its caller's until hyle_row_set_free.  It holds as long as no    *)
(* registration failed on its fields map.                                  *)
EntriesDiffer ==
  \A s, t \in Source, m, n \in MapNames :
    entry[s][m] = entry[t][n] /\ entry[s][m] # None => s = t /\ m = n

CallDiffers ==
  \A t, u \in Temporaries :
    call.tmp[t] = call.tmp[u] /\ call.tmp[t] # None => t = u

ResultsDiffer ==
  \A rs, rt \in results : rs.row_hd = rt.row_hd /\ rs.row_hd # None => rs = rt

OwnersApart ==
  /\ EntryHandles \cap CallHandles \subseteq {None}
  /\ EntryHandles \cap ResultHandles \subseteq {None}
  /\ CallHandles \cap ResultHandles \subseteq {None}

HeldAreOpen == EntryHandles \cup CallHandles \cup ResultHandles \subseteq open \cup {None}

OneOwner ==
  ~stale => HeldAreOpen /\ EntriesDiffer /\ CallDiffers /\ ResultsDiffer /\ OwnersApart
==============================================================================
