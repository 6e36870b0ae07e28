----------------------------- MODULE ValuePool ------------------------------
(***************************************************************************)
(* A context (ctx.c) and the values allocated in it (value.c).  Strings,   *)
(* arrays and maps are numbers into three corm maps; what is put into an   *)
(* array or a map is the JSON text of a value at that time, and reading it *)
(* back makes a new string of that text.                                   *)
(*                                                                         *)
(* hyle_val_to_json goes an element per step, growing its buffer; each     *)
(* allocation may fail.  Other calls are one step.                         *)
(*                                                                         *)
(* A text has what it says, as a sequence of tokens, its length, and how   *)
(* many of its characters json_escape writes otherwise: quotes (and        *)
(* backslashes), breaks (newlines, tabs, returns) and the other control    *)
(* characters, which take six.                                             *)
(***************************************************************************)
EXTENDS Integers, Sequences

CONSTANTS
  Token,        \* what texts are made of
  Texts,        \* the texts a program makes strings of
  Scalars,      \* the JSON texts of null, booleans and numbers
  FieldNames,   \* a sequence: the texts of map keys, in the order of the map
  InitialCap,   \* first size of the buffer (256)
  MaxIds,       \* bound: numbers given out
  MaxCalls,     \* bound: calls in the life of a context
  AllocFails    \* TRUE when malloc, realloc, strdup and corm_open may fail

Text == { t \in [body : Seq(Token), len : Nat, quotes : Nat, breaks : Nat, controls : Nat] :
            t.quotes + t.breaks + t.controls <= t.len }

(* A text of JSON has quotes and backslashes at most.                      *)
Json(body, len, quotes) ==
  [body |-> body, len |-> len, quotes |-> quotes, breaks |-> 0, controls |-> 0]

ASSUME ValuePoolAssumption ==
  /\ InitialCap \in Nat /\ InitialCap >= 3
  /\ MaxIds \in Nat /\ MaxCalls \in Nat /\ AllocFails \in BOOLEAN
  /\ {"escaped", "array", "map", "end"} \subseteq Token
  /\ Texts \subseteq Text /\ Scalars \subseteq Text /\ FieldNames \in Seq(Text)
  /\ \A s \in Scalars : s.breaks = 0 /\ s.controls = 0

VARIABLES
  ctx,          \* "none", "failed" or "ready"
  pools,        \* the corm maps that are open
  next_id,
  string_pool,  \* number -> text
  array_pool,   \* number -> JSON texts
  map_pool,     \* number -> (field -> JSON text)
  values,       \* the values the program has
  calls,        \* calls it has made
  stage,        \* of the hyle_val_to_json in progress, "idle" when none is,
                \* "crashed" when the process is lost
  call,         \* what it is for, and its local variables
  held          \* memory and cursors that are allocated

callVars == <<calls, stage, call, held>>
poolVars == <<next_id, string_pool, array_pool, map_pool, values>>
vars == <<ctx, pools, poolVars, callVars>>

Pools == {"strings", "arrays", "maps", "scratch"}
NoCall == [for |-> "none"]
Empty == Json(<<>>, 1, 0)

NoValues ==
  /\ next_id' = 0 /\ values' = {}
  /\ string_pool' = <<>> /\ array_pool' = <<>> /\ map_pool' = <<>>

Init ==
  /\ ctx = "none" /\ pools = {}
  /\ next_id = 0 /\ values = {}
  /\ string_pool = <<>> /\ array_pool = <<>> /\ map_pool = <<>>
  /\ calls = 0 /\ stage = "idle" /\ call = NoCall /\ held = {}

-----------------------------------------------------------------------------
(* hyle_ctx_new: the four maps are opened whatever became of the others,   *)
(* and closed when one is missing.                                         *)
CtxNew ==
  /\ ctx = "none"
  /\ \E opened \in SUBSET Pools :
       /\ opened = Pools \/ AllocFails
       /\ pools' = opened
       /\ ctx' = IF opened = Pools THEN "ready" ELSE "failed"
  /\ NoValues
  /\ calls' = 0
  /\ UNCHANGED <<stage, call, held>>

CtxFree ==
  /\ ctx = "failed" \/ (ctx = "ready" /\ stage = "idle")
  /\ pools' = {}
  /\ ctx' = "none"
  /\ NoValues
  /\ UNCHANGED callVars

Ready == ctx = "ready" /\ stage = "idle" /\ calls < MaxCalls
Quick == Ready /\ calls' = calls + 1 /\ UNCHANGED <<ctx, pools, stage, call, held>>

Put(f, key, value) == [k \in DOMAIN f \cup {key} |-> IF k = key THEN value ELSE f[k]]
AnId == next_id < MaxIds
Handle(type, hd) == [type |-> type, hd |-> hd]
Of(type) == { v \in values : v.type = type }

(* Mutant: the number is not counted on.                                   *)
NewStringSameId(text) ==
  /\ AnId
  /\ next_id' = IF \E v \in values : v.type = "string" THEN next_id ELSE next_id + 1
  /\ LET id == IF next_id = 0 THEN 0 ELSE next_id - 1
     IN /\ string_pool' = Put(string_pool, id, text)
        /\ values' = values \cup {Handle("string", id)}
  /\ UNCHANGED <<array_pool, map_pool>>

(* hyle_val_string.                                                        *)
NewString(text) ==
  /\ AnId
  /\ next_id' = next_id + 1
  /\ string_pool' = Put(string_pool, next_id, text)
  /\ values' = values \cup {Handle("string", next_id)}
  /\ UNCHANGED <<array_pool, map_pool>>

(* Mutant: the number is counted on first.                                 *)
NewContainerAfter(type) ==
  /\ AnId
  /\ next_id' = next_id + 1
  /\ values' = values \cup {Handle(type, next_id + 1)}
  /\ UNCHANGED <<string_pool, array_pool, map_pool>>

(* hyle_val_array, hyle_val_map: nothing is put into their maps yet.       *)
NewContainer(type) ==
  /\ AnId
  /\ next_id' = next_id + 1
  /\ values' = values \cup {Handle(type, next_id)}
  /\ UNCHANGED <<string_pool, array_pool, map_pool>>

Elements(id) == IF id \in DOMAIN array_pool THEN array_pool[id] ELSE <<>>
Entries(id) == IF id \in DOMAIN map_pool THEN map_pool[id] ELSE <<>>

ArrayGet(arr, idx) ==
  IF idx < Len(Elements(arr.hd)) THEN NewString(Elements(arr.hd)[idx + 1])
  ELSE UNCHANGED poolVars

MapGet(map, field) ==
  IF field \in DOMAIN Entries(map.hd) THEN NewString(Entries(map.hd)[field])
  ELSE UNCHANGED poolVars

-----------------------------------------------------------------------------
(* hyle_val_to_json of a value, for the program, for hyle_val_array_push   *)
(* or for hyle_val_map_set.                                                *)
Fields == { FieldNames[n] : n \in DOMAIN FieldNames }

Begin(for, target, field, value) ==
  /\ Ready
  /\ calls' = calls + 1
  /\ stage' = "called"
  /\ call' = [for |-> for, target |-> target, field |-> field, value |-> value]
  /\ UNCHANGED <<ctx, pools, poolVars, held>>

(* What json_escape writes, and the room it has for it with the NUL.       *)
Escape(text) ==
  Json(<<"escaped">> \o text.body \o <<"end">>,
       text.len + text.quotes + text.breaks + 5 * text.controls + 2,
       2 * text.quotes + text.breaks + text.controls + 2)
EscapeRoom(text) == 2 * text.len + 3
Overruns(text) == Escape(text).len + 1 > EscapeRoom(text)

(* What an array is made of are its elements, a map's are "field":json.    *)
IsMap == call.value.type = "map"
Last == IF IsMap THEN Len(FieldNames) ELSE Len(Elements(call.value.hd))
Missing == IsMap /\ FieldNames[call.at] \notin DOMAIN Entries(call.value.hd)

EntryPiece(field, json) ==
  Json(Escape(field).body \o json.body, Escape(field).len + 1 + json.len,
       Escape(field).quotes + json.quotes)

Piece ==
  IF IsMap THEN EntryPiece(FieldNames[call.at], Entries(call.value.hd)[FieldNames[call.at]])
  ELSE Elements(call.value.hd)[call.at]

Writing(json, cap, comma, at) ==
  call' = [for |-> call.for, target |-> call.target, field |-> call.field, value |-> call.value,
           json |-> json, cap |-> cap, comma |-> comma, at |-> at]

Working == UNCHANGED <<ctx, pools, poolVars, calls>>

(* A failed allocation: what the call holds is freed.                      *)
NoMemory ==
  /\ AllocFails
  /\ stage' = "nomem" /\ held' = {}
  /\ UNCHANGED call
  /\ Working

InOnePiece ==
  \/ call.value.type \in {"scalar", "string"}
  \/ call.value.type = "array" /\ Elements(call.value.hd) = <<>>

(* strdup of a scalar or "[]"; json_escape of a string.                    *)
JsonInOnePiece ==
  /\ stage = "called" /\ InOnePiece
  /\ \/ /\ CASE call.value.type = "scalar" ->
                  Writing(call.value.hd, call.value.hd.len + 1, FALSE, 1)
             [] call.value.type = "string" ->
                  LET text == string_pool[call.value.hd]
                  IN Writing(Escape(text), EscapeRoom(text), FALSE, 1)
             [] OTHER -> Writing(Json(<<"array", "end">>, 2, 0), 3, FALSE, 1)
        /\ stage' = "made" /\ held' = {"json"}
        /\ Working
     \/ NoMemory

JsonBegin ==
  /\ stage = "called" /\ ~InOnePiece
  /\ \/ /\ Writing(Empty, InitialCap, FALSE, 1)
        /\ stage' = "writing" /\ held' = {"json", "cursor"}
        /\ Working
     \/ NoMemory

(* The cursor of a map goes through the keys of all maps.                  *)
JsonSkip ==
  /\ stage = "writing" /\ call.at <= Last /\ Missing
  /\ Writing(call.json, call.cap, call.comma, call.at + 1)
  /\ UNCHANGED <<stage, held>>
  /\ Working

HasPiece == stage = "writing" /\ call.at <= Last /\ ~Missing

(* The comma before every element but the first one.  The test for room    *)
(* that precedes it never holds: see JsonFits.                             *)
JsonComma ==
  /\ HasPiece /\ call.comma
  /\ Writing([call.json EXCEPT !.len = @ + 1], call.cap, FALSE, call.at)
  /\ UNCHANGED <<stage, held>>
  /\ Working

(* json_escape of the field name; its result is not checked.               *)
JsonTake ==
  /\ HasPiece /\ ~call.comma
  /\ stage' = "piece"
  /\ held' = IF IsMap THEN held \cup {"field"} ELSE held
  /\ UNCHANGED call
  /\ Working

(* Where the process may be lost: json_escape has written past its buffer, *)
(* of a string or of a field name, or returned NULL for a field name.      *)
(* Otherwise the call goes on, in JsonInOnePiece or JsonTake, with the     *)
(* text; what an overrun does to other blocks is not followed.             *)
JsonCrash ==
  /\ \/ /\ stage = "called" /\ call.value.type = "string"
        /\ Overruns(string_pool[call.value.hd])
     \/ /\ HasPiece /\ ~call.comma /\ IsMap
        /\ AllocFails \/ Overruns(FieldNames[call.at])
  /\ stage' = "crashed"
  /\ UNCHANGED <<call, held>>
  /\ Working

(* What the loops that grow the buffer ask room for.                       *)
Need == Piece.len + (IF IsMap THEN 1 ELSE 0)
Fits == call.json.len + Need + 1 < call.cap

(* Mutant: the escaped field is not freed.                                 *)
JsonGrowLeaking ==
  /\ stage = "piece" /\ ~Fits
  /\ \/ /\ Writing(call.json, 2 * call.cap, call.comma, call.at)
        /\ UNCHANGED <<stage, held>>
        /\ Working
     \/ /\ AllocFails
        /\ stage' = "nomem" /\ held' = held \ {"json", "cursor"}
        /\ UNCHANGED call /\ Working

JsonGrow ==
  /\ stage = "piece" /\ ~Fits
  /\ \/ /\ Writing(call.json, 2 * call.cap, call.comma, call.at)
        /\ UNCHANGED <<stage, held>>
        /\ Working
     \/ NoMemory

WithPiece ==
  Json(call.json.body \o Piece.body, call.json.len + Piece.len, call.json.quotes + Piece.quotes)

(* Mutant: the loop ends one character early.                              *)
JsonPieceTight ==
  /\ stage = "piece" /\ call.json.len + Need <= call.cap
  /\ Writing(WithPiece, call.cap, TRUE, call.at + 1)
  /\ stage' = "writing" /\ held' = held \ {"field"}
  /\ Working

JsonPiece ==
  /\ stage = "piece" /\ Fits
  /\ Writing(WithPiece, call.cap, TRUE, call.at + 1)
  /\ stage' = "writing" /\ held' = held \ {"field"}
  /\ Working

JsonEnd ==
  /\ stage = "writing" /\ call.at > Last
  /\ Writing(Json(<<call.value.type>> \o call.json.body \o <<"end">>,
                  call.json.len + 1, call.json.quotes), call.cap, FALSE, call.at)
  /\ stage' = "made" /\ held' = {"json"}
  /\ Working

(* The text is put into the pool and freed, or goes to the program, which  *)
(* frees it.                                                               *)
Return ==
  /\ stage = "made"
  /\ LET id == call.target.hd
     IN CASE call.for = "push" ->
               /\ array_pool' = Put(array_pool, id, Append(Elements(id), call.json))
               /\ UNCHANGED map_pool
          [] call.for = "set" ->
               /\ map_pool' = Put(map_pool, id, Put(Entries(id), call.field, call.json))
               /\ UNCHANGED array_pool
          [] OTHER -> UNCHANGED <<array_pool, map_pool>>
  /\ stage' = "idle" /\ call' = NoCall /\ held' = {}
  /\ UNCHANGED <<ctx, pools, next_id, string_pool, values, calls>>

(* hyle_val_array_push and hyle_val_map_set say nothing of it.             *)
ReturnNull ==
  /\ stage = "nomem"
  /\ stage' = "idle" /\ call' = NoCall
  /\ UNCHANGED <<ctx, pools, poolVars, calls, held>>

Anything == values \cup { Handle("scalar", s) : s \in Scalars }

Next ==
  \/ CtxNew \/ CtxFree
  \/ Quick /\ \/ \E t \in Texts : NewString(t)
              \/ \E type \in {"array", "map"} : NewContainer(type)
              \/ \E a \in Of("array"), idx \in 0 .. 1 : ArrayGet(a, idx)
              \/ \E m \in Of("map"), f \in Fields : MapGet(m, f)
  \/ \E v \in Anything :
       \/ Begin("json", v, Head(FieldNames), v)
       \/ \E a \in Of("array") : Begin("push", a, Head(FieldNames), v)
       \/ \E m \in Of("map"), f \in Fields : Begin("set", m, f, v)
  \/ JsonInOnePiece \/ JsonBegin \/ JsonSkip \/ JsonComma \/ JsonTake \/ JsonCrash \/ JsonGrow
  \/ JsonPiece \/ JsonEnd \/ Return \/ ReturnNull

Spec == Init /\ [][Next]_vars

-----------------------------------------------------------------------------
(* The type invariant: numbers below next_id, one value a number, texts    *)
(* that are texts.                                                         *)
TypeOK ==
  /\ ctx \in {"none", "failed", "ready"}
  /\ pools \subseteq Pools /\ (ctx = "ready" => pools = Pools)
  /\ \A v \in values : v.hd \in 0 .. next_id - 1
  /\ \A v, w \in values : v.hd = w.hd => v = w
  /\ DOMAIN string_pool = { v.hd : v \in Of("string") }
  /\ DOMAIN array_pool \subseteq { v.hd : v \in Of("array") }
  /\ DOMAIN map_pool \subseteq { v.hd : v \in Of("map") }
  /\ \A id \in DOMAIN string_pool : string_pool[id] \in Text
  /\ \A id \in DOMAIN array_pool : array_pool[id] \in Seq(Text)
  /\ \A id \in DOMAIN map_pool : \A f \in DOMAIN map_pool[id] :
       f \in Fields /\ map_pool[id][f] \in Text
  /\ stage \in {"idle", "called", "writing", "piece", "made", "nomem", "crashed"}

(* hyle_val_to_json stays within its buffer, whatever it is made of: what  *)
(* is written so far, a comma or a bracket after it, and in the end the    *)
(* text and its NUL.  An element always leaves room for the next comma, so *)
(* the code that grows the buffer for it is never needed.  json_escape     *)
(* stays within its own only for texts without control characters other    *)
(* than newlines, tabs and returns: the six characters of one overrun      *)
(* len * 2 + 3 (see Overruns and JsonCrash).                               *)
NoControls == call.value.type = "string" => string_pool[call.value.hd].controls = 0

JsonFits ==
  /\ stage \in {"writing", "piece"} => call.json.len + 1 <= call.cap
  /\ stage = "writing" /\ call.comma => call.json.len + 1 < call.cap
  /\ stage = "piece" /\ IsMap /\ FieldNames[call.at].controls = 0 =>
       ~Overruns(FieldNames[call.at])
  /\ stage = "made" /\ NoControls => call.json.len + 1 <= call.cap

(* "malloc'd JSON string; caller frees with free()": a call that returns   *)
(* NULL, and a push or set, have freed all they allocated and ended their  *)
(* cursor, wherever memory ran out; a text that was made is all there is.  *)
OnlyTheTextIsHeld ==
  /\ stage \in {"idle", "called", "nomem"} => held = {}
  /\ stage = "made" => held = {"json"}

(* "Value to store under key (copied into the pool)": no call changes what *)
(* another value holds.  Reading changes nothing, though it gives out a    *)
(* number; a push changes its array, a set its map, each by one entry, and *)
(* what was put into a container no longer follows the value it came from. *)
Content(v) ==
  CASE v.type = "string" -> string_pool[v.hd]
    [] v.type = "array"  -> Elements(v.hd)
    [] OTHER             -> Entries(v.hd)

OnlyTheTargetChanges ==
  [][\A v \in values \cap values' :
       \/ Content(v)' = Content(v)
       \/ stage = "made" /\ call.for \in {"push", "set"} /\ call.target = v]_vars
=============================================================================
