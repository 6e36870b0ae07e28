-------------------------- MODULE ValuePool_proofs --------------------------
(***************************************************************************)
(* Proofs about a context and its values: the type invariant, the bounds   *)
(* of the JSON buffers, the memory a call holds, and that a call changes   *)
(* no value but its target.                                                *)
(***************************************************************************)
EXTENDS ValuePool, TLAPS

(* The values of the program, and what a call in progress works on.        *)
HandlesInv ==
  /\ next_id \in Nat
  /\ values \subseteq [type : {"string", "array", "map"}, hd : Nat]

CallInv ==
  /\ ctx # "ready" => stage = "idle"
  /\ stage # "idle" =>
       /\ call.value \in Anything
       /\ call.for = "push" => call.target \in Of("array")
       /\ call.for = "set" => call.target \in Of("map") /\ call.field \in Fields

(* There is room for the bracket and the NUL, or an element comes before   *)
(* them, which will make it.                                               *)
BufferInv ==
  /\ stage \in {"writing", "piece", "made"} => call.json \in Text /\ call.cap \in Nat
  /\ stage \in {"writing", "piece"} =>
       /\ call.value \in Of("array") \cup Of("map")
       /\ call.at \in Nat \ {0} /\ call.comma \in BOOLEAN
       /\ call.json.len + 1 <= call.cap
  /\ stage = "writing" =>
       call.json.len + 2 <= call.cap \/ (~call.comma /\ call.at <= Last /\ ~Missing)
  /\ stage = "piece" => call.at <= Last /\ ~Missing
  /\ stage = "made" /\ NoControls => call.json.len + 1 <= call.cap

HeldInv ==
  /\ stage \in {"idle", "called", "nomem"} => held = {}
  /\ stage = "made" => held = {"json"}

PoolInv == TypeOK /\ HandlesInv /\ CallInv /\ BufferInv /\ HeldInv

-----------------------------------------------------------------------------
LEMMA TextFacts ==
  ASSUME NEW t \in Text
  PROVE  /\ t.body \in Seq(Token) /\ t.len \in Nat /\ t.quotes \in Nat
         /\ t.breaks \in Nat /\ t.controls \in Nat
         /\ t.quotes + t.breaks + t.controls <= t.len /\ t.quotes <= t.len
<1>1. /\ t.body \in Seq(Token) /\ t.len \in Nat /\ t.quotes \in Nat
      /\ t.breaks \in Nat /\ t.controls \in Nat
      /\ t.quotes + t.breaks + t.controls <= t.len
  BY DEF Text
<1>2. QED BY <1>1

LEMMA JsonIsText ==
  ASSUME NEW body \in Seq(Token), NEW len \in Nat, NEW quotes \in Nat, quotes <= len
  PROVE  Json(body, len, quotes) \in Text
BY DEF Json, Text

(* An escaped text is a text, which fits when there are no control         *)
(* characters that take six.                                               *)
LEMMA EscapeIsText ==
  ASSUME NEW t \in Text
  PROVE  /\ Escape(t) \in Text
         /\ t.controls = 0 => ~Overruns(t)
<1>1. <<"escaped">> \o t.body \o <<"end">> \in Seq(Token)
  <2>1. t.body \in Seq(Token) BY DEF Text
  <2>2. <<"escaped">> \in Seq(Token) /\ <<"end">> \in Seq(Token)
    BY ValuePoolAssumption
  <2>3. <<"escaped">> \o t.body \in Seq(Token) BY <2>1, <2>2
  <2>4. QED BY <2>2, <2>3
<1>2. /\ t.len \in Nat /\ t.quotes \in Nat /\ t.breaks \in Nat /\ t.controls \in Nat
      /\ t.quotes + t.breaks + t.controls <= t.len
  BY TextFacts
<1>3. Escape(t) \in Text
  <2>1. /\ t.len + t.quotes + t.breaks + 5 * t.controls + 2 \in Nat
        /\ 2 * t.quotes + t.breaks + t.controls + 2 \in Nat
        /\ 2 * t.quotes + t.breaks + t.controls + 2
             <= t.len + t.quotes + t.breaks + 5 * t.controls + 2
    BY <1>2
  <2>2. QED BY <1>1, <2>1, JsonIsText DEF Escape
<1>4. ASSUME t.controls = 0 PROVE ~Overruns(t)
  <2>1. Escape(t).len = t.len + t.quotes + t.breaks + 2
    BY <1>2, <1>4 DEF Escape, Json
  <2>2. QED BY <1>2, <1>4, <2>1 DEF Overruns, EscapeRoom
<1>5. QED BY <1>3, <1>4

LEMMA EntryPieceIsText ==
  ASSUME NEW f \in Text, NEW j \in Text
  PROVE  EntryPiece(f, j) \in Text
<1>1. Escape(f) \in Text BY EscapeIsText
<1>2. Escape(f).body \o j.body \in Seq(Token) BY <1>1 DEF Text
<1>3. /\ Escape(f).len \in Nat /\ Escape(f).quotes \in Nat /\ j.len \in Nat /\ j.quotes \in Nat
      /\ Escape(f).quotes <= Escape(f).len /\ j.quotes <= j.len
  BY <1>1, TextFacts
<1>4. /\ Escape(f).len + 1 + j.len \in Nat /\ Escape(f).quotes + j.quotes \in Nat
      /\ Escape(f).quotes + j.quotes <= Escape(f).len + 1 + j.len
  BY <1>3
<1>5. QED BY <1>2, <1>4, JsonIsText, Zenon DEF EntryPiece

(* What a call is about to write is a text.                                *)
LEMMA PieceIsText ==
  ASSUME TypeOK, HandlesInv,
         call.value \in Of("array") \cup Of("map"), call.at \in Nat \ {0},
         call.at <= Last, ~Missing
  PROVE  Piece \in Text
<1>1. CASE IsMap
  <2>1. FieldNames[call.at] \in Text
    BY <1>1, ValuePoolAssumption DEF Last
  <2>2. Entries(call.value.hd)[FieldNames[call.at]] \in Text
    <3>1. FieldNames[call.at] \in DOMAIN Entries(call.value.hd)
      BY <1>1 DEF Missing
    <3>2. CASE call.value.hd \in DOMAIN map_pool
      BY <3>1, <3>2 DEF Entries, TypeOK
    <3>3. CASE call.value.hd \notin DOMAIN map_pool
      BY <3>1, <3>3 DEF Entries
    <3>4. QED BY <3>2, <3>3
  <2>3. QED BY <1>1, <2>1, <2>2, EntryPieceIsText DEF Piece
<1>2. CASE ~IsMap
  <2>1. Elements(call.value.hd) \in Seq(Text)
    BY DEF Elements, TypeOK
  <2>2. QED BY <1>2, <2>1 DEF Last, Piece
<1>3. QED BY <1>1, <1>2

-----------------------------------------------------------------------------
LEMMA HdsOfOneMore ==
  ASSUME NEW A, NEW h
  PROVE  { v.hd : v \in A \cup {h} } = { v.hd : v \in A } \cup {h.hd}
BY Zenon

(* A new value has a number nobody has.                                    *)
LEMMA NewStringKeeps ==
  ASSUME PoolInv, ValuePoolAssumption, Quick, NEW t \in Text, NewString(t)
  PROVE  PoolInv'
<1> USE DEF Quick, Ready, NewString
<1>1. HandlesInv' BY DEF PoolInv, HandlesInv, Handle
<1>2. TypeOK'
  <2>1. ctx' = ctx /\ pools' = pools /\ stage' = stage
    OBVIOUS
  <2>2. \A v \in values' : v.hd \in 0 .. next_id' - 1
    BY DEF PoolInv, TypeOK, HandlesInv, Handle
  <2>3. \A v, w \in values' : v.hd = w.hd => v = w
    BY DEF PoolInv, TypeOK, HandlesInv, Handle
  <2>4. DOMAIN string_pool' = { v.hd : v \in Of("string")' }
    <3>1. DOMAIN string_pool' = DOMAIN string_pool \cup {next_id} BY DEF Put
    <3>2. Of("string")' = Of("string") \cup {Handle("string", next_id)} BY DEF Of, Handle
    <3>3. { v.hd : v \in Of("string")' } = { v.hd : v \in Of("string") } \cup {next_id}
      <4>1. Handle("string", next_id).hd = next_id BY DEF Handle
      <4>2. QED BY <3>2, <4>1, HdsOfOneMore
    <3>4. QED BY <3>1, <3>3 DEF PoolInv, TypeOK
  <2>5. \A id \in DOMAIN string_pool' : string_pool'[id] \in Text
    BY DEF PoolInv, TypeOK, Put
  <2>6. { v.hd : v \in Of("array") } \subseteq { v.hd : v \in Of("array")' }
        /\ { v.hd : v \in Of("map") } \subseteq { v.hd : v \in Of("map")' }
    BY DEF Of
  <2>7. QED BY <2>1, <2>2, <2>3, <2>4, <2>5, <2>6 DEF PoolInv, TypeOK
<1>3. CallInv' BY DEF PoolInv, CallInv
<1>4. BufferInv' BY DEF PoolInv, BufferInv
<1>5. HeldInv' BY DEF PoolInv, HeldInv
<1>6. QED BY <1>1, <1>2, <1>3, <1>4, <1>5 DEF PoolInv

LEMMA NewContainerKeeps ==
  ASSUME PoolInv, Quick, NEW type \in {"array", "map"}, NewContainer(type)
  PROVE  PoolInv'
<1> USE DEF Quick, Ready, NewContainer
<1>1. HandlesInv' BY DEF PoolInv, HandlesInv, Handle
<1>2. TypeOK'
  <2>1. \A v \in values' : v.hd \in 0 .. next_id' - 1
    BY DEF PoolInv, TypeOK, HandlesInv, Handle
  <2>2. \A v, w \in values' : v.hd = w.hd => v = w
    BY DEF PoolInv, TypeOK, HandlesInv, Handle
  <2>3. Of("string")' = Of("string") /\ Of("array") \subseteq Of("array")'
        /\ Of("map") \subseteq Of("map")'
    BY DEF Of, Handle
  <2>4. { v.hd : v \in Of("array") } \subseteq { v.hd : v \in Of("array")' }
        /\ { v.hd : v \in Of("map") } \subseteq { v.hd : v \in Of("map")' }
    BY <2>3
  <2>5. QED BY <2>1, <2>2, <2>3, <2>4 DEF PoolInv, TypeOK
<1>3. CallInv' BY DEF PoolInv, CallInv
<1>4. BufferInv' BY DEF PoolInv, BufferInv
<1>5. HeldInv' BY DEF PoolInv, HeldInv
<1>6. QED BY <1>1, <1>2, <1>3, <1>4, <1>5 DEF PoolInv
-----------------------------------------------------------------------------
LEMMA InitPool == Init => PoolInv
<1> SUFFICES ASSUME Init PROVE PoolInv
  OBVIOUS
<1>1. { v.hd : v \in Of("string") } = {}
  <2>1. Of("string") = {} BY DEF Init, Of
  <2>2. QED BY <2>1
<1>2. TypeOK BY <1>1 DEF Init, TypeOK, Pools
<1>3. HandlesInv /\ CallInv /\ BufferInv /\ HeldInv
  BY DEF Init, HandlesInv, CallInv, BufferInv, HeldInv
<1>4. QED BY <1>2, <1>3 DEF PoolInv

(* A context that was opened or closed has no values.                      *)
LEMMA NoValuesKeep ==
  ASSUME PoolInv, NoValues, ctx' \in {"none", "failed", "ready"}, pools' \subseteq Pools,
         ctx' = "ready" => pools' = Pools, stage = "idle",
         UNCHANGED <<stage, call, held>>
  PROVE  PoolInv'
<1>1. { v.hd : v \in Of("string")' } = {}
  <2>1. Of("string")' = {} BY DEF NoValues, Of
  <2>2. QED BY <2>1
<1>2. TypeOK' BY <1>1 DEF NoValues, PoolInv, TypeOK
<1>3. HandlesInv' BY DEF NoValues, HandlesInv
<1>4. CallInv' /\ BufferInv' /\ HeldInv'
  BY DEF PoolInv, CallInv, BufferInv, HeldInv
<1>5. QED BY <1>2, <1>3, <1>4 DEF PoolInv

LEMMA CtxNewKeeps == PoolInv /\ CtxNew => PoolInv'
<1> SUFFICES ASSUME PoolInv, CtxNew PROVE PoolInv'
  OBVIOUS
<1>1. stage = "idle" BY DEF CtxNew, PoolInv, CallInv
<1>2. ctx' \in {"none", "failed", "ready"} /\ pools' \subseteq Pools
      /\ (ctx' = "ready" => pools' = Pools)
  BY DEF CtxNew
<1>3. QED BY <1>1, <1>2, NoValuesKeep DEF CtxNew

LEMMA CtxFreeKeeps == PoolInv /\ CtxFree => PoolInv'
<1> SUFFICES ASSUME PoolInv, CtxFree PROVE PoolInv'
  OBVIOUS
<1>1. stage = "idle" BY DEF CtxFree, PoolInv, CallInv
<1>2. QED BY <1>1, NoValuesKeep DEF CtxFree, callVars

(* What is stored in an array or a map is a text.                          *)
LEMMA StoredIsText ==
  ASSUME TypeOK, NEW id
  PROVE  /\ Elements(id) \in Seq(Text)
         /\ \A f \in DOMAIN Entries(id) : f \in Fields /\ Entries(id)[f] \in Text
<1>1. Elements(id) \in Seq(Text) BY DEF TypeOK, Elements
<1>2. CASE id \in DOMAIN map_pool BY <1>1, <1>2 DEF TypeOK, Entries
<1>3. CASE id \notin DOMAIN map_pool BY <1>1, <1>3 DEF Entries
<1>4. QED BY <1>2, <1>3

LEMMA QuickUnchanged ==
  ASSUME PoolInv, Quick, UNCHANGED poolVars
  PROVE  PoolInv'
<1> USE DEF Quick, poolVars
<1>1. TypeOK' BY DEF PoolInv, TypeOK, Of
<1>2. HandlesInv' BY DEF PoolInv, HandlesInv
<1>3. CallInv' BY DEF PoolInv, CallInv, Ready
<1>4. BufferInv' BY DEF PoolInv, BufferInv, Ready
<1>5. HeldInv' BY DEF PoolInv, HeldInv
<1>6. QED BY <1>1, <1>2, <1>3, <1>4, <1>5 DEF PoolInv

LEMMA ArrayGetKeeps ==
  ASSUME PoolInv, ValuePoolAssumption, Quick, NEW a \in Of("array"), NEW idx \in 0 .. 1,
         ArrayGet(a, idx)
  PROVE  PoolInv'
<1>1. CASE idx < Len(Elements(a.hd))
  <2>1. Elements(a.hd) \in Seq(Text) BY StoredIsText DEF PoolInv
  <2>2. Elements(a.hd)[idx + 1] \in Text BY <1>1, <2>1
  <2>3. NewString(Elements(a.hd)[idx + 1]) BY <1>1 DEF ArrayGet
  <2>4. QED BY <2>2, <2>3, NewStringKeeps
<1>2. CASE ~(idx < Len(Elements(a.hd)))
  BY <1>2, QuickUnchanged DEF ArrayGet
<1>3. QED BY <1>1, <1>2

LEMMA MapGetKeeps ==
  ASSUME PoolInv, ValuePoolAssumption, Quick, NEW m \in Of("map"), NEW f \in Fields,
         MapGet(m, f)
  PROVE  PoolInv'
<1>1. CASE f \in DOMAIN Entries(m.hd)
  <2>1. Entries(m.hd)[f] \in Text BY <1>1, StoredIsText DEF PoolInv
  <2>2. NewString(Entries(m.hd)[f]) BY <1>1 DEF MapGet
  <2>3. QED BY <2>1, <2>2, NewStringKeeps
<1>2. CASE f \notin DOMAIN Entries(m.hd)
  BY <1>2, QuickUnchanged DEF MapGet
<1>3. QED BY <1>1, <1>2

-----------------------------------------------------------------------------
(* The steps of hyle_val_to_json leave the context and its values alone.   *)
WorksOn ==
  /\ call'.for = call.for /\ call'.target = call.target
  /\ call'.field = call.field /\ call'.value = call.value

LEMMA WorkingKeeps ==
  ASSUME PoolInv, Working, WorksOn, stage # "idle",
         stage' \in {"writing", "piece", "made", "nomem", "crashed"}
  PROVE  TypeOK' /\ HandlesInv' /\ CallInv'
<1> USE DEF Working, poolVars
<1>1. TypeOK' BY DEF PoolInv, TypeOK, Of
<1>2. HandlesInv' BY DEF PoolInv, HandlesInv
<1>3. CallInv' BY DEF PoolInv, CallInv, WorksOn, Anything, Of
<1>4. QED BY <1>1, <1>2, <1>3

LEMMA NoMemoryKeeps ==
  ASSUME PoolInv, NoMemory, stage # "idle"
  PROVE  PoolInv'
<1>1. WorksOn BY DEF NoMemory, WorksOn
<1>2. TypeOK' /\ HandlesInv' /\ CallInv' BY <1>1, WorkingKeeps DEF NoMemory
<1>3. BufferInv' /\ HeldInv' BY DEF NoMemory, BufferInv, HeldInv
<1>4. QED BY <1>2, <1>3 DEF PoolInv

LEMMA WritingWorksOn ==
  ASSUME NEW json, NEW cap, NEW comma, NEW at, Writing(json, cap, comma, at)
  PROVE  /\ WorksOn
         /\ call'.json = json /\ call'.cap = cap /\ call'.comma = comma /\ call'.at = at
BY DEF Writing, WorksOn

LEMMA BeginKeeps ==
  ASSUME PoolInv, NEW v \in Anything, NEW for, NEW target, NEW field,
         for = "push" => target \in Of("array"),
         for = "set" => target \in Of("map") /\ field \in Fields,
         Begin(for, target, field, v)
  PROVE  PoolInv'
<1> USE DEF Begin, Ready, poolVars
<1>1. TypeOK' BY DEF PoolInv, TypeOK, Of
<1>2. HandlesInv' BY DEF PoolInv, HandlesInv
<1>3. CallInv'
  <2>1. call'.value = v /\ call'.for = for /\ call'.target = target /\ call'.field = field
    OBVIOUS
  <2>2. Anything' = Anything /\ Of("array")' = Of("array") /\ Of("map")' = Of("map")
    BY DEF Anything, Of
  <2>3. QED BY <2>1, <2>2 DEF CallInv
<1>4. BufferInv' BY DEF BufferInv
<1>5. HeldInv' BY DEF PoolInv, HeldInv
<1>6. QED BY <1>1, <1>2, <1>3, <1>4, <1>5 DEF PoolInv
-----------------------------------------------------------------------------
(* A string, a scalar or an empty array: one buffer, large enough.         *)
LEMMA InOnePieceKeeps == PoolInv /\ ValuePoolAssumption /\ JsonInOnePiece => PoolInv'
<1> SUFFICES ASSUME PoolInv, ValuePoolAssumption, JsonInOnePiece PROVE PoolInv'
  OBVIOUS
<1>1. CASE NoMemory BY <1>1, NoMemoryKeeps DEF JsonInOnePiece
<1>2. CASE ~NoMemory
  <2>1. stage = "called" /\ stage' = "made" /\ held' = {"json"} /\ Working /\ InOnePiece
    BY <1>2 DEF JsonInOnePiece
  <2>2. /\ WorksOn /\ call'.json \in Text /\ call'.cap \in Nat
        /\ NoControls' => call'.json.len + 1 <= call'.cap
    <3>1. CASE call.value.type = "scalar"
      <4>1. call.value.hd \in Text
        BY <2>1, <3>1 DEF PoolInv, CallInv, HandlesInv, Anything, Handle, ValuePoolAssumption
      <4>2. Writing(call.value.hd, call.value.hd.len + 1, FALSE, 1)
        BY <1>2, <3>1 DEF JsonInOnePiece
      <4>3. WorksOn /\ call'.json = call.value.hd /\ call'.cap = call.value.hd.len + 1
        BY <4>2 DEF Writing, WorksOn
      <4>4. QED BY <4>1, <4>3 DEF Text
    <3>2. CASE call.value.type = "string"
      <4> DEFINE text == string_pool[call.value.hd]
      <4>1. text \in Text
        <5>1. call.value \in Of("string")
          BY <2>1, <3>2 DEF PoolInv, CallInv, Anything, Handle, Of
        <5>2. QED BY <5>1 DEF PoolInv, TypeOK
      <4>2. Writing(Escape(text), EscapeRoom(text), FALSE, 1)
        BY <1>2, <3>2 DEF JsonInOnePiece
      <4>3. Escape(text) \in Text /\ (text.controls = 0 => ~Overruns(text))
        BY <4>1, EscapeIsText
      <4>4. EscapeRoom(text) \in Nat
        <5>1. text.len \in Nat BY <4>1, TextFacts, Zenon
        <5> HIDE DEF text
        <5>2. QED BY <5>1 DEF EscapeRoom
      <4>5. WorksOn /\ call'.json = Escape(text) /\ call'.cap = EscapeRoom(text)
        BY <4>2 DEF Writing, WorksOn
      <4>6. NoControls' => text.controls = 0
        BY <2>1, <3>2, <4>5 DEF NoControls, WorksOn, Working, poolVars
      <4> HIDE DEF text
      <4>7. Escape(text).len \in Nat BY <4>3 DEF Text
      <4>8. ~Overruns(text) => Escape(text).len + 1 <= EscapeRoom(text)
        BY <4>4, <4>7 DEF Overruns
      <4>9. QED BY <4>3, <4>4, <4>5, <4>6, <4>8
    <3>3. CASE call.value.type \notin {"scalar", "string"}
      <4> DEFINE json == Json(<<"array", "end">>, 2, 0)
      <4>1. Writing(json, 3, FALSE, 1)
        BY <1>2, <3>3 DEF JsonInOnePiece
      <4>2. json \in Text /\ json.len = 2
        <5>1. <<"array", "end">> \in Seq(Token) BY DEF ValuePoolAssumption
        <5>2. 2 \in Nat /\ 0 \in Nat /\ 0 <= 2 OBVIOUS
        <5>3. json \in Text BY <5>1, <5>2, JsonIsText, Zenon
        <5>4. json.len = 2 BY DEF Json
        <5>5. QED BY <5>3, <5>4
      <4>3. WorksOn /\ call'.json = json /\ call'.cap = 3
        BY <4>1 DEF Writing, WorksOn
      <4> HIDE DEF json
      <4>4. QED BY <4>2, <4>3
    <3>4. QED BY <3>1, <3>2, <3>3
  <2>3. TypeOK' /\ HandlesInv' /\ CallInv' BY <2>1, <2>2, WorkingKeeps
  <2>4. BufferInv' /\ HeldInv' BY <2>1, <2>2 DEF BufferInv, HeldInv
  <2>5. QED BY <2>3, <2>4 DEF PoolInv
<1>3. QED BY <1>1, <1>2

(* BufferInv from the parts of it a step of the loop establishes.          *)
LEMMA WritingBuffer ==
  ASSUME stage' = "writing", call'.json \in Text, call'.cap \in Nat,
         call'.value \in Of("array")' \cup Of("map")',
         call'.at \in Nat \ {0}, call'.comma \in BOOLEAN, call'.json.len + 1 <= call'.cap,
         call'.json.len + 2 <= call'.cap \/ (~call'.comma /\ call'.at <= Last' /\ ~Missing')
  PROVE  BufferInv'
BY DEF BufferInv

LEMMA JsonBeginKeeps == PoolInv /\ ValuePoolAssumption /\ JsonBegin => PoolInv'
<1> SUFFICES ASSUME PoolInv, ValuePoolAssumption, JsonBegin PROVE PoolInv'
  OBVIOUS
<1>1. CASE NoMemory BY <1>1, NoMemoryKeeps DEF JsonBegin
<1>2. CASE ~NoMemory
  <2>1. /\ stage = "called" /\ stage' = "writing" /\ held' = {"json", "cursor"} /\ Working
        /\ ~InOnePiece /\ Writing(Empty, InitialCap, FALSE, 1)
    BY <1>2 DEF JsonBegin
  <2>2. /\ WorksOn
        /\ call'.json = Empty /\ call'.cap = InitialCap /\ call'.comma = FALSE /\ call'.at = 1
    BY <2>1, WritingWorksOn
  <2>3. Empty \in Text /\ Empty.len = 1 BY DEF Empty, Json, Text
  <2>4. call.value \in Of("array") \cup Of("map")
    BY <2>1 DEF InOnePiece, PoolInv, CallInv, HandlesInv, Anything, Handle, Of
  <2>5. TypeOK' /\ HandlesInv' /\ CallInv' BY <2>1, <2>2, WorkingKeeps
  <2>6. call'.value \in Of("array")' \cup Of("map")'
    BY <2>1, <2>2, <2>4 DEF WorksOn, Of, Working, poolVars
  <2>7. BufferInv'
    <3>1. /\ call'.json \in Text /\ call'.cap \in Nat /\ call'.at \in Nat \ {0}
          /\ call'.json.len + 1 <= call'.cap /\ call'.json.len + 2 <= call'.cap
      BY <2>2, <2>3 DEF ValuePoolAssumption
    <3>2. call'.comma \in BOOLEAN BY <2>2, Zenon
    <3>3. stage' = "writing" BY <2>1
    <3>4. QED BY <2>6, <3>1, <3>2, <3>3, WritingBuffer
  <2>8. HeldInv' BY <2>1 DEF HeldInv
  <2>9. QED BY <2>5, <2>7, <2>8 DEF PoolInv
<1>3. QED BY <1>1, <1>2

(* The steps of the loop: what stays as it was while they are made.        *)
LEMMA LoopKeeps ==
  ASSUME PoolInv, Working, WorksOn, stage \in {"writing", "piece"}
  PROVE  /\ call'.value \in Of("array")' \cup Of("map")'
         /\ Last' = Last /\ IsMap' = IsMap
         /\ call'.at = call.at => (Missing' = Missing /\ Piece' = Piece)
<1>1. call'.value \in Of("array")' \cup Of("map")'
  BY DEF PoolInv, BufferInv, WorksOn, Of, Working, poolVars
<1>2. call'.value = call.value /\ array_pool' = array_pool /\ map_pool' = map_pool
  BY DEF WorksOn, Working, poolVars
<1>3. IsMap' = IsMap BY <1>2 DEF IsMap
<1>4. Last' = Last BY <1>2, <1>3 DEF Last, Elements
<1>5. ASSUME call'.at = call.at PROVE Missing' = Missing /\ Piece' = Piece
  <2>1. Missing' = Missing BY <1>2, <1>3, <1>5 DEF Missing, Entries
  <2>2. Piece' = Piece BY <1>2, <1>3, <1>5 DEF Piece, Entries, Elements
  <2>3. QED BY <2>1, <2>2
<1>6. QED BY <1>1, <1>3, <1>4, <1>5

LEMMA JsonSkipKeeps == PoolInv /\ JsonSkip => PoolInv'
<1> SUFFICES ASSUME PoolInv, JsonSkip PROVE PoolInv'
  OBVIOUS
<1>1. /\ WorksOn /\ call'.json = call.json /\ call'.cap = call.cap
      /\ call'.comma = call.comma /\ call'.at = call.at + 1
  BY WritingWorksOn DEF JsonSkip
<1>2. stage = "writing" /\ stage' = "writing" /\ held' = held /\ Working /\ Missing
  BY DEF JsonSkip
<1>3. TypeOK' /\ HandlesInv' /\ CallInv' BY <1>1, <1>2, WorkingKeeps
<1>4. BufferInv'
  <2>1. call'.value \in Of("array")' \cup Of("map")' BY <1>1, <1>2, LoopKeeps
  <2>2. /\ call.json \in Text /\ call.cap \in Nat /\ call.at \in Nat \ {0}
        /\ call.json.len + 1 <= call.cap /\ call.json.len + 2 <= call.cap
    BY <1>2 DEF PoolInv, BufferInv
  <2>3. call.comma \in BOOLEAN BY <1>2 DEF PoolInv, BufferInv
  <2>4. call'.comma \in BOOLEAN BY <1>1, <2>3, Zenon
  <2>5. /\ call'.json \in Text /\ call'.cap \in Nat /\ call'.at \in Nat \ {0}
        /\ call'.json.len + 1 <= call'.cap /\ call'.json.len + 2 <= call'.cap
    BY <1>1, <2>2
  <2>6. QED BY <1>2, <2>1, <2>4, <2>5, WritingBuffer
<1>5. HeldInv' BY <1>2 DEF HeldInv
<1>6. QED BY <1>3, <1>4, <1>5 DEF PoolInv

LEMMA JsonCommaKeeps == PoolInv /\ JsonComma => PoolInv'
<1> SUFFICES ASSUME PoolInv, JsonComma PROVE PoolInv'
  OBVIOUS
<1> DEFINE json == [call.json EXCEPT !.len = @ + 1]
<1>1. stage = "writing" /\ stage' = "writing" /\ held' = held /\ Working
      /\ call.comma /\ call.at <= Last /\ ~Missing
  BY DEF JsonComma, HasPiece
<1>2. Writing(json, call.cap, FALSE, call.at) BY DEF JsonComma
<1>3. json \in Text /\ json.len = call.json.len + 1
  <2>1. call.json \in Text BY <1>1 DEF PoolInv, BufferInv
  <2>2. call.json = [part \in {"body", "len", "quotes", "breaks", "controls"} |-> call.json[part]]
    BY <2>1 DEF Text
  <2>3. json = [body |-> call.json.body, len |-> call.json.len + 1, quotes |-> call.json.quotes,
                breaks |-> call.json.breaks, controls |-> call.json.controls]
    BY <2>2
  <2>4. json \in Text BY <2>1, <2>3, TextFacts DEF Text
  <2>5. QED BY <2>3, <2>4
<1>4. /\ WorksOn /\ call'.json = json /\ call'.cap = call.cap
      /\ call'.comma = FALSE /\ call'.at = call.at
  BY <1>2 DEF Writing, WorksOn
<1> HIDE DEF json
<1>5. TypeOK' /\ HandlesInv' /\ CallInv' BY <1>1, <1>4, WorkingKeeps
<1>6. Last' = Last /\ Missing' = Missing /\ call'.value \in Of("array")' \cup Of("map")'
  BY <1>1, <1>4, LoopKeeps
<1>7. call.json.len \in Nat /\ call.cap \in Nat
      /\ call.json.len + 2 <= call.cap /\ call.at \in Nat \ {0}
  BY <1>1 DEF PoolInv, BufferInv, Text
<1>8. BufferInv'
  <2>1. /\ call'.json \in Text /\ call'.cap \in Nat /\ call'.at \in Nat \ {0}
        /\ call'.json.len + 1 <= call'.cap /\ call'.at <= Last' /\ ~Missing'
    BY <1>1, <1>3, <1>4, <1>6, <1>7
  <2>2. call'.comma \in BOOLEAN /\ ~call'.comma BY <1>4, Zenon
  <2>3. QED BY <1>1, <1>6, <2>1, <2>2, WritingBuffer
<1>9. HeldInv' BY <1>1 DEF HeldInv
<1>10. QED BY <1>5, <1>8, <1>9 DEF PoolInv

LEMMA JsonTakeKeeps == PoolInv /\ JsonTake => PoolInv'
<1> SUFFICES ASSUME PoolInv, JsonTake PROVE PoolInv'
  OBVIOUS
<1>1. stage = "writing" /\ stage' = "piece" /\ Working /\ call' = call
      /\ call.at <= Last /\ ~Missing
  BY DEF JsonTake, HasPiece
<1>2. WorksOn BY <1>1 DEF WorksOn
<1>3. TypeOK' /\ HandlesInv' /\ CallInv' BY <1>1, <1>2, WorkingKeeps
<1>4. Last' = Last /\ Missing' = Missing /\ call'.value \in Of("array")' \cup Of("map")'
  BY <1>1, <1>2, LoopKeeps
<1>5. BufferInv' BY <1>1, <1>4 DEF PoolInv, BufferInv
<1>6. HeldInv' BY <1>1 DEF HeldInv
<1>7. QED BY <1>3, <1>5, <1>6 DEF PoolInv

LEMMA JsonCrashKeeps == PoolInv /\ JsonCrash => PoolInv'
<1> SUFFICES ASSUME PoolInv, JsonCrash PROVE PoolInv'
  OBVIOUS
<1>1. stage \in {"called", "writing"} /\ stage' = "crashed" /\ Working /\ call' = call
  BY DEF JsonCrash, HasPiece
<1>2. WorksOn BY <1>1 DEF WorksOn
<1>3. TypeOK' /\ HandlesInv' /\ CallInv' BY <1>1, <1>2, WorkingKeeps
<1>4. BufferInv' /\ HeldInv' BY <1>1 DEF BufferInv, HeldInv
<1>5. QED BY <1>3, <1>4 DEF PoolInv

LEMMA JsonGrowKeeps == PoolInv /\ JsonGrow => PoolInv'
<1> SUFFICES ASSUME PoolInv, JsonGrow PROVE PoolInv'
  OBVIOUS
<1>1. CASE NoMemory BY <1>1, NoMemoryKeeps DEF JsonGrow
<1>2. CASE ~NoMemory
  <2>1. stage = "piece" /\ stage' = "piece" /\ Working
        /\ Writing(call.json, 2 * call.cap, call.comma, call.at)
    BY <1>2 DEF JsonGrow
  <2>2. /\ WorksOn /\ call'.json = call.json /\ call'.cap = 2 * call.cap
        /\ call'.comma = call.comma /\ call'.at = call.at
    BY <2>1, WritingWorksOn
  <2>3. TypeOK' /\ HandlesInv' /\ CallInv' BY <2>1, <2>2, WorkingKeeps
  <2>4. Last' = Last /\ Missing' = Missing /\ call'.value \in Of("array")' \cup Of("map")'
    BY <2>1, <2>2, LoopKeeps
  <2>5. call.json \in Text /\ call.json.len \in Nat /\ call.cap \in Nat
        /\ call.json.len + 1 <= call.cap
    BY <2>1 DEF PoolInv, BufferInv, Text
  <2>6. BufferInv' BY <2>1, <2>2, <2>4, <2>5 DEF PoolInv, BufferInv
  <2>7. HeldInv' BY <2>1 DEF HeldInv
  <2>8. QED BY <2>3, <2>6, <2>7 DEF PoolInv
<1>3. QED BY <1>1, <1>2

(* What is written leaves room for the next comma, or the bracket.         *)
LEMMA JsonPieceKeeps == PoolInv /\ ValuePoolAssumption /\ JsonPiece => PoolInv'
<1> SUFFICES ASSUME PoolInv, ValuePoolAssumption, JsonPiece PROVE PoolInv'
  OBVIOUS
<1>1. stage = "piece" /\ stage' = "writing" /\ Working /\ Fits
      /\ Writing(WithPiece, call.cap, TRUE, call.at + 1)
  BY DEF JsonPiece
<1>2. /\ WorksOn /\ call'.json = WithPiece /\ call'.cap = call.cap
      /\ call'.comma = TRUE /\ call'.at = call.at + 1
  BY <1>1, WritingWorksOn
<1>3. TypeOK' /\ HandlesInv' /\ CallInv' BY <1>1, <1>2, WorkingKeeps
<1>4. call'.value \in Of("array")' \cup Of("map")' BY <1>1, <1>2, LoopKeeps
<1>5. Piece \in Text BY <1>1, PieceIsText DEF PoolInv, BufferInv
<1>6. call.json \in Text /\ call.cap \in Nat /\ call.at \in Nat \ {0}
  BY <1>1 DEF PoolInv, BufferInv
<1>7. WithPiece \in Text /\ WithPiece.len = call.json.len + Piece.len
  <2>1. call.json.body \o Piece.body \in Seq(Token) BY <1>5, <1>6 DEF Text
  <2>2. /\ call.json.len \in Nat /\ call.json.quotes \in Nat /\ call.json.quotes <= call.json.len
        /\ Piece.len \in Nat /\ Piece.quotes \in Nat /\ Piece.quotes <= Piece.len
    BY <1>5, <1>6, TextFacts
  <2>3. /\ call.json.len + Piece.len \in Nat /\ call.json.quotes + Piece.quotes \in Nat
        /\ call.json.quotes + Piece.quotes <= call.json.len + Piece.len
    BY <2>2
  <2>4. WithPiece \in Text BY <2>1, <2>3, JsonIsText, Zenon DEF WithPiece
  <2>5. WithPiece.len = call.json.len + Piece.len BY DEF WithPiece, Json
  <2>6. QED BY <2>4, <2>5
<1>8. WithPiece.len + 2 <= call.cap
  <2>1. Piece.len \in Nat /\ call.json.len \in Nat BY <1>5, <1>6 DEF Text
  <2>2. QED BY <1>1, <1>6, <1>7, <2>1 DEF Fits, Need
<1>9. WithPiece.len \in Nat BY <1>7 DEF Text
<1> HIDE DEF WithPiece
<1>10. BufferInv'
  <2>1. /\ call'.json \in Text /\ call'.cap \in Nat /\ call'.at \in Nat \ {0}
        /\ call'.json.len + 1 <= call'.cap /\ call'.json.len + 2 <= call'.cap
    BY <1>2, <1>6, <1>7, <1>8, <1>9
  <2>2. call'.comma \in BOOLEAN BY <1>2, Zenon
  <2>3. QED BY <1>1, <1>4, <2>1, <2>2, WritingBuffer
<1>11. HeldInv' BY <1>1 DEF HeldInv
<1>12. QED BY <1>3, <1>10, <1>11 DEF PoolInv

LEMMA JsonEndKeeps == PoolInv /\ ValuePoolAssumption /\ JsonEnd => PoolInv'
<1> SUFFICES ASSUME PoolInv, ValuePoolAssumption, JsonEnd PROVE PoolInv'
  OBVIOUS
<1> DEFINE json == Json(<<call.value.type>> \o call.json.body \o <<"end">>,
                        call.json.len + 1, call.json.quotes)
<1>1. stage = "writing" /\ stage' = "made" /\ held' = {"json"} /\ Working /\ call.at > Last
  BY DEF JsonEnd
<1>2. Writing(json, call.cap, FALSE, call.at) BY DEF JsonEnd
<1>3. call.json \in Text /\ call.cap \in Nat /\ call.at \in Nat
  BY <1>1 DEF PoolInv, BufferInv
<1>4. json \in Text /\ json.len = call.json.len + 1
  <2>1. call.value.type \in Token
    BY <1>1 DEF PoolInv, BufferInv, Of, ValuePoolAssumption
  <2>2. <<call.value.type>> \in Seq(Token) BY <2>1
  <2>3. <<"end">> \in Seq(Token) BY DEF ValuePoolAssumption
  <2>4. call.json.body \in Seq(Token) BY <1>3 DEF Text
  <2>5. <<call.value.type>> \o call.json.body \o <<"end">> \in Seq(Token)
    BY <2>2, <2>3, <2>4
  <2>6. call.json.len \in Nat /\ call.json.quotes \in Nat /\ call.json.quotes <= call.json.len
    BY <1>3, TextFacts
  <2>7. call.json.len + 1 \in Nat /\ call.json.quotes <= call.json.len + 1
    BY <2>6
  <2>8. json \in Text BY <2>5, <2>6, <2>7, JsonIsText, Zenon
  <2>9. json.len = call.json.len + 1 BY DEF Json
  <2>10. QED BY <2>8, <2>9
<1>5. call.json.len + 2 <= call.cap /\ call.json.len \in Nat
  <2>1. Last \in Nat
    <3>1. Elements(call.value.hd) \in Seq(Text) BY StoredIsText DEF PoolInv
    <3>2. QED BY <3>1 DEF Last, ValuePoolAssumption
  <2>2. QED BY <1>1, <1>3, <2>1 DEF PoolInv, BufferInv, Text
<1>6. WorksOn /\ call'.json = json /\ call'.cap = call.cap
  BY <1>2 DEF Writing, WorksOn
<1> HIDE DEF json
<1>7. TypeOK' /\ HandlesInv' /\ CallInv' BY <1>1, <1>6, WorkingKeeps
<1>8. BufferInv' BY <1>1, <1>3, <1>4, <1>5, <1>6 DEF BufferInv
<1>9. HeldInv' BY <1>1 DEF HeldInv
<1>10. QED BY <1>7, <1>8, <1>9 DEF PoolInv
-----------------------------------------------------------------------------
LEMMA HdIn ==
  ASSUME NEW A, NEW h \in A
  PROVE  h.hd \in { v.hd : v \in A }
OBVIOUS

(* The JSON text of a value is put into an array or a map.                 *)
LEMMA ReturnKeeps == PoolInv /\ Return => PoolInv'
<1> SUFFICES ASSUME PoolInv, Return PROVE PoolInv'
  OBVIOUS
<1>1. /\ stage = "made" /\ stage' = "idle" /\ held' = {}
      /\ ctx' = ctx /\ pools' = pools /\ next_id' = next_id /\ values' = values
      /\ string_pool' = string_pool
  BY DEF Return
<1>2. /\ Of("string")' = Of("string") /\ Of("array")' = Of("array") /\ Of("map")' = Of("map")
  BY <1>1 DEF Of
<1>3. call.json \in Text BY <1>1 DEF PoolInv, BufferInv
<1>4. /\ DOMAIN array_pool' \subseteq { v.hd : v \in Of("array") }
      /\ \A id \in DOMAIN array_pool' : array_pool'[id] \in Seq(Text)
  <2>1. CASE call.for = "push"
    <3>1. array_pool' = Put(array_pool, call.target.hd,
                           Append(Elements(call.target.hd), call.json))
      BY <2>1 DEF Return
    <3>2. call.target \in Of("array") BY <1>1, <2>1 DEF PoolInv, CallInv
    <3>3. call.target.hd \in { v.hd : v \in Of("array") } BY <3>2, HdIn
    <3>4. Append(Elements(call.target.hd), call.json) \in Seq(Text)
      <4>1. Elements(call.target.hd) \in Seq(Text) BY StoredIsText DEF PoolInv
      <4>2. QED BY <1>3, <4>1
    <3>5. DOMAIN array_pool' = DOMAIN array_pool \cup {call.target.hd}
      BY <3>1 DEF Put
    <3>6. DOMAIN array_pool \subseteq { v.hd : v \in Of("array") } BY DEF PoolInv, TypeOK
    <3>7. \A id \in DOMAIN array_pool' : array_pool'[id] \in Seq(Text)
      BY <3>1, <3>4 DEF PoolInv, TypeOK, Put
    <3>8. QED BY <3>3, <3>5, <3>6, <3>7
  <2>2. CASE call.for # "push"
    <3>1. array_pool' = array_pool BY <2>2 DEF Return
    <3>2. QED BY <3>1 DEF PoolInv, TypeOK
  <2>3. QED BY <2>1, <2>2
<1>5. /\ DOMAIN map_pool' \subseteq { v.hd : v \in Of("map") }
      /\ \A id \in DOMAIN map_pool' : \A f \in DOMAIN map_pool'[id] :
           f \in Fields /\ map_pool'[id][f] \in Text
  <2>1. CASE call.for = "set"
    <3> DEFINE entries == Put(Entries(call.target.hd), call.field, call.json)
    <3>1. map_pool' = Put(map_pool, call.target.hd, entries)
      BY <2>1 DEF Return
    <3>2. call.target \in Of("map") /\ call.field \in Fields
      BY <1>1, <2>1 DEF PoolInv, CallInv
    <3>3. call.target.hd \in { v.hd : v \in Of("map") } BY <3>2, HdIn
    <3>4. \A f \in DOMAIN entries : f \in Fields /\ entries[f] \in Text
      <4>1. \A f \in DOMAIN Entries(call.target.hd) :
              f \in Fields /\ Entries(call.target.hd)[f] \in Text
        BY StoredIsText DEF PoolInv
      <4>2. QED BY <1>3, <3>2, <4>1 DEF Put
    <3> HIDE DEF entries
    <3>5. DOMAIN map_pool' = DOMAIN map_pool \cup {call.target.hd}
      BY <3>1 DEF Put
    <3>6. DOMAIN map_pool \subseteq { v.hd : v \in Of("map") } BY DEF PoolInv, TypeOK
    <3>7. \A id \in DOMAIN map_pool' : \A f \in DOMAIN map_pool'[id] :
           f \in Fields /\ map_pool'[id][f] \in Text
      BY <3>1, <3>4 DEF PoolInv, TypeOK, Put
    <3>8. QED BY <3>3, <3>5, <3>6, <3>7
  <2>2. CASE call.for # "set"
    <3>1. map_pool' = map_pool BY <2>2 DEF Return
    <3>2. QED BY <3>1 DEF PoolInv, TypeOK
  <2>3. QED BY <2>1, <2>2
<1>6. TypeOK' BY <1>1, <1>2, <1>4, <1>5 DEF PoolInv, TypeOK
<1>7. HandlesInv' BY <1>1 DEF PoolInv, HandlesInv
<1>8. CallInv' /\ BufferInv' /\ HeldInv' BY <1>1 DEF CallInv, BufferInv, HeldInv
<1>9. QED BY <1>6, <1>7, <1>8 DEF PoolInv

LEMMA ReturnNullKeeps == PoolInv /\ ReturnNull => PoolInv'
<1> SUFFICES ASSUME PoolInv, ReturnNull PROVE PoolInv'
  OBVIOUS
<1> USE DEF ReturnNull, poolVars
<1>1. TypeOK' BY DEF PoolInv, TypeOK, Of
<1>2. HandlesInv' BY DEF PoolInv, HandlesInv
<1>3. CallInv' /\ BufferInv' BY DEF CallInv, BufferInv
<1>4. HeldInv' BY DEF PoolInv, HeldInv
<1>5. QED BY <1>1, <1>2, <1>3, <1>4 DEF PoolInv

LEMMA StutterKeeps == PoolInv /\ UNCHANGED vars => PoolInv'
<1> SUFFICES ASSUME PoolInv, UNCHANGED vars PROVE PoolInv'
  OBVIOUS
<1> USE DEF vars, poolVars, callVars
<1>1. TypeOK' BY DEF PoolInv, TypeOK, Of
<1>2. HandlesInv' BY DEF PoolInv, HandlesInv
<1>3. CallInv' BY DEF PoolInv, CallInv, Anything, Of
<1>4. BufferInv' BY DEF PoolInv, BufferInv, NoControls, Of, Last, Missing, IsMap, Elements, Entries
<1>5. HeldInv' BY DEF PoolInv, HeldInv
<1>6. QED BY <1>1, <1>2, <1>3, <1>4, <1>5 DEF PoolInv

(* Every operation keeps the invariant.                                    *)
LEMMA NextKeeps == PoolInv /\ [Next]_vars => PoolInv'
<1> SUFFICES ASSUME PoolInv, [Next]_vars PROVE PoolInv'
  OBVIOUS
<1>1. CASE CtxNew BY <1>1, CtxNewKeeps
<1>2. CASE CtxFree BY <1>2, CtxFreeKeeps
<1>3. ASSUME Quick, NEW t \in Texts, NewString(t) PROVE PoolInv'
  <2>1. t \in Text BY ValuePoolAssumption
  <2>2. QED BY <1>3, <2>1, NewStringKeeps, ValuePoolAssumption
<1>4. ASSUME Quick, NEW type \in {"array", "map"}, NewContainer(type) PROVE PoolInv'
  BY <1>4, NewContainerKeeps
<1>5. ASSUME Quick, NEW a \in Of("array"), NEW idx \in 0 .. 1, ArrayGet(a, idx) PROVE PoolInv'
  BY <1>5, ArrayGetKeeps, ValuePoolAssumption
<1>6. ASSUME Quick, NEW m \in Of("map"), NEW f \in Fields, MapGet(m, f) PROVE PoolInv'
  BY <1>6, MapGetKeeps, ValuePoolAssumption
<1>7. ASSUME NEW v \in Anything, Begin("json", v, Head(FieldNames), v) PROVE PoolInv'
  BY <1>7, BeginKeeps
<1>8. ASSUME NEW v \in Anything, NEW a \in Of("array"), Begin("push", a, Head(FieldNames), v)
      PROVE PoolInv'
  BY <1>8, BeginKeeps
<1>9. ASSUME NEW v \in Anything, NEW m \in Of("map"), NEW f \in Fields, Begin("set", m, f, v)
      PROVE PoolInv'
  BY <1>9, BeginKeeps
<1>10. CASE JsonInOnePiece BY <1>10, InOnePieceKeeps, ValuePoolAssumption
<1>11. CASE JsonBegin BY <1>11, JsonBeginKeeps, ValuePoolAssumption
<1>12. CASE JsonSkip BY <1>12, JsonSkipKeeps
<1>13. CASE JsonComma BY <1>13, JsonCommaKeeps
<1>14. CASE JsonTake BY <1>14, JsonTakeKeeps
<1>15. CASE JsonCrash BY <1>15, JsonCrashKeeps
<1>16. CASE JsonGrow BY <1>16, JsonGrowKeeps
<1>17. CASE JsonPiece BY <1>17, JsonPieceKeeps, ValuePoolAssumption
<1>18. CASE JsonEnd BY <1>18, JsonEndKeeps, ValuePoolAssumption
<1>19. CASE Return BY <1>19, ReturnKeeps
<1>20. CASE ReturnNull BY <1>20, ReturnNullKeeps
<1>21. CASE UNCHANGED vars BY <1>21, StutterKeeps
<1>22. QED
  BY <1>1, <1>2, <1>3, <1>4, <1>5, <1>6, <1>7, <1>8, <1>9, <1>10, <1>11, <1>12, <1>13,
     <1>14, <1>15, <1>16, <1>17, <1>18, <1>19, <1>20, <1>21
  DEF Next

LEMMA PoolInvariant == Spec => []PoolInv
<1>1. Init => PoolInv BY InitPool
<1>2. PoolInv /\ [Next]_vars => PoolInv' BY NextKeeps
<1>3. QED BY <1>1, <1>2, PTL DEF Spec

-----------------------------------------------------------------------------
(* hyle_ctx_new, hyle_ctx_free and value.c: the type invariant, whatever   *)
(* the texts, the keys, the size of the first buffer and the length of the *)
(* life of a context, and wherever memory runs out.                        *)
THEOREM PoolTypeCorrect == Spec => []TypeOK
<1>1. PoolInv => TypeOK BY DEF PoolInv
<1>2. QED BY <1>1, PoolInvariant, PTL

(* hyle_val_to_json never writes past the end of its buffer, whatever the  *)
(* texts and however the buffer started, from three characters on; nor     *)
(* does json_escape, as long as a text has no control character other than *)
(* newlines, tabs and returns.  With one that is not so: a text that is    *)
(* nothing but that character needs nine characters and has room for five. *)
THEOREM PoolJsonFits == Spec => []JsonFits
<1>1. PoolInv => JsonFits
  <2> SUFFICES ASSUME PoolInv PROVE JsonFits
    OBVIOUS
  <2>1. stage \in {"writing", "piece"} => call.json.len + 1 <= call.cap
    BY DEF PoolInv, BufferInv
  <2>2. stage = "made" /\ NoControls => call.json.len + 1 <= call.cap
    BY DEF PoolInv, BufferInv
  <2>3. ASSUME stage = "writing", call.comma PROVE call.json.len + 1 < call.cap
    <3>1. call.json.len \in Nat /\ call.cap \in Nat BY <2>3 DEF PoolInv, BufferInv, Text
    <3>2. call.json.len + 2 <= call.cap BY <2>3 DEF PoolInv, BufferInv
    <3>3. QED BY <3>1, <3>2
  <2>4. ASSUME stage = "piece", IsMap, FieldNames[call.at].controls = 0
        PROVE  ~Overruns(FieldNames[call.at])
    <3>1. FieldNames[call.at] \in Text
      BY <2>4, ValuePoolAssumption DEF PoolInv, BufferInv, Last
    <3>2. QED BY <2>4, <3>1, EscapeIsText
  <2>5. QED BY <2>1, <2>2, <2>3, <2>4 DEF JsonFits
<1>2. QED BY <1>1, PoolInvariant, PTL

(* hyle_val_to_json, hyle_val_array_push and hyle_val_map_set: a call that *)
(* returns holds nothing but the text it made.                             *)
THEOREM PoolFreesAll == Spec => []OnlyTheTextIsHeld
<1>1. PoolInv => OnlyTheTextIsHeld BY DEF PoolInv, HeldInv, OnlyTheTextIsHeld
<1>2. QED BY <1>1, PoolInvariant, PTL
-----------------------------------------------------------------------------
(* What one step may do to a value that is there before and after it.      *)
KeepsOrTargets(v) ==
  \/ Content(v)' = Content(v)
  \/ stage = "made" /\ call.for \in {"push", "set"} /\ call.target = v

LEMMA PoolsUnchanged ==
  ASSUME NEW v \in values, string_pool' = string_pool, array_pool' = array_pool,
         map_pool' = map_pool
  PROVE  KeepsOrTargets(v)
BY DEF KeepsOrTargets, Content, Elements, Entries

(* The number of a new string is not that of any other value.              *)
LEMMA NewStringContent ==
  ASSUME PoolInv, NEW t, NewString(t), NEW v \in values
  PROVE  KeepsOrTargets(v)
<1>1. CASE v.type = "string"
  <2>1. v \in Of("string") BY <1>1 DEF Of
  <2>2. v.hd \in DOMAIN string_pool BY <2>1, HdIn DEF PoolInv, TypeOK
  <2>3. v.hd # next_id BY DEF PoolInv, TypeOK, HandlesInv
  <2>4. string_pool'[v.hd] = string_pool[v.hd] BY <2>2, <2>3 DEF NewString, Put
  <2>5. QED BY <1>1, <2>4 DEF KeepsOrTargets, Content
<1>2. CASE v.type # "string"
  BY <1>2 DEF KeepsOrTargets, Content, Elements, Entries, NewString
<1>3. QED BY <1>1, <1>2

(* Two values of one number are one value.                                 *)
LEMMA ReturnContent ==
  ASSUME PoolInv, Return, NEW v \in values
  PROVE  KeepsOrTargets(v)
<1>1. stage = "made" /\ string_pool' = string_pool BY DEF Return
<1>2. CASE call.for \in {"push", "set"}
  <2>1. call.target \in values BY <1>1, <1>2 DEF PoolInv, CallInv, Of
  <2>2. CASE call.target = v BY <1>1, <1>2, <2>2 DEF KeepsOrTargets
  <2>3. CASE call.target # v
    <3>1. v.hd # call.target.hd BY <2>1, <2>3 DEF PoolInv, TypeOK
    <3>2. Elements(v.hd)' = Elements(v.hd)
      <4>1. CASE call.for = "push"
        <5>1. array_pool' = Put(array_pool, call.target.hd,
                               Append(Elements(call.target.hd), call.json))
          BY <4>1 DEF Return
        <5>2. QED BY <3>1, <5>1 DEF Put, Elements
      <4>2. CASE call.for # "push" BY <4>2 DEF Return, Elements
      <4>3. QED BY <4>1, <4>2
    <3>3. Entries(v.hd)' = Entries(v.hd)
      <4>1. CASE call.for = "set"
        <5>1. map_pool' = Put(map_pool, call.target.hd,
                             Put(Entries(call.target.hd), call.field, call.json))
          BY <4>1 DEF Return
        <5>2. QED BY <3>1, <5>1 DEF Put, Entries
      <4>2. CASE call.for # "set" BY <4>2 DEF Return, Entries
      <4>3. QED BY <4>1, <4>2
    <3>4. QED BY <1>1, <3>2, <3>3 DEF KeepsOrTargets, Content
  <2>4. QED BY <2>2, <2>3
<1>3. CASE call.for \notin {"push", "set"}
  <2>1. array_pool' = array_pool /\ map_pool' = map_pool BY <1>3 DEF Return
  <2>2. QED BY <1>1, <2>1, PoolsUnchanged
<1>4. QED BY <1>2, <1>3

(* The steps that leave the pools alone.                                   *)
LEMMA WorkingContent ==
  ASSUME NEW v \in values,
         \/ JsonInOnePiece \/ JsonBegin \/ JsonSkip \/ JsonComma \/ JsonTake \/ JsonCrash
         \/ JsonGrow \/ JsonPiece \/ JsonEnd \/ ReturnNull
  PROVE  KeepsOrTargets(v)
<1>1. UNCHANGED poolVars
  BY DEF JsonInOnePiece, JsonBegin, JsonSkip, JsonComma, JsonTake, JsonCrash, JsonGrow,
         JsonPiece, JsonEnd, ReturnNull, NoMemory, Working
<1>2. QED BY <1>1, PoolsUnchanged DEF poolVars

LEMMA StepChangesOnlyTheTarget ==
  PoolInv /\ [Next]_vars => \A v \in values \cap values' : KeepsOrTargets(v)
<1> SUFFICES ASSUME PoolInv, [Next]_vars, NEW v \in values, v \in values'
             PROVE  KeepsOrTargets(v)
  OBVIOUS
<1>1. ~CtxNew /\ ~CtxFree BY DEF CtxNew, CtxFree, NoValues
<1>2. ASSUME NEW t, NewString(t) PROVE KeepsOrTargets(v)
  BY <1>2, NewStringContent
<1>3. ASSUME NEW type, NewContainer(type) PROVE KeepsOrTargets(v)
  BY <1>3, PoolsUnchanged DEF NewContainer
<1>4. ASSUME NEW a, NEW idx, ArrayGet(a, idx) PROVE KeepsOrTargets(v)
  <2>1. CASE UNCHANGED poolVars BY <2>1, PoolsUnchanged DEF poolVars
  <2>2. CASE NewString(Elements(a.hd)[idx + 1]) BY <2>2, NewStringContent
  <2>3. QED BY <1>4, <2>1, <2>2 DEF ArrayGet
<1>5. ASSUME NEW m, NEW f, MapGet(m, f) PROVE KeepsOrTargets(v)
  <2>1. CASE UNCHANGED poolVars BY <2>1, PoolsUnchanged DEF poolVars
  <2>2. CASE NewString(Entries(m.hd)[f]) BY <2>2, NewStringContent
  <2>3. QED BY <1>5, <2>1, <2>2 DEF MapGet
<1>6. ASSUME NEW for, NEW target, NEW field, NEW value, Begin(for, target, field, value)
      PROVE  KeepsOrTargets(v)
  BY <1>6, PoolsUnchanged DEF Begin, poolVars
<1>7. CASE JsonInOnePiece \/ JsonBegin \/ JsonSkip \/ JsonComma \/ JsonTake \/ JsonCrash
           \/ JsonGrow \/ JsonPiece \/ JsonEnd \/ ReturnNull
  BY <1>7, WorkingContent
<1>8. CASE Return BY <1>8, ReturnContent
<1>9. CASE UNCHANGED vars BY <1>9, PoolsUnchanged DEF vars, poolVars
<1>10. QED BY <1>1, <1>2, <1>3, <1>4, <1>5, <1>6, <1>7, <1>8, <1>9 DEF Next

(* hyle_val_array_push and hyle_val_map_set change the value they are      *)
(* called for, and no other call of value.c changes any: neither reading   *)
(* nor making a value, nor a push or set into another container.           *)
THEOREM PoolOnlyTheTarget == Spec => OnlyTheTargetChanges
<1>1. PoolInv /\ [Next]_vars =>
        [\A v \in values \cap values' :
           \/ Content(v)' = Content(v)
           \/ stage = "made" /\ call.for \in {"push", "set"} /\ call.target = v]_vars
  BY StepChangesOnlyTheTarget DEF KeepsOrTargets
<1>2. QED BY <1>1, PoolInvariant, PTL DEF Spec, OnlyTheTargetChanges
=============================================================================
