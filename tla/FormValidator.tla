---------------------------- MODULE FormValidator ----------------------------
(***************************************************************************)
(* createFormValidator of the npm package: the values of a form, checked   *)
(* by the browser at every write, and listeners that are told; and the     *)
(* server that checks the row again when the form is submitted.            *)
(*                                                                         *)
(* A listener runs inside the loop that calls it and may write, subscribe  *)
(* and unsubscribe from there, or throw.  A loop in progress is a frame:   *)
(* the state it hands out, the listeners it has still to call, and the one *)
(* that is running.  Frames nest, the innermost is the last.               *)
(***************************************************************************)
EXTENDS Purify, FiniteSets

CONSTANTS
  Names,        \* field names
  JsValues,     \* what a field of the form may hold
  Schemas,      \* the field sequences a form may be created with
  MoreFields,   \* what addField may add
  Listener,     \* subscribers
  MaxWrites,    \* bound: calls of setField
  MaxDepth      \* bound: loops that are nested

(* A HyleFieldDesc of the npm package.                                     *)
IsField(f) ==
  /\ DOMAIN f = {"name", "type", "required", "min", "max", "min_length", "max_length",
                 "pattern"}
  /\ f.name \in Names

ASSUME FormValidatorAssumption ==
  /\ MaxWrites \in Nat /\ MaxDepth \in Nat
  /\ \A schema \in Schemas :
       /\ schema \in Seq(ToSet(schema))
       /\ \A n \in DOMAIN schema : IsField(schema[n])
  /\ \A f \in MoreFields : IsField(f)

VARIABLES
  fields,       \* schema.fields
  values,
  isDirty,
  validation,   \* the errors of the last check
  listeners,    \* the Set, in the order of subscription
  frames,       \* the loops in progress
  heard,        \* the state each listener was called with last
  told,         \* who was called with what is the state now (history)
  writes,
  excused,      \* a listener wrote or threw, the schema grew (history)
  submitted     \* where the row went, and what the browser said of it

formVars == <<fields, values, isDirty, validation, listeners, frames, heard, told,
              writes, excused>>
vars == <<formVars, submitted, purify>>

State == [values |-> values, isDirty |-> isDirty, errors |-> validation]
NotSubmitted == [to |-> "nobody", errors |-> <<>>]
NotExcused == [wrote |-> FALSE, threw |-> FALSE, grew |-> FALSE]

Init ==
  /\ fields \in Schemas
  /\ values \in [Names -> {NULL}]
  /\ isDirty = FALSE
  /\ validation = ValidateRow(fields, values)
  /\ listeners = <<>> /\ frames = <<>>
  /\ heard = [l \in Listener |-> NULL]
  /\ told = {}
  /\ writes = 0
  /\ excused = NotExcused
  /\ submitted = NotSubmitted
  /\ purify = NoCall

Subscribed == ToSet(listeners)
Quiet == frames = <<>>

(* Program code runs outside of every loop or in a listener of the         *)
(* innermost one, and not while a submission is checked.                   *)
ProgramRuns ==
  /\ ~Quiet => Last(frames).running # NULL
  /\ purify.stage = "idle"

-----------------------------------------------------------------------------
(* Mutant: a write from a listener is left to the loop in progress.        *)
SetFieldOnce(name, value) ==
  /\ ProgramRuns /\ writes < MaxWrites /\ Len(frames) < MaxDepth
  /\ values' = [values EXCEPT ![name] = value]
  /\ isDirty' = TRUE
  /\ validation' = ValidateRow(fields, values')
  /\ frames' = IF Quiet THEN <<[state |-> State', left |-> listeners, running |-> NULL]>>
               ELSE frames
  /\ told' = {}
  /\ writes' = writes + 1
  /\ excused' = [excused EXCEPT !.wrote = @ \/ ~Quiet, !.grew = FALSE]
  /\ UNCHANGED <<fields, listeners, heard, submitted, purify>>

(* Mutant: the loop begins before the row is checked.                      *)
SetFieldUnchecked(name, value) ==
  /\ ProgramRuns /\ writes < MaxWrites /\ Len(frames) < MaxDepth
  /\ values' = [values EXCEPT ![name] = value]
  /\ isDirty' = TRUE
  /\ validation' = ValidateRow(fields, values')
  /\ frames' = Append(frames, [state |-> [State' EXCEPT !.errors = validation],
                               left |-> listeners, running |-> NULL])
  /\ told' = {}
  /\ writes' = writes + 1
  /\ excused' = [excused EXCEPT !.wrote = @ \/ ~Quiet, !.grew = FALSE]
  /\ UNCHANGED <<fields, listeners, heard, submitted, purify>>

(* setField, up to the loop of notify.                                     *)
SetField(name, value) ==
  /\ ProgramRuns /\ writes < MaxWrites /\ Len(frames) < MaxDepth
  /\ values' = [values EXCEPT ![name] = value]
  /\ isDirty' = TRUE
  /\ validation' = ValidateRow(fields, values')
  /\ frames' = Append(frames, [state |-> State', left |-> listeners, running |-> NULL])
  /\ told' = {}
  /\ writes' = writes + 1
  /\ excused' = [excused EXCEPT !.wrote = @ \/ ~Quiet, !.grew = FALSE]
  /\ UNCHANGED <<fields, listeners, heard, submitted, purify>>

Top == Len(frames)

(* The loop of notify calls the next listener.                             *)
Call ==
  /\ ~Quiet /\ frames[Top].left # <<>>
  /\ LET l == Head(frames[Top].left)
     IN /\ frames' = [frames EXCEPT ![Top].left = Tail(@), ![Top].running = l]
        /\ heard' = [heard EXCEPT ![l] = frames[Top].state]
        /\ told' = IF frames[Top].state = State THEN told \cup {l} ELSE told
  /\ UNCHANGED <<fields, values, isDirty, validation, listeners, writes, excused,
                 submitted, purify>>

LoopEnds ==
  /\ ~Quiet /\ frames[Top].left = <<>>
  /\ frames' = Front(frames)
  /\ UNCHANGED <<fields, values, isDirty, validation, listeners, heard, told, writes,
                 excused, submitted, purify>>

(* A listener throws: its loop is left, the rest of it is not called.      *)
Throw ==
  /\ ~Quiet /\ frames[Top].running # NULL
  /\ frames' = Front(frames)
  /\ excused' = [excused EXCEPT !.threw = TRUE]
  /\ UNCHANGED <<fields, values, isDirty, validation, listeners, heard, told, writes,
                 submitted, purify>>

(* subscribe.  A loop over a Set goes on to members that join it; one that *)
(* is in it already is called once more, with the state of now.            *)
Subscribe(l) ==
  /\ ProgramRuns
  /\ IF l \in Subscribed THEN UNCHANGED <<listeners, frames>>
     ELSE /\ listeners' = Append(listeners, l)
          /\ frames' = [n \in DOMAIN frames |-> [frames[n] EXCEPT !.left = Append(@, l)]]
  /\ heard' = [heard EXCEPT ![l] = State]
  /\ told' = told \cup {l}
  /\ UNCHANGED <<fields, values, isDirty, validation, writes, excused, submitted, purify>>

(* Mutant: the loops in progress run over a copy of the Set.               *)
UnsubscribeLater(l) ==
  /\ ProgramRuns /\ l \in Subscribed
  /\ listeners' = RemoveFirst(listeners, l)
  /\ UNCHANGED <<fields, values, isDirty, validation, frames, heard, told, writes,
                 excused, submitted, purify>>

(* The function subscribe returns.  A loop passes over members that left.  *)
Unsubscribe(l) ==
  /\ ProgramRuns /\ l \in Subscribed
  /\ listeners' = RemoveFirst(listeners, l)
  /\ frames' = [n \in DOMAIN frames |-> [frames[n] EXCEPT !.left = RemoveFirst(@, l)]]
  /\ UNCHANGED <<fields, values, isDirty, validation, heard, told, writes, excused,
                 submitted, purify>>

(* HyleSchema.addField: the form is not checked again.                     *)
AddField(f) ==
  /\ ProgramRuns /\ ~Contains(fields, f)
  /\ fields' = Append(fields, f)
  /\ excused' = [excused EXCEPT !.grew = TRUE]
  /\ UNCHANGED <<values, isDirty, validation, listeners, frames, heard, told, writes,
                 submitted, purify>>

-----------------------------------------------------------------------------
(* The row is sent to a server: one on Node, whose validateRow goes to the *)
(* native addon, or one in C.                                              *)
NodeTexts == [n \in DOMAIN fields |-> NativeText(values[fields[n].name])]
CTexts == [n \in DOMAIN fields |-> TextOf(values[fields[n].name])]

SubmitToNode ==
  /\ Quiet /\ ProgramRuns
  /\ PurifyStart([n \in DOMAIN fields |-> NativeField(fields[n])], NodeTexts)
  /\ submitted' = [to |-> "node", errors |-> validation]
  /\ UNCHANGED formVars

SubmitToC ==
  /\ Quiet /\ ProgramRuns
  /\ PurifyStart(fields, CTexts)
  /\ submitted' = [to |-> "c", errors |-> validation]
  /\ UNCHANGED formVars

Check == (PurifyField \/ PurifyReturn) /\ UNCHANGED <<formVars, submitted>>

Answered == PurifyErrorsFree /\ submitted' = NotSubmitted /\ UNCHANGED formVars

Next ==
  \/ \E name \in Names, value \in JsValues : SetField(name, value)
  \/ Call \/ LoopEnds \/ Throw
  \/ \E l \in Listener : Subscribe(l) \/ Unsubscribe(l)
  \/ \E f \in MoreFields : AddField(f)
  \/ SubmitToNode \/ SubmitToC \/ Check \/ Answered

Spec == Init /\ [][Next]_vars

-----------------------------------------------------------------------------
(* hyle_purify_row stays within its array, which has room for one error of *)
(* each field.                                                             *)
ErrorsFit == Len(purify.errors) <= Len(purify.fields)

(* The type invariant: listeners are a Set, a loop has listeners left that *)
(* are subscribed, and errors fit their array.                             *)
TypeOK ==
  /\ values \in [Names -> JsValues \cup {NULL}]
  /\ isDirty \in BOOLEAN
  /\ IsInjective(listeners) /\ Subscribed \subseteq Listener
  /\ \A n \in DOMAIN frames : ToSet(frames[n].left) \subseteq Subscribed
  /\ Len(frames) <= MaxDepth /\ writes \in 0 .. MaxWrites
  /\ ErrorsFit
  /\ purify.stage \in {"idle", "checking", "valid", "invalid", "failed"}

(* "observable state updates": when nothing is being told, what every      *)
(* subscriber heard last is the state of the form.  It holds as long as no *)
(* listener writes, because a loop goes on with its older state after one  *)
(* nested in it, and none throws.                                          *)
LastHeardIsCurrent ==
  Quiet /\ ~excused.wrote /\ ~excused.threw =>
    \A l \in Subscribed : heard[l] = State

(* Nobody misses an update: every subscriber was called with the state of  *)
(* now at some time, also when listeners write from inside a loop.         *)
NoUpdateMissed == Quiet /\ ~excused.threw => Subscribed \subseteq told

(* "Should not notify after unsubscribe": who is not subscribed when a     *)
(* listener is called is not the one that is called.                       *)
OnlySubscribersAreCalled ==
  [][\A l \in Listener : heard'[l] # heard[l] => l \in ToSet(listeners')]_vars

(* "Zero regex divergence or validation error mismatches across client and *)
(* server" is more than the code keeps: validateRow tries the pattern of a *)
(* field whose length is wrong too, hyle_purify_row stops at the length.   *)
(* What it keeps: both refuse the same fields, each error of the server is *)
(* one the browser shows, and what the browser shows besides is a pattern. *)
(* This is for rules both sides know: texts without numeric bounds,        *)
(* patterns that mean the same to RegExp and to POSIX, and, for Node,      *)
(* values that are strings and no longest length.                          *)
SamePattern(f) ==
  f.pattern = NULL \/ ( /\ JsCompiles(f.pattern) /\ Compiles(f.pattern)
                        /\ \A v \in JsValues :
                             Matches(f.pattern, v.text) = JsMatches(f.pattern, v.text) )

Shared(f) ==
  /\ IsString(f) /\ SamePattern(f)
  /\ submitted.to = "node" =>
       /\ f.max_length = 0
       /\ values[f.name] # NULL => values[f.name].string

FieldsIn(errors) == { errors[n].field : n \in DOMAIN errors }

ServerAgrees ==
  purify.stage \in {"valid", "invalid"} /\ ~excused.grew
  /\ (\A n \in DOMAIN fields : Shared(fields[n])) =>
    /\ FieldsIn(purify.errors) = FieldsIn(submitted.errors)
    /\ ToSet(purify.errors) \subseteq ToSet(submitted.errors)
    /\ \A e \in ToSet(submitted.errors) \ ToSet(purify.errors) : e.rule = "pattern"

(* "release them with hyle_purify_errors_free": what is left to the caller *)
(* is one message an error, in the array; nothing when the row is valid or *)
(* memory ran out, and nothing is lost after the caller freed it.          *)
CallerFreesAll ==
  /\ purify.stage \in {"idle", "valid", "failed"} => purify.held = {}
  /\ purify.stage = "invalid" =>
       /\ purify.errors # <<>>
       /\ purify.held = {Array} \cup { Message(n) : n \in DOMAIN purify.errors }
=============================================================================
