------------------------ MODULE FormValidator_proofs ------------------------
(***************************************************************************)
(* A form and its checks: what listeners hear, in however many nested      *)
(* loops, what hyle_purify_row allocates and frees, and that the browser   *)
(* and the server refuse the same fields.                                  *)
(*                                                                         *)
(* Three inductive invariants: FormInv of the loops, PurifyInv of the      *)
(* memory of a call, RowInv of what a call has found so far.               *)
(***************************************************************************)
EXTENDS FormValidator, SequenceLemmas

(* A call is a record of six parts.                                        *)
IsCall(c) ==
  c = [stage |-> c.stage, fields |-> c.fields, values |-> c.values, next |-> c.next,
       errors |-> c.errors, held |-> c.held]

(* There is at most one error for each field that was checked, and memory  *)
(* is held for exactly the array and one message an error.                 *)
CallInv(c) ==
  /\ IsCall(c)
  /\ IsSequence(c.fields) /\ IsSequence(c.errors)
  /\ c.next \in Nat
  /\ Len(c.errors) < c.next /\ c.next <= Len(c.fields) + 1
  /\ c.stage \in {"idle", "checking", "valid", "invalid", "failed"}
  /\ c.stage \in {"idle", "valid", "failed"} => c.held = {}
  /\ c.stage \in {"checking", "invalid"} =>
       c.held = {Array} \cup { Message(n) : n \in DOMAIN c.errors }
  /\ c.stage = "invalid" => c.errors # <<>>

PurifyInv == IsSequence(fields) /\ CallInv(purify)

-----------------------------------------------------------------------------
(* At most one element was added.                                          *)
OneMore(before, after) ==
  /\ IsSequence(after)
  /\ Len(after) = Len(before) \/ Len(after) = Len(before) + 1

(* The errors so far and those of one field more.                          *)
LEMMA ErrorsOfAField ==
  ASSUME NEW f, NEW text, NEW before, IsSequence(before)
  PROVE  OneMore(before, before \o Errors(f, FirstRule(f, text)))
<1> DEFINE after == before \o Errors(f, FirstRule(f, text))
<1> SUFFICES OneMore(before, after)
  OBVIOUS
<1>1. CASE FirstRule(f, text) = <<>>
  <2>1. Errors(f, FirstRule(f, text)) = <<>>
    BY <1>1 DEF Errors
  <2>2. after = before
    BY <2>1 DEF IsSequence
  <2> HIDE DEF after
  <2> QED BY <2>2 DEF OneMore
<1>2. CASE \E rule : FirstRule(f, text) = <<rule>>
  <2>1. PICK rule : FirstRule(f, text) = <<rule>>
    BY <1>2
  <2> DEFINE e == [field |-> f.name, rule |-> rule]
  <2>2. Errors(f, <<rule>>) = <<e>>
    BY DEF Errors
  <2>3. before \o <<e>> = Append(before, e)
    BY DEF IsSequence
  <2>4. after = Append(before, e)
    BY <2>1, <2>2, <2>3
  <2> HIDE DEF after, e
  <2> QED BY <2>4, SequenceAppend DEF OneMore
<1> QED BY <1>1, <1>2 DEF FirstRule

-----------------------------------------------------------------------------
LEMMA NoCallInv ==
  CallInv(NoCall)
BY DEF NoCall, CallInv, IsCall, IsSequence, ToSet

(* A call begins.                                                          *)
LEMMA StartKeeps ==
  ASSUME NEW row, NEW texts, IsSequence(row), PurifyStart(row, texts)
  PROVE  CallInv(purify')
<1>1. PICK stage, held :
        /\ purify' = [stage |-> stage, fields |-> row, values |-> texts, next |-> 1,
                      errors |-> <<>>, held |-> held]
        /\ \/ stage = "valid" /\ held = {}
           \/ stage = "checking" /\ held = {Array}
           \/ stage = "failed" /\ held = {}
  BY DEF PurifyStart, NoCall
<1>2. Len(row) \in Nat /\ IsSequence(<<>>) /\ DOMAIN <<>> = {}
  BY DEF IsSequence, ToSet
<1> QED BY <1>1, <1>2 DEF CallInv, IsCall

(* A field is checked.                                                     *)
LEMMA FieldKeeps ==
  ASSUME CallInv(purify), PurifyField
  PROVE  CallInv(purify')
<1>1. CASE FieldChecked
  <2> DEFINE written == purify.errors \o Errors(FieldNext, RulesNext)
  <2>1. IsSequence(purify.errors)
    BY DEF CallInv
  <2>2. /\ IsSequence(written)
        /\ Len(written) = Len(purify.errors) \/ Len(written) = Len(purify.errors) + 1
    <3>1. OneMore(purify.errors, written)
      BY <2>1, ErrorsOfAField, Zenon DEF RulesNext
    <3> HIDE DEF written
    <3> QED BY <3>1 DEF OneMore
  <2>3. /\ Len(purify.errors) \in Nat /\ Len(written) \in Nat /\ Len(purify.fields) \in Nat
        /\ DOMAIN purify.errors = 1 .. Len(purify.errors)
        /\ DOMAIN written = 1 .. Len(written)
    BY <2>2 DEF CallInv, IsSequence
  <2>4. purify' = [purify EXCEPT
          !.next = purify.next + 1, !.errors = written,
          !.held = purify.held \cup { Message(n) : n \in Len(purify.errors) + 1 .. Len(written) }]
    BY <1>1 DEF FieldChecked
  <2>5. /\ purify'.stage = purify.stage /\ purify'.fields = purify.fields
        /\ purify'.values = purify.values /\ purify'.next = purify.next + 1
        /\ purify'.errors = written
        /\ purify'.held = purify.held
             \cup { Message(n) : n \in Len(purify.errors) + 1 .. Len(written) }
        /\ IsCall(purify')
    BY <2>4 DEF CallInv, IsCall
  <2>6. purify'.held = {Array} \cup { Message(n) : n \in DOMAIN written }
    <3>1. purify.held = {Array} \cup { Message(n) : n \in 1 .. Len(purify.errors) }
      BY <2>3 DEF CallInv, PurifyField, Checking
    <3>2. 1 .. Len(written) =
            (1 .. Len(purify.errors)) \cup (Len(purify.errors) + 1 .. Len(written))
      BY <2>2, <2>3
    <3> HIDE DEF written
    <3>3. { Message(n) : n \in 1 .. Len(written) } =
            { Message(n) : n \in 1 .. Len(purify.errors) }
              \cup { Message(n) : n \in Len(purify.errors) + 1 .. Len(written) }
      BY <3>2
    <3> QED BY <2>3, <2>5, <3>1, <3>3
  <2>7. /\ purify.stage = "checking" /\ purify.next \in Nat
        /\ purify.next <= Len(purify.fields) /\ Len(purify.errors) < purify.next
        /\ IsSequence(purify.fields)
    BY DEF CallInv, PurifyField, Checking
  <2> HIDE DEF written
  <2>8. /\ purify'.next \in Nat
        /\ Len(purify'.errors) < purify'.next /\ purify'.next <= Len(purify'.fields) + 1
    <3>1. purify'.next = purify.next + 1 /\ purify'.fields = purify.fields
          /\ purify'.errors = written
      BY <2>5
    <3>2. purify'.next \in Nat
      BY <2>7, <3>1
    <3>3. Len(purify'.errors) < purify'.next
      <4> DEFINE a == Len(purify.errors)
                 b == Len(written)
                 n == purify.next
      <4>1. a \in Nat /\ b \in Nat /\ n \in Nat /\ (b = a \/ b = a + 1) /\ a < n
        BY <2>2, <2>3, <2>7
      <4>2. b < n + 1
        <5> HIDE DEF a, b, n
        <5> QED BY <4>1
      <4> QED BY <3>1, <4>2
    <3>4. purify'.next <= Len(purify'.fields) + 1
      BY <2>3, <2>7, <3>1
    <3> QED BY <3>2, <3>3, <3>4
  <2>9. IsSequence(purify'.fields) /\ IsSequence(purify'.errors)
    BY <2>2, <2>5, <2>7
  <2>10. purify'.stage = "checking" /\ IsCall(purify')
    BY <2>5, <2>7
  <2>11. purify'.held = {Array} \cup { Message(n) : n \in DOMAIN purify'.errors }
    BY <2>5, <2>6
  <2> QED BY <2>8, <2>9, <2>10, <2>11 DEF CallInv
<1>2. CASE purify' = Failed
  <2>1. purify' = [stage |-> "failed", fields |-> purify.fields, values |-> purify.values,
                   next |-> purify.next, errors |-> <<>>, held |-> {}]
    BY <1>2 DEF Failed, CallInv, IsCall
  <2>2. /\ purify.next \in Nat /\ purify.next <= Len(purify.fields) + 1
        /\ Len(purify.errors) < purify.next /\ Len(purify.errors) \in Nat
        /\ IsSequence(purify.fields)
    BY DEF CallInv, IsSequence
  <2>3. IsSequence(<<>>) /\ Len(<<>>) = 0
    BY DEF IsSequence, ToSet
  <2> QED BY <2>1, <2>2, <2>3 DEF CallInv, IsCall
<1> QED BY <1>1, <1>2 DEF PurifyField

(* A call returns.                                                         *)
LEMMA ReturnKeeps ==
  ASSUME CallInv(purify), PurifyReturn
  PROVE  CallInv(purify')
BY DEF PurifyReturn, CallInv, IsCall, IsSequence, ToSet

(* The caller frees the errors.                                            *)
LEMMA FreeKeeps ==
  ASSUME CallInv(purify), PurifyErrorsFree
  PROVE  CallInv(purify')
<1>1. purify' = NoCall
  BY DEF PurifyErrorsFree, CallInv, NoCall
<1> QED BY <1>1, NoCallInv

-----------------------------------------------------------------------------
LEMMA PurifyInvariant ==
  Spec => []PurifyInv
<1>1. Init => PurifyInv
  BY FormValidatorAssumption, NoCallInv DEF Init, PurifyInv, IsSequence
<1>2. PurifyInv /\ [Next]_vars => PurifyInv'
  <2> SUFFICES ASSUME PurifyInv, [Next]_vars
               PROVE  PurifyInv'
    OBVIOUS
  <2>1. ASSUME UNCHANGED <<fields, purify>>
        PROVE  PurifyInv'
    BY <2>1 DEF PurifyInv
  <2>2. ASSUME NEW name \in Names, NEW value \in JsValues, SetField(name, value)
        PROVE  PurifyInv'
    BY <2>1, <2>2 DEF SetField
  <2>3. CASE Call \/ LoopEnds \/ Throw
    BY <2>1, <2>3 DEF Call, LoopEnds, Throw
  <2>4. ASSUME NEW l \in Listener, Subscribe(l) \/ Unsubscribe(l)
        PROVE  PurifyInv'
    BY <2>1, <2>4 DEF Subscribe, Unsubscribe
  <2>5. ASSUME NEW f \in MoreFields, AddField(f)
        PROVE  PurifyInv'
    BY <2>5, SequenceAppend DEF AddField, PurifyInv
  <2>6. CASE SubmitToNode
    <3> DEFINE row == [n \in DOMAIN fields |-> NativeField(fields[n])]
    <3>1. IsSequence(row)
      BY DEF PurifyInv, IsSequence, ToSet
    <3>2. PurifyStart(row, NodeTexts) /\ fields' = fields
      BY <2>6 DEF SubmitToNode, formVars
    <3> QED BY <3>1, <3>2, StartKeeps DEF PurifyInv
  <2>7. CASE SubmitToC
    <3>1. PurifyStart(fields, CTexts) /\ fields' = fields
      BY <2>7 DEF SubmitToC, formVars
    <3> QED BY <3>1, StartKeeps DEF PurifyInv
  <2>8. CASE Check
    BY <2>8, FieldKeeps, ReturnKeeps DEF Check, PurifyInv, formVars
  <2>9. CASE Answered
    BY <2>9, FreeKeeps DEF Answered, PurifyInv, formVars
  <2>10. CASE UNCHANGED vars
    BY <2>1, <2>10 DEF vars, formVars
  <2> QED BY <2>2, <2>3, <2>4, <2>5, <2>6, <2>7, <2>8, <2>9, <2>10 DEF Next
<1> QED BY <1>1, <1>2, PTL DEF Spec

(* "release them with hyle_purify_errors_free": the caller is left with    *)
(* one message an error and the array, when there are errors, and with     *)
(* nothing otherwise.                                                      *)
THEOREM PurifyFreesAll ==
  Spec => []CallerFreesAll
<1>1. PurifyInv => CallerFreesAll
  BY DEF PurifyInv, CallInv, CallerFreesAll
<1> QED BY <1>1, PurifyInvariant, PTL

(* hyle_purify_row never writes more errors than it made room for, because *)
(* a field stops at the first rule it breaks.                              *)
THEOREM PurifyErrorsFit ==
  Spec => []ErrorsFit
<1>1. PurifyInv => ErrorsFit
  BY DEF PurifyInv, CallInv, ErrorsFit, IsSequence
<1> QED BY <1>1, PurifyInvariant, PTL

-----------------------------------------------------------------------------
(* The loops of notify: what a loop has left are subscribers, once each,   *)
(* in the order of the Set.                                                *)
IsLoop(c) == c = [state |-> c.state, left |-> c.left, running |-> c.running]

Loops(loops, members) ==
  /\ IsSequence(loops)
  /\ \A n \in DOMAIN loops :
       /\ IsLoop(loops[n])
       /\ IsJsSet(loops[n].left) /\ ToSet(loops[n].left) \subseteq members

FormTypes ==
  /\ IsSequence(fields)
  /\ \A n \in DOMAIN fields : IsField(fields[n])
  /\ values \in [Names -> JsValues \cup {NULL}]
  /\ isDirty \in BOOLEAN /\ writes \in 0 .. MaxWrites
  /\ IsJsSet(listeners) /\ Subscribed \subseteq Listener
  /\ Loops(frames, Subscribed) /\ Len(frames) <= MaxDepth
  /\ heard = [l \in Listener |-> heard[l]]
  /\ excused \in [wrote : BOOLEAN, threw : BOOLEAN, grew : BOOLEAN]

(* Some loop that hands out the state of now has l left.                   *)
ToBeTold(l, loops, now) ==
  \E n \in DOMAIN loops : loops[n].state = now /\ l \in ToSet(loops[n].left)

(* Unless a listener threw, whoever was not called with the state of now   *)
(* will be.                                                                *)
ToldInv == ~excused.threw => \A l \in Subscribed : l \in told \/ ToBeTold(l, frames, State)

(* Unless a listener wrote or threw, there is one loop at most, which      *)
(* hands out the state of now to those that have not heard it.             *)
HeardInv ==
  ~excused.wrote /\ ~excused.threw =>
    /\ Len(frames) <= 1
    /\ \A n \in DOMAIN frames : frames[n].state = State
    /\ \A l \in Subscribed : heard[l] = State \/ ToBeTold(l, frames, State)

FormInv == FormTypes /\ ToldInv /\ HeardInv

LEMMA InitForm ==
  ASSUME Init
  PROVE  FormInv
<1>1. PICK schema \in Schemas : fields = schema
  BY DEF Init
<1>2. IsSequence(fields) /\ \A n \in DOMAIN fields : IsField(fields[n])
  BY <1>1, FormValidatorAssumption DEF IsSequence
<1>3. FormTypes
  <2>1. values \in [Names -> JsValues \cup {NULL}] /\ isDirty \in BOOLEAN /\ writes \in 0 .. MaxWrites
    <3>1. values \in [Names -> {NULL}] /\ isDirty = FALSE /\ writes = 0
      BY DEF Init
    <3>2. values \in [Names -> JsValues \cup {NULL}]
      BY <3>1
    <3>3. writes \in 0 .. MaxWrites
      BY <3>1, FormValidatorAssumption
    <3> QED BY <3>1, <3>2, <3>3
  <2>2. heard = [l \in Listener |-> heard[l]]
    BY DEF Init
  <2>3. excused \in [wrote : BOOLEAN, threw : BOOLEAN, grew : BOOLEAN]
    BY DEF Init, NotExcused
  <2>4. listeners = <<>> /\ frames = <<>>
    BY DEF Init
  <2> QED BY <1>2, <2>1, <2>2, <2>3, <2>4, EmptySequence, FormValidatorAssumption
  DEF FormTypes, Loops, Subscribed, IsJsSet
<1>4. Subscribed = {} /\ frames = <<>>
  BY EmptySequence DEF Init, Subscribed
<1> QED BY <1>3, <1>4, EmptySequence DEF FormInv, ToldInv, HeardInv

(* What a write, an addition to the Set, a removal and a call do to the    *)
(* loops in progress.                                                      *)
LEMMA SetFieldForm ==
  ASSUME FormInv, NEW name \in Names, NEW value \in JsValues, SetField(name, value)
  PROVE  FormInv'
<1> DEFINE c == [state |-> State', left |-> listeners, running |-> NULL]
<1>1. /\ IsSequence(frames') /\ Len(frames') = Len(frames) + 1
      /\ frames' = Append(frames, c)
      /\ \A n \in 1 .. Len(frames) : frames'[n] = frames[n]
      /\ frames'[Len(frames) + 1] = c
  BY SequenceAppend DEF SetField, FormInv, FormTypes, Loops
<1>2. /\ Len(frames) \in Nat /\ DOMAIN frames = 1 .. Len(frames)
      /\ DOMAIN frames' = 1 .. Len(frames) + 1
  BY <1>1, SequenceFacts DEF FormInv, FormTypes, Loops
<1>3. listeners' = listeners /\ Subscribed' = Subscribed /\ heard' = heard /\ fields' = fields
  BY DEF SetField, Subscribed
<1>4. /\ excused \in [wrote : BOOLEAN, threw : BOOLEAN, grew : BOOLEAN]
      /\ excused' = [excused EXCEPT !.wrote = excused.wrote \/ ~Quiet, !.grew = FALSE]
  BY DEF SetField, FormInv, FormTypes
<1>5. /\ excused' \in [wrote : BOOLEAN, threw : BOOLEAN, grew : BOOLEAN]
      /\ excused'.threw = excused.threw
      /\ excused'.wrote <=> excused.wrote \/ ~Quiet
  BY <1>4, Zenon
<1>6. FormTypes'
  <2>1. values' \in [Names -> JsValues \cup {NULL}] /\ isDirty' \in BOOLEAN
    BY DEF SetField, FormInv, FormTypes
  <2>2. writes' \in 0 .. MaxWrites /\ Len(frames') <= MaxDepth
    BY <1>1, <1>2, FormValidatorAssumption DEF SetField, FormInv, FormTypes
  <2>3. Loops(frames', Subscribed')
    <3>1. IsLoop(c) /\ IsJsSet(c.left) /\ ToSet(c.left) \subseteq Subscribed
      BY DEF FormInv, FormTypes, IsLoop, Subscribed
    <3> HIDE DEF c
    <3> QED BY <1>1, <1>2, <1>3, <3>1 DEF FormInv, FormTypes, Loops
  <2> QED BY <1>1, <1>3, <1>5, <2>1, <2>2, <2>3 DEF FormInv, FormTypes
<1>7. \A l \in Subscribed' : ToBeTold(l, frames', State')
  <2>1. Len(frames) + 1 \in DOMAIN frames'
    BY <1>2
  <2>2. frames'[Len(frames) + 1].state = State' /\ frames'[Len(frames) + 1].left = listeners
    BY <1>1
  <2> QED BY <1>3, <2>1, <2>2 DEF ToBeTold, Subscribed
<1>8. ToldInv'
  BY <1>7 DEF ToldInv
<1>9. HeardInv'
  <2> SUFFICES ASSUME ~excused'.wrote
               PROVE  /\ Len(frames') <= 1
                      /\ \A n \in DOMAIN frames' : frames'[n].state = State'
    BY <1>7 DEF HeardInv
  <2>1. Len(frames) = 0
    BY <1>5, EmptySequence DEF Quiet
  <2> QED BY <1>1, <1>2, <2>1
<1> QED BY <1>6, <1>8, <1>9 DEF FormInv

(* The state that is handed out is that of before.                         *)
SameState == UNCHANGED <<values, isDirty, validation>>

LEMMA LoopCalls ==
  ASSUME NEW c, IsLoop(c), NEW left, NEW l
  PROVE  [c EXCEPT !.left = left, !.running = l] = [state |-> c.state, left |-> left, running |-> l]
<1>1. SUFFICES ASSUME NEW s, NEW old, NEW r, c = [state |-> s, left |-> old, running |-> r]
               PROVE  [c EXCEPT !.left = left, !.running = l] = [state |-> s, left |-> left, running |-> l]
  BY DEF IsLoop
<1> DEFINE d == [c EXCEPT !.left = left, !.running = l]
           e == [state |-> s, left |-> left, running |-> l]
<1>2. d = [[c EXCEPT !.left = left] EXCEPT !.running = l]
  OBVIOUS
<1>3. [c EXCEPT !.left = left] = [state |-> s, left |-> left, running |-> r]
  BY <1>1
<1>4. [[state |-> s, left |-> left, running |-> r] EXCEPT !.running = l] = e
  OBVIOUS
<1> QED BY <1>2, <1>3, <1>4

LEMMA LoopLeft ==
  ASSUME NEW c, IsLoop(c), NEW left
  PROVE  /\ IsLoop([c EXCEPT !.left = left])
         /\ [c EXCEPT !.left = left].state = c.state
         /\ [c EXCEPT !.left = left].left = left
<1>1. SUFFICES ASSUME NEW s, NEW old, NEW r, c = [state |-> s, left |-> old, running |-> r]
               PROVE  [c EXCEPT !.left = left] = [state |-> s, left |-> left, running |-> r]
  BY DEF IsLoop
<1> QED BY <1>1

LEMMA CallForm ==
  ASSUME FormInv, Call
  PROVE  FormInv' /\ Head(frames[Top].left) \in Subscribed
<1> DEFINE c == frames[Top]
           l == Head(c.left)
           d == [state |-> c.state, left |-> Tail(c.left), running |-> l]
<1>1. /\ IsSequence(frames) /\ Top = Len(frames) /\ Top \in DOMAIN frames
      /\ DOMAIN frames = 1 .. Top /\ Top \in Nat
  BY SequenceFacts DEF Call, FormInv, FormTypes, Loops, Quiet, Top
<1>2. /\ IsLoop(c) /\ IsJsSet(c.left) /\ ToSet(c.left) \subseteq Subscribed
      /\ c.left # <<>>
  BY <1>1 DEF Call, FormInv, FormTypes, Loops
<1>3. /\ IsJsSet(c.left) /\ ToSet(c.left) \subseteq Subscribed
      /\ ToSet(c.left) = ToSet(Tail(c.left)) \cup {l}
      /\ IsJsSet(Tail(c.left))
  BY <1>2, SequenceTail, JsSetTail DEF IsJsSet
<1>4. frames' = [frames EXCEPT ![Top] = d]
  <2>1. frames' = [frames EXCEPT ![Top].left = Tail(c.left), ![Top].running = l]
    BY DEF Call
  <2>2. [c EXCEPT !.left = Tail(c.left), !.running = l] = d
    BY <1>2, LoopCalls
  <2> QED BY <1>1, <2>1, <2>2
<1>5. /\ DOMAIN frames' = DOMAIN frames /\ frames'[Top] = d
      /\ \A n \in DOMAIN frames : n # Top => frames'[n] = frames[n]
      /\ IsSequence(frames') /\ Len(frames') = Len(frames)
  <2> HIDE DEF d
  <2>1. DOMAIN frames' = DOMAIN frames /\ frames' = [n \in DOMAIN frames' |-> frames'[n]]
    BY <1>1, <1>4, SequenceFacts
  <2>2. IsSequence(frames') /\ Len(frames') = Len(frames)
    BY <1>1, <2>1, SequenceMap
  <2> QED BY <1>1, <1>4, <2>1, <2>2
<1>6. /\ State' = State /\ Subscribed' = Subscribed /\ excused' = excused
      /\ listeners' = listeners /\ fields' = fields /\ values' = values
      /\ isDirty' = isDirty /\ writes' = writes
  BY DEF Call, State, Subscribed
<1>7. heard' = [heard EXCEPT ![l] = c.state] /\ l \in Listener /\ l \in Subscribed
  BY <1>3 DEF Call, FormInv, FormTypes
<1>8. FormTypes'
  <2>1. Loops(frames', Subscribed')
    <3>1. IsLoop(d) /\ IsJsSet(d.left) /\ ToSet(d.left) \subseteq Subscribed
      BY <1>3 DEF IsLoop
    <3> HIDE DEF d
    <3> QED BY <1>5, <1>6, <3>1 DEF FormInv, FormTypes, Loops
  <2>2. heard' = [x \in Listener |-> heard'[x]]
    BY <1>7 DEF FormInv, FormTypes
  <2> HIDE DEF d
  <2> QED BY <1>5, <1>6, <2>1, <2>2 DEF FormInv, FormTypes
<1>9. ASSUME NEW x \in Subscribed, x # l, ToBeTold(x, frames, State)
      PROVE  ToBeTold(x, frames', State')
  <2>1. PICK n \in DOMAIN frames : frames[n].state = State /\ x \in ToSet(frames[n].left)
    BY <1>9 DEF ToBeTold
  <2>2. x \in ToSet(c.left) => x \in ToSet(d.left)
    BY <1>3, <1>9
  <2>3. d.state = c.state
    OBVIOUS
  <2> HIDE DEF d
  <2>4. frames'[n].state = State /\ x \in ToSet(frames'[n].left)
    BY <1>5, <2>1, <2>2, <2>3
  <2> QED BY <1>5, <1>6, <2>4 DEF ToBeTold
<1>10. ASSUME c.state # State, ToBeTold(l, frames, State)
       PROVE  ToBeTold(l, frames', State')
  <2>1. PICK n \in DOMAIN frames : frames[n].state = State /\ l \in ToSet(frames[n].left)
    BY <1>10 DEF ToBeTold
  <2>2. frames'[n] = frames[n]
    BY <1>5, <1>10, <2>1
  <2> QED BY <1>5, <1>6, <2>1, <2>2 DEF ToBeTold
<1>11. told' = IF c.state = State THEN told \cup {l} ELSE told
  BY DEF Call
<1>12. ToldInv'
  BY <1>6, <1>9, <1>10, <1>11 DEF FormInv, ToldInv
<1>13. HeardInv'
  <2> SUFFICES ASSUME ~excused.wrote, ~excused.threw
               PROVE  /\ Len(frames') <= 1
                      /\ \A n \in DOMAIN frames' : frames'[n].state = State'
                      /\ \A x \in Subscribed' : heard'[x] = State' \/ ToBeTold(x, frames', State')
    BY <1>6 DEF HeardInv
  <2>1. /\ Len(frames) <= 1
        /\ \A n \in DOMAIN frames : frames[n].state = State
        /\ \A x \in Subscribed : heard[x] = State \/ ToBeTold(x, frames, State)
    BY DEF FormInv, HeardInv
  <2>2. heard'[l] = State /\ \A x \in Listener : x # l => heard'[x] = heard[x]
    BY <1>1, <1>7, <2>1 DEF FormInv, FormTypes
  <2>3. \A n \in DOMAIN frames' : frames'[n].state = State'
    BY <1>1, <1>5, <1>6, <2>1
  <2>4. \A x \in Subscribed : x \in Listener
    BY DEF FormInv, FormTypes
  <2> QED BY <1>5, <1>6, <1>9, <2>1, <2>2, <2>3, <2>4
<1> QED BY <1>7, <1>8, <1>12, <1>13 DEF FormInv

(* The innermost loop ends, or is left by a listener that throws.          *)
LEMMA FrontForm ==
  ASSUME FormInv, ~Quiet, frames' = Front(frames),
         UNCHANGED <<fields, values, isDirty, validation, listeners, heard, told, writes>>,
         \/ excused' = excused /\ frames[Top].left = <<>>
         \/ excused' = [excused EXCEPT !.threw = TRUE]
  PROVE  FormInv'
<1>1. /\ IsSequence(frames) /\ Top = Len(frames) /\ Top \in Nat /\ Top > 0
      /\ DOMAIN frames = 1 .. Top
  BY SequenceFacts DEF FormInv, FormTypes, Loops, Quiet, Top
<1>2. /\ IsSequence(frames') /\ Len(frames') = Top - 1 /\ DOMAIN frames' = 1 .. Top - 1
      /\ \A n \in 1 .. Top - 1 : frames'[n] = frames[n]
  BY <1>1, SequenceFront DEF Quiet
<1>3. State' = State /\ Subscribed' = Subscribed
  BY DEF State, Subscribed
<1>4. /\ excused' \in [wrote : BOOLEAN, threw : BOOLEAN, grew : BOOLEAN]
      /\ excused'.wrote = excused.wrote
      /\ excused'.threw \/ (excused' = excused /\ frames[Top].left = <<>>)
  <2>1. excused \in [wrote : BOOLEAN, threw : BOOLEAN, grew : BOOLEAN]
    BY DEF FormInv, FormTypes
  <2> QED BY <2>1
<1>5. Loops(frames', Subscribed')
  BY <1>1, <1>2, <1>3 DEF FormInv, FormTypes, Loops
<1>6. Len(frames') <= MaxDepth
  BY <1>1, <1>2, FormValidatorAssumption DEF FormInv, FormTypes
<1>7. FormTypes'
  BY <1>3, <1>4, <1>5, <1>6 DEF FormInv, FormTypes
<1>8. ASSUME NEW l, frames[Top].left = <<>>, ToBeTold(l, frames, State)
      PROVE  ToBeTold(l, frames', State')
  <2>1. PICK n \in DOMAIN frames : frames[n].state = State /\ l \in ToSet(frames[n].left)
    BY <1>8 DEF ToBeTold
  <2>2. n # Top
    BY <1>8, <2>1, EmptySequence
  <2>3. n \in DOMAIN frames' /\ frames'[n] = frames[n]
    BY <1>1, <1>2, <2>2
  <2> QED BY <1>3, <2>1, <2>3 DEF ToBeTold
<1>9. ToldInv'
  BY <1>3, <1>4, <1>8 DEF FormInv, ToldInv
<1>10. HeardInv'
  <2> SUFFICES ASSUME ~excused'.wrote, ~excused'.threw
               PROVE  /\ Len(frames') <= 1
                      /\ \A n \in DOMAIN frames' : frames'[n].state = State'
                      /\ \A l \in Subscribed' : heard'[l] = State' \/ ToBeTold(l, frames', State')
    BY DEF HeardInv
  <2>1. /\ Len(frames) <= 1
        /\ \A n \in DOMAIN frames : frames[n].state = State
        /\ \A l \in Subscribed : heard[l] = State \/ ToBeTold(l, frames, State)
    BY <1>4 DEF FormInv, HeardInv
  <2> QED BY <1>1, <1>2, <1>3, <1>4, <1>8, <2>1
<1> QED BY <1>7, <1>9, <1>10 DEF FormInv

(* A member joins the Set and every loop over it, or it is in already.     *)
LEMMA SubscribeForm ==
  ASSUME FormInv, NEW l \in Listener, Subscribe(l)
  PROVE  FormInv' /\ l \in Subscribed'
<1>1. /\ State' = State /\ excused' = excused /\ fields' = fields /\ values' = values
      /\ isDirty' = isDirty /\ writes' = writes /\ told' = told \cup {l}
      /\ heard' = [heard EXCEPT ![l] = State]
  BY DEF Subscribe, State
<1>2. /\ heard' = [x \in Listener |-> heard'[x]] /\ heard'[l] = State
      /\ \A x \in Listener : x # l => heard'[x] = heard[x]
  BY <1>1 DEF FormInv, FormTypes
<1>3. /\ IsSequence(frames) /\ Len(frames) \in Nat /\ DOMAIN frames = 1 .. Len(frames)
  BY SequenceFacts DEF FormInv, FormTypes, Loops
<1>4. /\ IsJsSet(listeners') /\ Subscribed' = Subscribed \cup {l}
      /\ Loops(frames', Subscribed') /\ Len(frames') = Len(frames)
      /\ DOMAIN frames' = DOMAIN frames
      /\ \A n \in DOMAIN frames : /\ frames'[n].state = frames[n].state
                                  /\ ToSet(frames[n].left) \subseteq ToSet(frames'[n].left)
  <2>1. CASE l \in Subscribed
    BY <1>3, <2>1 DEF Subscribe, FormInv, FormTypes, Subscribed
  <2>2. CASE l \notin Subscribed
    <3> DEFINE loop(n) == [frames[n] EXCEPT !.left = Append(@, l)]
    <3>1. listeners' = Append(listeners, l) /\ frames' = [n \in DOMAIN frames |-> loop(n)]
      BY <2>2 DEF Subscribe
    <3>2. IsJsSet(listeners') /\ Subscribed' = Subscribed \cup {l}
      BY <2>2, <3>1, JsSetAdd, SequenceAppend DEF FormInv, FormTypes, IsJsSet, Subscribed
    <3>3. ASSUME NEW n \in DOMAIN frames
          PROVE  /\ IsLoop(loop(n)) /\ loop(n).state = frames[n].state
                 /\ IsJsSet(loop(n).left)
                 /\ ToSet(loop(n).left) = ToSet(frames[n].left) \cup {l}
                 /\ ToSet(frames[n].left) \subseteq Subscribed
      <4>1. /\ IsLoop(frames[n]) /\ IsJsSet(frames[n].left)
            /\ ToSet(frames[n].left) \subseteq Subscribed
        BY <3>3 DEF FormInv, FormTypes, Loops
      <4>2. /\ IsLoop(loop(n)) /\ loop(n).state = frames[n].state
            /\ loop(n).left = Append(frames[n].left, l)
        BY <4>1, LoopLeft
      <4> HIDE DEF loop
      <4> QED BY <2>2, <4>1, <4>2, JsSetAdd, SequenceAppend DEF IsJsSet
    <3> HIDE DEF loop
    <3>4. DOMAIN frames' = DOMAIN frames /\ frames' = [n \in DOMAIN frames' |-> frames'[n]]
          /\ \A n \in DOMAIN frames : frames'[n] = loop(n)
      BY <3>1
    <3>5. IsSequence(frames') /\ Len(frames') = Len(frames)
      BY <1>3, <3>4, SequenceMap
    <3> QED BY <3>2, <3>3, <3>4, <3>5 DEF Loops
  <2> QED BY <2>1, <2>2
<1>5. FormTypes'
  BY <1>1, <1>2, <1>4 DEF FormInv, FormTypes
<1>6. ASSUME NEW x, ToBeTold(x, frames, State)
      PROVE  ToBeTold(x, frames', State')
  BY <1>1, <1>4, <1>6 DEF ToBeTold
<1>7. ToldInv'
  BY <1>1, <1>4, <1>6 DEF FormInv, ToldInv
<1>8. HeardInv'
  <2> SUFFICES ASSUME ~excused.wrote, ~excused.threw
               PROVE  /\ Len(frames') <= 1
                      /\ \A n \in DOMAIN frames' : frames'[n].state = State'
                      /\ \A x \in Subscribed' : heard'[x] = State' \/ ToBeTold(x, frames', State')
    BY <1>1 DEF HeardInv
  <2>1. /\ Len(frames) <= 1
        /\ \A n \in DOMAIN frames : frames[n].state = State
        /\ \A x \in Subscribed : heard[x] = State \/ ToBeTold(x, frames, State)
    BY DEF FormInv, HeardInv
  <2>2. \A x \in Subscribed : x \in Listener
    BY DEF FormInv, FormTypes
  <2> QED BY <1>1, <1>2, <1>4, <1>6, <2>1, <2>2
<1> QED BY <1>4, <1>5, <1>7, <1>8 DEF FormInv

(* A member leaves the Set and every loop over it.                         *)
LEMMA UnsubscribeForm ==
  ASSUME FormInv, NEW l \in Listener, Unsubscribe(l)
  PROVE  FormInv'
<1>1. /\ State' = State /\ excused' = excused /\ fields' = fields /\ values' = values
      /\ isDirty' = isDirty /\ writes' = writes /\ told' = told /\ heard' = heard
  BY DEF Unsubscribe, State
<1>2. /\ IsSequence(frames) /\ Len(frames) \in Nat /\ DOMAIN frames = 1 .. Len(frames)
  BY SequenceFacts DEF FormInv, FormTypes, Loops
<1>3. IsJsSet(listeners') /\ Subscribed' = Subscribed \ {l}
  BY JsSetRemove DEF Unsubscribe, FormInv, FormTypes, Subscribed
<1> DEFINE loop(n) == [frames[n] EXCEPT !.left = RemoveFirst(@, l)]
<1>4. ASSUME NEW n \in DOMAIN frames
      PROVE  /\ IsLoop(loop(n)) /\ loop(n).state = frames[n].state
             /\ IsJsSet(loop(n).left)
             /\ ToSet(loop(n).left) = ToSet(frames[n].left) \ {l}
             /\ ToSet(frames[n].left) \subseteq Subscribed
  <2>1. /\ IsLoop(frames[n]) /\ IsJsSet(frames[n].left)
        /\ ToSet(frames[n].left) \subseteq Subscribed
    BY <1>4 DEF FormInv, FormTypes, Loops
  <2>2. /\ IsLoop(loop(n)) /\ loop(n).state = frames[n].state
        /\ loop(n).left = RemoveFirst(frames[n].left, l)
    BY <2>1, LoopLeft
  <2> HIDE DEF loop
  <2> QED BY <2>1, <2>2, JsSetRemove
<1>5. frames' = [n \in DOMAIN frames |-> loop(n)]
  BY DEF Unsubscribe
<1> HIDE DEF loop
<1>6. DOMAIN frames' = DOMAIN frames /\ frames' = [n \in DOMAIN frames' |-> frames'[n]]
      /\ \A n \in DOMAIN frames : frames'[n] = loop(n)
  BY <1>5
<1>7. IsSequence(frames') /\ Len(frames') = Len(frames)
  BY <1>2, <1>6, SequenceMap
<1>8. Loops(frames', Subscribed')
  BY <1>3, <1>4, <1>6, <1>7 DEF Loops
<1>9. FormTypes'
  BY <1>1, <1>3, <1>7, <1>8 DEF FormInv, FormTypes
<1>10. ASSUME NEW x, x # l, ToBeTold(x, frames, State)
      PROVE  ToBeTold(x, frames', State')
  BY <1>1, <1>4, <1>6, <1>10 DEF ToBeTold
<1>11. ToldInv'
  BY <1>1, <1>3, <1>10 DEF FormInv, ToldInv
<1>12. HeardInv'
  <2> SUFFICES ASSUME ~excused.wrote, ~excused.threw
               PROVE  /\ Len(frames') <= 1
                      /\ \A n \in DOMAIN frames' : frames'[n].state = State'
                      /\ \A x \in Subscribed' : heard'[x] = State' \/ ToBeTold(x, frames', State')
    BY <1>1 DEF HeardInv
  <2>1. /\ Len(frames) <= 1
        /\ \A n \in DOMAIN frames : frames[n].state = State
        /\ \A x \in Subscribed : heard[x] = State \/ ToBeTold(x, frames, State)
    BY DEF FormInv, HeardInv
  <2> QED BY <1>1, <1>3, <1>4, <1>6, <1>7, <1>10, <2>1
<1> QED BY <1>9, <1>11, <1>12 DEF FormInv

LEMMA AddFieldForm ==
  ASSUME FormInv, NEW f \in MoreFields, AddField(f)
  PROVE  FormInv'
<1>1. /\ IsSequence(fields) /\ IsSequence(fields') /\ Len(fields') = Len(fields) + 1
      /\ \A n \in 1 .. Len(fields) : fields'[n] = fields[n]
      /\ fields'[Len(fields) + 1] = f
  BY SequenceAppend DEF AddField, FormInv, FormTypes
<1>2. \A n \in DOMAIN fields' : IsField(fields'[n])
  BY <1>1, SequenceFacts, FormValidatorAssumption DEF FormInv, FormTypes
<1>3. /\ State' = State /\ Subscribed' = Subscribed /\ frames' = frames /\ heard' = heard
      /\ told' = told
  BY DEF AddField, State, Subscribed
<1>4. /\ excused' \in [wrote : BOOLEAN, threw : BOOLEAN, grew : BOOLEAN]
      /\ excused'.wrote = excused.wrote /\ excused'.threw = excused.threw
  BY DEF AddField, FormInv, FormTypes
<1>5. FormTypes'
  BY <1>1, <1>2, <1>3, <1>4 DEF AddField, FormInv, FormTypes
<1> QED BY <1>3, <1>4, <1>5 DEF FormInv, ToldInv, HeardInv

-----------------------------------------------------------------------------
(* The fields that have errors.                                            *)
LEMMA FieldsOfConcat ==
  ASSUME NEW s, NEW t, IsSequence(s), IsSequence(t)
  PROVE  FieldsIn(s \o t) = FieldsIn(s) \cup FieldsIn(t)
<1>1. \A u : FieldsIn(u) = { e.field : e \in ToSet(u) }
  BY DEF FieldsIn, ToSet
<1>2. ToSet(s \o t) = ToSet(s) \cup ToSet(t)
  BY SequenceConcat
<1> QED BY <1>1, <1>2

LEMMA FieldsOfErrors ==
  ASSUME NEW f, NEW rules, IsSequence(rules)
  PROVE  /\ IsSequence(Errors(f, rules))
         /\ FieldsIn(Errors(f, rules)) = IF rules = <<>> THEN {} ELSE {f.name}
<1> DEFINE e == Errors(f, rules)
<1>1. DOMAIN e = DOMAIN rules /\ e = [n \in DOMAIN e |-> e[n]]
      /\ \A n \in DOMAIN e : e[n].field = f.name
  BY DEF Errors
<1> HIDE DEF e
<1>2. IsSequence(e)
  BY <1>1, SequenceMap
<1>3. /\ DOMAIN rules = 1 .. Len(rules) /\ Len(rules) \in Nat
      /\ rules = <<>> <=> Len(rules) = 0
  BY SequenceFacts
<1>4. rules # <<>> => 1 \in DOMAIN e
  BY <1>1, <1>3
<1>5. rules = <<>> => DOMAIN e = {}
  BY <1>1, <1>3
<1>6. FieldsIn(e) = IF rules = <<>> THEN {} ELSE {f.name}
  BY <1>1, <1>4, <1>5 DEF FieldsIn
<1> QED BY <1>2, <1>6 DEF e

LEMMA ElementsOfErrors ==
  ASSUME NEW f, NEW rules
  PROVE  ToSet(Errors(f, rules)) = { [field |-> f.name, rule |-> r] : r \in ToSet(rules) }
<1> DEFINE e == Errors(f, rules)
<1>1. DOMAIN e = DOMAIN rules /\ \A n \in DOMAIN rules : e[n] = [field |-> f.name, rule |-> rules[n]]
  BY DEF Errors
<1> HIDE DEF e
<1>2. ToSet(e) = { [field |-> f.name, rule |-> r] : r \in ToSet(rules) }
  BY <1>1 DEF ToSet
<1> QED BY <1>2 DEF e

(* hyle_purify_row finds an error in a field exactly when it breaks a rule.*)
RuleNames == {"required", "min", "max", "minLength", "maxLength", "pattern"}

LEMMA FirstRuleBroken ==
  ASSUME NEW f, NEW text
  PROVE  /\ IsSequence(FirstRule(f, text))
         /\ FirstRule(f, text) # <<>> <=> \E rule \in RuleNames : Breaks(rule, f, text)
<1> DEFINE At == { i \in 1 .. Len(Rules) : Breaks(Rules[i], f, text) }
           first == IF At # {} THEN Min(At) ELSE 0
<1>1. FirstRule(f, text) = IF first = 0 THEN <<>> ELSE <<Rules[first]>>
  BY DEF FirstRule, SelectInSeq
<1>2. Len(Rules) = 6 /\ \A r : r \in RuleNames <=> \E i \in 1 .. 6 : Rules[i] = r
  BY DEF Rules, RuleNames
<1>3. At # {} <=> \E rule \in RuleNames : Breaks(rule, f, text)
  BY <1>2
<1>4. At \in SUBSET Nat /\ 0 \notin At
  BY <1>2
<1>5. At # {} => Min(At) \in At
  <2> HIDE DEF At
  <2> QED BY <1>4, FirstExists
<1>6. first # 0 <=> At # {}
  BY <1>4, <1>5
<1> HIDE DEF first, At
<1> QED BY <1>1, <1>3, <1>6, OneElement, EmptySequence

(* validateRow finds one when the WebAssembly export or RegExp does.       *)
BrowserRules(f, text) == WasmRule(f, text) \o JsPattern(f, text)

TooShort(f, text) == f.min_length > 0 /\ Length(text) < f.min_length
TooLong(f, text) == f.max_length > 0 /\ Length(text) > f.max_length
JsMismatch(f, text) == f.pattern # NULL /\ JsCompiles(f.pattern) /\ ~JsMatches(f.pattern, text)

LEMMA BrowserRulesBroken ==
  ASSUME NEW f, NEW text
  PROVE  /\ IsSequence(BrowserRules(f, text))
         /\ BrowserRules(f, text) # <<>> <=>
              IF text = "" THEN f.required
              ELSE TooShort(f, text) \/ TooLong(f, text) \/ JsMismatch(f, text)
<1> DEFINE w == WasmRule(f, text)
           p == JsPattern(f, text)
<1>1. /\ IsSequence(w)
      /\ w # <<>> <=> IF text = "" THEN f.required ELSE TooShort(f, text) \/ TooLong(f, text)
  <2>1. CASE text = ""
    <3>1. w = IF f.required THEN <<"required">> ELSE <<>>
      BY <2>1 DEF WasmRule
    <3> QED BY <2>1, <3>1, OneElement, EmptySequence
  <2>2. CASE text # "" /\ ~TooShort(f, text) /\ ~TooLong(f, text)
    <3>1. w = <<>>
      BY <2>2 DEF WasmRule, TooShort, TooLong
    <3> QED BY <2>2, <3>1, EmptySequence
  <2>3. CASE text # "" /\ (TooShort(f, text) \/ TooLong(f, text))
    <3>1. w = <<"minLength">> \/ w = <<"maxLength">>
      BY <2>3 DEF WasmRule, TooShort, TooLong
    <3> QED BY <2>3, <3>1, OneElement
  <2> QED BY <2>1, <2>2, <2>3
<1>2. /\ IsSequence(p)
      /\ p # <<>> <=> text # "" /\ JsMismatch(f, text)
  BY OneElement, EmptySequence DEF JsPattern, JsMismatch
<1> HIDE DEF w, p
<1>3. IsSequence(w \o p) /\ (w \o p # <<>> <=> w # <<>> \/ p # <<>>)
  <2>1. IsSequence(w) /\ IsSequence(p)
    BY <1>1, <1>2
  <2>2. IsSequence(w \o p) /\ Len(w \o p) = Len(w) + Len(p)
    BY <2>1, SequenceConcat
  <2>3. /\ Len(w) \in Nat /\ Len(p) \in Nat
        /\ w = <<>> <=> Len(w) = 0
        /\ p = <<>> <=> Len(p) = 0
        /\ w \o p = <<>> <=> Len(w \o p) = 0
    BY <2>1, <2>2, SequenceFacts
  <2> QED BY <2>2, <2>3
<1> QED BY <1>1, <1>2, <1>3 DEF BrowserRules, w, p

LEMMA FieldsOfValidateRow ==
  ASSUME NEW row, NEW vs, IsSequence(row)
  PROVE  FieldsIn(ValidateRow(row, vs)) =
           { row[n].name :
               n \in { k \in DOMAIN row : BrowserRules(row[k], TextOf(vs[row[k].name])) # <<>> } }
<1> DEFINE e == [n \in DOMAIN row |-> BrowserErrors(row[n], vs[row[n].name])]
           Rule(n) == BrowserRules(row[n], TextOf(vs[row[n].name]))
<1>1. DOMAIN e = DOMAIN row /\ e = [n \in DOMAIN e |-> e[n]]
      /\ \A n \in DOMAIN row : e[n] = Errors(row[n], Rule(n))
  BY DEF BrowserErrors, BrowserRules
<1>2. ValidateRow(row, vs) = FlattenSeq(e)
  BY DEF ValidateRow
<1>3. \A n \in DOMAIN row : IsSequence(Rule(n))
  BY BrowserRulesBroken
<1> HIDE DEF e, Rule
<1>4. IsSequence(e)
  BY <1>1, SequenceMap
<1>5. \A n \in DOMAIN row : /\ IsSequence(e[n])
                           /\ FieldsIn(e[n]) = IF Rule(n) = <<>> THEN {} ELSE {row[n].name}
  BY <1>1, <1>3, FieldsOfErrors
<1>6. ToSet(FlattenSeq(e)) = UNION { ToSet(e[n]) : n \in DOMAIN row }
  BY <1>1, <1>4, <1>5, FlattenElements
<1>7. \A u : FieldsIn(u) = { x.field : x \in ToSet(u) }
  BY DEF FieldsIn, ToSet
<1>8. FieldsIn(FlattenSeq(e)) = UNION { FieldsIn(e[n]) : n \in DOMAIN row }
  BY <1>6, <1>7
<1>9. FieldsIn(FlattenSeq(e)) = { row[n].name : n \in { k \in DOMAIN row : Rule(k) # <<>> } }
  <2> DEFINE bad == { k \in DOMAIN row : Rule(k) # <<>> }
             left == UNION { FieldsIn(e[n]) : n \in DOMAIN row }
             right == { row[n].name : n \in bad }
  <2>1. ASSUME NEW x \in left
        PROVE  x \in right
    <3>1. PICK n \in DOMAIN row : x \in FieldsIn(e[n])
      OBVIOUS
    <3>2. Rule(n) # <<>> /\ x = row[n].name
      BY <1>5, <3>1
    <3> QED BY <3>2
  <2>2. ASSUME NEW x \in right
        PROVE  x \in left
    <3>1. PICK n \in DOMAIN row : Rule(n) # <<>> /\ x = row[n].name
      OBVIOUS
    <3>2. x \in FieldsIn(e[n])
      BY <1>5, <3>1
    <3> QED BY <3>2
  <2>3. left = right
    <3> HIDE DEF left, right
    <3> QED BY <2>1, <2>2
  <2> QED BY <1>8, <2>3
<1> QED BY <1>2, <1>9 DEF Rule

LEMMA ErrorsOfValidateRow ==
  ASSUME NEW row, NEW vs, IsSequence(row)
  PROVE  ToSet(ValidateRow(row, vs)) =
           UNION { ToSet(Errors(row[n], BrowserRules(row[n], TextOf(vs[row[n].name])))) :
                     n \in DOMAIN row }
<1> DEFINE e == [n \in DOMAIN row |-> BrowserErrors(row[n], vs[row[n].name])]
           Rule(n) == BrowserRules(row[n], TextOf(vs[row[n].name]))
<1>1. DOMAIN e = DOMAIN row /\ e = [n \in DOMAIN e |-> e[n]]
      /\ \A n \in DOMAIN row : e[n] = Errors(row[n], Rule(n))
  BY DEF BrowserErrors, BrowserRules
<1>2. ValidateRow(row, vs) = FlattenSeq(e)
  BY DEF ValidateRow
<1>3. \A n \in DOMAIN row : IsSequence(Rule(n))
  BY BrowserRulesBroken
<1> HIDE DEF e, Rule
<1>4. IsSequence(e) /\ \A n \in DOMAIN row : IsSequence(e[n])
  BY <1>1, <1>3, SequenceMap, FieldsOfErrors
<1>5. ToSet(FlattenSeq(e)) = UNION { ToSet(e[n]) : n \in DOMAIN row }
  BY <1>1, <1>4, FlattenElements
<1>6. { ToSet(e[n]) : n \in DOMAIN row } = { ToSet(Errors(row[n], Rule(n))) : n \in DOMAIN row }
  BY <1>1
<1> QED BY <1>2, <1>5, <1>6 DEF Rule

-----------------------------------------------------------------------------
(* One field, checked by hyle_purify_row and by the browser.               *)
LEMMA FieldAgrees ==
  ASSUME NEW f, NEW v \in JsValues \cup {NULL}, IsString(f), SamePattern(f)
  PROVE  FirstRule(f, TextOf(v)) # <<>> <=> BrowserRules(f, TextOf(v)) # <<>>
<1> DEFINE text == TextOf(v)
           Bad(rule) == Breaks(rule, f, text)
<1>1. CASE text = ""
  <2>1. \A rule : Bad(rule) <=> rule = "required" /\ f.required
    BY <1>1 DEF Breaks
  <2>2. (\E rule \in RuleNames : Bad(rule)) <=> f.required
    BY <2>1 DEF RuleNames
  <2> QED BY <1>1, <2>2, FirstRuleBroken, BrowserRulesBroken
<1>2. CASE text # ""
  <2>1. v \in JsValues /\ text = v.text
    BY <1>2 DEF TextOf
  <2>2. f.type # "int"
    BY DEF IsString
  <2>3. ~Bad("required") /\ ~Bad("min") /\ ~Bad("max")
    BY <1>2, <2>2 DEF Breaks
  <2>4. /\ Bad("minLength") <=> TooShort(f, text)
        /\ Bad("maxLength") <=> TooLong(f, text)
        /\ Bad("pattern") <=> /\ f.pattern # NULL
                              /\ ~Compiles(f.pattern) \/ ~Matches(f.pattern, text)
    BY <1>2 DEF Breaks, TooShort, TooLong
  <2>5. Bad("pattern") <=> JsMismatch(f, text)
    BY <2>1, <2>4 DEF SamePattern, JsMismatch
  <2> HIDE DEF Bad, text
  <2>6. (\E rule \in RuleNames : Bad(rule))
          <=> TooShort(f, text) \/ TooLong(f, text) \/ JsMismatch(f, text)
    BY <2>3, <2>4, <2>5 DEF RuleNames
  <2> QED BY <1>2, <2>6, FirstRuleBroken, BrowserRulesBroken DEF Bad, text
<1> QED BY <1>1, <1>2

(* hyle_purify_row reports what the WebAssembly export does, and a pattern *)
(* only when that reports nothing.                                         *)
FieldRule(f, text) == IF WasmRule(f, text) # <<>> THEN WasmRule(f, text) ELSE JsPattern(f, text)

LEMMA FirstIsFieldRule ==
  ASSUME NEW f, NEW v \in JsValues \cup {NULL}, IsString(f), SamePattern(f)
  PROVE  FirstRule(f, TextOf(v)) = FieldRule(f, TextOf(v))
<1> DEFINE text == TextOf(v)
           At == { i \in 1 .. 6 : Breaks(Rules[i], f, text) }
           first == IF At # {} THEN Min(At) ELSE 0
<1>1. Len(Rules) = 6
  BY DEF Rules
<1>2. FirstRule(f, text) = IF first = 0 THEN <<>> ELSE <<Rules[first]>>
  BY <1>1 DEF FirstRule, SelectInSeq
<1>3. At \in SUBSET Nat /\ 0 \notin At
  OBVIOUS
<1>4. \/ At = {} /\ first = 0
      \/ first \in At /\ first # 0 /\ \A j \in At : first <= j
  <2> HIDE DEF At
  <2> QED BY <1>3, FirstExists
<1>5. /\ Rules[1] = "required" /\ Rules[2] = "min" /\ Rules[3] = "max"
      /\ Rules[4] = "minLength" /\ Rules[5] = "maxLength" /\ Rules[6] = "pattern"
  BY DEF Rules
<1>6. CASE text = ""
  <2>1. At = IF f.required THEN {1} ELSE {}
    <3>1. \A i \in 1 .. 6 : Breaks(Rules[i], f, text) <=> Rules[i] = "required" /\ f.required
      BY <1>6 DEF Breaks
    <3>2. \A i \in 1 .. 6 : Rules[i] = "required" <=> i = 1
      BY <1>5
    <3> QED BY <3>1, <3>2
  <2>2. first = IF f.required THEN 1 ELSE 0
    <3> HIDE DEF At, first
    <3> QED BY <1>4, <2>1
  <2>3. FirstRule(f, text) = IF f.required THEN <<"required">> ELSE <<>>
    BY <1>2, <1>5, <2>2
  <2>4. WasmRule(f, text) = (IF f.required THEN <<"required">> ELSE <<>>) /\ JsPattern(f, text) = <<>>
    BY <1>6 DEF WasmRule, JsPattern
  <2> QED BY <2>3, <2>4, OneElement DEF FieldRule
<1>7. CASE text # ""
  <2>1. v \in JsValues /\ text = v.text
    BY <1>7 DEF TextOf
  <2>2. 1 \notin At /\ 2 \notin At /\ 3 \notin At
    BY <1>5, <1>7 DEF Breaks, IsString
  <2>3. /\ 4 \in At <=> TooShort(f, text)
        /\ 5 \in At <=> TooLong(f, text)
        /\ 6 \in At <=> /\ f.pattern # NULL
                        /\ ~Compiles(f.pattern) \/ ~Matches(f.pattern, text)
    <3>1. /\ Breaks("minLength", f, text) <=> TooShort(f, text)
          /\ Breaks("maxLength", f, text) <=> TooLong(f, text)
          /\ Breaks("pattern", f, text) <=> /\ f.pattern # NULL
                                            /\ ~Compiles(f.pattern) \/ ~Matches(f.pattern, text)
      BY <1>7 DEF Breaks, TooShort, TooLong
    <3>2. \A i \in 1 .. 6 : i \in At <=> Breaks(Rules[i], f, text)
      OBVIOUS
    <3> HIDE DEF At, text
    <3> QED BY <1>5, <3>1, <3>2
  <2>4. 6 \in At <=> JsMismatch(f, text)
    BY <2>1, <2>3 DEF SamePattern, JsMismatch
  <2>5. At \subseteq 4 .. 6
    <3>1. At \subseteq 1 .. 6
      OBVIOUS
    <3> HIDE DEF At
    <3> QED BY <2>2, <3>1
  <2>6. FieldRule(f, text) = IF TooShort(f, text) THEN <<"minLength">>
                             ELSE IF TooLong(f, text) THEN <<"maxLength">>
                             ELSE IF JsMismatch(f, text) THEN <<"pattern">> ELSE <<>>
    <3>1. WasmRule(f, text) = IF TooShort(f, text) THEN <<"minLength">>
                              ELSE IF TooLong(f, text) THEN <<"maxLength">> ELSE <<>>
      BY <1>7 DEF WasmRule, TooShort, TooLong
    <3>2. JsPattern(f, text) = IF JsMismatch(f, text) THEN <<"pattern">> ELSE <<>>
      BY <1>7 DEF JsPattern, JsMismatch
    <3> QED BY <3>1, <3>2, OneElement DEF FieldRule
  <2> HIDE DEF At, first
  <2>7. first = IF 4 \in At THEN 4 ELSE IF 5 \in At THEN 5 ELSE IF 6 \in At THEN 6 ELSE 0
    <3>1. \A i \in At : i = 4 \/ i = 5 \/ i = 6
      BY <2>5
    <3>2. CASE At = {} /\ first = 0
      BY <3>2
    <3>3. CASE first \in At /\ \A j \in At : first <= j
      <4>1. /\ first = 4 \/ first = 5 \/ first = 6
            /\ 4 \in At => first <= 4
            /\ 5 \in At => first <= 5
        BY <3>1, <3>3
      <4> QED BY <3>3, <4>1
    <3> QED BY <1>4, <3>2, <3>3
  <2>8. FirstRule(f, text) = IF 4 \in At THEN <<"minLength">>
                             ELSE IF 5 \in At THEN <<"maxLength">>
                             ELSE IF 6 \in At THEN <<"pattern">> ELSE <<>>
    BY <1>2, <1>5, <2>7
  <2> QED BY <2>3, <2>4, <2>6, <2>8
<1> QED BY <1>6, <1>7

(* So its errors are among the browser's, which has patterns besides.      *)
LEMMA RulesAgree ==
  ASSUME NEW f, NEW v \in JsValues \cup {NULL}, IsString(f), SamePattern(f)
  PROVE  /\ ToSet(FirstRule(f, TextOf(v))) \subseteq ToSet(BrowserRules(f, TextOf(v)))
         /\ \A r \in ToSet(BrowserRules(f, TextOf(v))) \ ToSet(FirstRule(f, TextOf(v))) :
              r = "pattern"
<1> DEFINE w == WasmRule(f, TextOf(v))
           p == JsPattern(f, TextOf(v))
<1>1. IsSequence(w) /\ IsSequence(p)
  BY OneElement, EmptySequence DEF WasmRule, JsPattern
<1>2. \A r \in ToSet(p) : r = "pattern"
  <2>1. ToSet(<<"pattern">>) = {"pattern"}
    BY DEF ToSet
  <2>2. p = <<"pattern">> \/ p = <<>>
    BY DEF JsPattern
  <2> HIDE DEF p
  <2> QED BY <2>1, <2>2, EmptySequence
<1>3. BrowserRules(f, TextOf(v)) = w \o p
  BY DEF BrowserRules
<1>4. FirstRule(f, TextOf(v)) = IF w # <<>> THEN w ELSE p
  BY FirstIsFieldRule DEF FieldRule
<1> HIDE DEF w, p
<1>5. ToSet(w \o p) = ToSet(w) \cup ToSet(p)
  BY <1>1, SequenceConcat
<1>6. w = <<>> => ToSet(w) = {}
  BY EmptySequence
<1> QED BY <1>2, <1>3, <1>4, <1>5, <1>6

(* The same by way of the native addon, which leaves out what Shared does. *)
LEMMA NativeFieldAgrees ==
  ASSUME NEW f, IsField(f), NEW v \in JsValues \cup {NULL}, IsString(f), SamePattern(f),
         f.max_length = 0, v # NULL => v.string
  PROVE  /\ NativeField(f).name = f.name
         /\ FirstRule(NativeField(f), NativeText(v)) = FirstRule(f, TextOf(v))
<1> DEFINE g == NativeField(f)
<1>1. /\ g.name = f.name /\ g.type = "string" /\ g.required = f.required
      /\ g.min_length = f.min_length /\ g.max_length = f.max_length /\ g.pattern = f.pattern
  BY DEF IsField, NativeField
<1>2. NativeText(v) = TextOf(v)
  BY DEF NativeText, TextOf
<1> HIDE DEF g
<1>3. IsString(g) /\ SamePattern(g)
  BY <1>1 DEF IsString, SamePattern
<1>4. /\ FirstRule(g, TextOf(v)) = FieldRule(g, TextOf(v))
      /\ FirstRule(f, TextOf(v)) = FieldRule(f, TextOf(v))
  BY <1>3, FirstIsFieldRule
<1>5. FieldRule(g, TextOf(v)) = FieldRule(f, TextOf(v))
  BY <1>1 DEF FieldRule, WasmRule, JsPattern
<1> QED BY <1>1, <1>2, <1>4, <1>5 DEF g

-----------------------------------------------------------------------------
(* What a call has found so far: the fields up to the next that break a    *)
(* rule.  A call that returned errors, or none, went through all of them.  *)
Faulty(c) == { k \in DOMAIN c.fields : k < c.next /\ FirstRule(c.fields[k], c.values[k]) # <<>> }
NamesAt(row, K) == { row[k].name : k \in K }

(* The errors of the fields before the n-th.                               *)
RowErrors(row, texts, n) ==
  UNION { ToSet(Errors(row[k], FirstRule(row[k], texts[k]))) :
            k \in { j \in DOMAIN row : j < n } }

CallFields(c) ==
  /\ c.stage \in {"checking", "valid", "invalid"} =>
       /\ FieldsIn(c.errors) = NamesAt(c.fields, Faulty(c))
       /\ ToSet(c.errors) = RowErrors(c.fields, c.values, c.next)
  /\ c.stage \in {"valid", "invalid"} => c.next = Len(c.fields) + 1

(* The call in progress checks the row of the form, which waits for it.    *)
NodeRow == [n \in DOMAIN fields |-> NativeField(fields[n])]

Submission ==
  /\ Quiet
  /\ submitted.errors = validation
  /\ \/ submitted.to = "node" /\ purify.fields = NodeRow /\ purify.values = NodeTexts
     \/ submitted.to = "c" /\ purify.fields = fields /\ purify.values = CTexts

RowInv ==
  /\ ~excused.grew => validation = ValidateRow(fields, values)
  /\ purify.stage # "idle" => Submission
  /\ CallFields(purify)

LEMMA StartFields ==
  ASSUME NEW row, NEW texts, IsSequence(row), PurifyStart(row, texts)
  PROVE  CallFields(purify') /\ purify'.fields = row /\ purify'.values = texts
<1>1. PICK stage, held :
        /\ purify' = [stage |-> stage, fields |-> row, values |-> texts, next |-> 1,
                      errors |-> <<>>, held |-> held]
        /\ stage = "valid" => row = <<>>
        /\ stage \in {"valid", "checking", "failed"}
  BY DEF PurifyStart, NoCall
<1>2. DOMAIN row = 1 .. Len(row) /\ Len(row) \in Nat /\ (row = <<>> <=> Len(row) = 0)
  BY SequenceFacts
<1>3. Faulty(purify') = {} /\ FieldsIn(<<>>) = {}
  BY <1>1, <1>2, EmptySequence DEF Faulty, FieldsIn
<1>4. NamesAt(row, {}) = {}
  BY DEF NamesAt
<1>5. /\ purify'.fields = row /\ purify'.values = texts /\ purify'.errors = <<>>
      /\ purify'.next = 1 /\ purify'.stage = stage
  BY <1>1
<1>6. FieldsIn(purify'.errors) = NamesAt(purify'.fields, Faulty(purify'))
  BY <1>3, <1>4, <1>5
<1>7. purify'.stage \in {"valid", "invalid"} => purify'.next = Len(purify'.fields) + 1
  BY <1>1, <1>2, <1>5
<1>8. ToSet(purify'.errors) = RowErrors(purify'.fields, purify'.values, purify'.next)
  <2>1. { j \in DOMAIN row : j < 1 } = {}
    BY <1>2
  <2>2. RowErrors(row, texts, 1) = {}
    BY <2>1 DEF RowErrors
  <2> QED BY <1>5, <2>2, EmptySequence
<1> QED BY <1>5, <1>6, <1>7, <1>8 DEF CallFields

LEMMA FieldFields ==
  ASSUME CallInv(purify), CallFields(purify), PurifyField
  PROVE  /\ CallFields(purify')
         /\ purify'.fields = purify.fields /\ purify'.values = purify.values
<1>1. /\ purify.stage = "checking" /\ purify.next \in Nat
      /\ purify.next <= Len(purify.fields)
      /\ IsSequence(purify.fields) /\ IsSequence(purify.errors)
      /\ DOMAIN purify.fields = 1 .. Len(purify.fields) /\ Len(purify.fields) \in Nat
      /\ purify.next \in DOMAIN purify.fields
  <2>1. IsSequence(purify.fields) /\ IsSequence(purify.errors)
    BY DEF CallInv
  <2>2. Len(purify.errors) \in Nat
    BY <2>1, SequenceFacts
  <2> QED BY <2>1, <2>2, SequenceFacts DEF CallInv, PurifyField, Checking
<1>2. CASE FieldChecked
  <2> DEFINE more == Errors(FieldNext, RulesNext)
             written == purify.errors \o more
  <2>1. purify' = [purify EXCEPT
          !.next = purify.next + 1, !.errors = written,
          !.held = purify.held \cup { Message(n) : n \in Len(purify.errors) + 1 .. Len(written) }]
    BY <1>2 DEF FieldChecked
  <2>2. /\ purify'.stage = purify.stage /\ purify'.fields = purify.fields
        /\ purify'.values = purify.values /\ purify'.next = purify.next + 1
        /\ purify'.errors = written
    <3> HIDE DEF written
    <3> QED BY <2>1 DEF CallInv, IsCall
  <2>3. IsSequence(RulesNext)
    BY FirstRuleBroken DEF RulesNext
  <2>4. /\ IsSequence(more)
        /\ FieldsIn(more) = IF RulesNext = <<>> THEN {} ELSE {purify.fields[purify.next].name}
    BY <2>3, FieldsOfErrors DEF FieldNext
  <2>5. FieldsIn(written) = FieldsIn(purify.errors) \cup FieldsIn(more)
    BY <1>1, <2>4, FieldsOfConcat
  <2>6. Faulty(purify') = Faulty(purify) \cup (IF RulesNext = <<>> THEN {} ELSE {purify.next})
    BY <1>1, <2>2 DEF Faulty, RulesNext, FieldNext
  <2>7. NamesAt(purify.fields, Faulty(purify'))
          = NamesAt(purify.fields, Faulty(purify))
              \cup (IF RulesNext = <<>> THEN {} ELSE {purify.fields[purify.next].name})
    BY <2>6 DEF NamesAt
  <2>8. FieldsIn(purify.errors) = NamesAt(purify.fields, Faulty(purify))
    BY <1>1 DEF CallFields
  <2> HIDE DEF written
  <2>9. ToSet(written) = RowErrors(purify.fields, purify.values, purify.next + 1)
    <3> DEFINE row == purify.fields
               texts == purify.values
               n == purify.next
    <3>1. { j \in DOMAIN row : j < n + 1 } = { j \in DOMAIN row : j < n } \cup {n}
      <4> HIDE DEF row, n
      <4> QED BY <1>1 DEF row, n
    <3>2. RowErrors(row, texts, n + 1)
            = RowErrors(row, texts, n) \cup ToSet(Errors(row[n], FirstRule(row[n], texts[n])))
      <4> HIDE DEF row, n, texts
      <4> QED BY <3>1 DEF RowErrors
    <3>3. ToSet(more) = ToSet(Errors(row[n], FirstRule(row[n], texts[n])))
      BY DEF RulesNext, FieldNext
    <3>4. ToSet(purify.errors) = RowErrors(row, texts, n)
      BY <1>1 DEF CallFields
    <3> HIDE DEF more, row, n, texts
    <3>5. ToSet(written) = ToSet(purify.errors) \cup ToSet(more)
      BY <1>1, <2>4, SequenceConcat DEF written
    <3> QED BY <3>2, <3>3, <3>4, <3>5 DEF row, n, texts
  <2> HIDE DEF more
  <2>10. FieldsIn(purify'.errors) = NamesAt(purify'.fields, Faulty(purify'))
    BY <2>2, <2>4, <2>5, <2>7, <2>8
  <2>11. ToSet(purify'.errors) = RowErrors(purify'.fields, purify'.values, purify'.next)
    BY <2>2, <2>9
  <2> QED BY <1>1, <2>2, <2>10, <2>11 DEF CallFields
<1>3. CASE purify' = Failed
  <2>1. /\ purify'.stage = "failed" /\ purify'.fields = purify.fields
        /\ purify'.values = purify.values
    BY <1>3 DEF Failed, CallInv, IsCall
  <2> QED BY <2>1 DEF CallFields
<1> QED BY <1>2, <1>3 DEF PurifyField

LEMMA ReturnFields ==
  ASSUME CallInv(purify), CallFields(purify), PurifyReturn
  PROVE  /\ CallFields(purify')
         /\ purify'.fields = purify.fields /\ purify'.values = purify.values
<1>1. /\ purify'.stage \in {"valid", "invalid"} /\ purify'.fields = purify.fields
      /\ purify'.values = purify.values /\ purify'.next = purify.next
      /\ purify'.errors = purify.errors
  BY DEF PurifyReturn, CallInv, IsCall
<1>2. Faulty(purify') = Faulty(purify)
  BY <1>1 DEF Faulty
<1>3. purify.next = Len(purify.fields) + 1
  <2>1. Len(purify.fields) \in Nat
    BY SequenceFacts DEF CallInv
  <2> QED BY <2>1 DEF PurifyReturn, CallInv
<1>4. /\ FieldsIn(purify.errors) = NamesAt(purify.fields, Faulty(purify))
      /\ ToSet(purify.errors) = RowErrors(purify.fields, purify.values, purify.next)
  BY DEF PurifyReturn, CallFields
<1> QED BY <1>1, <1>2, <1>3, <1>4 DEF CallFields

-----------------------------------------------------------------------------
RowVars == <<fields, values, validation, frames, submitted, purify, excused.grew>>

LEMMA RowStays ==
  ASSUME RowInv, UNCHANGED RowVars
  PROVE  RowInv'
BY DEF RowInv, RowVars, Submission, Quiet, NodeRow, NodeTexts, CTexts, CallFields

LEMMA InitRow ==
  ASSUME Init
  PROVE  RowInv
BY DEF Init, RowInv, CallFields, NoCall

LEMMA StepRow ==
  ASSUME FormInv, PurifyInv, RowInv, Next
  PROVE  RowInv'
<1> USE DEF FormInv
<1>1. ASSUME NEW name \in Names, NEW value \in JsValues, SetField(name, value)
      PROVE  RowInv'
  <2>1. purify.stage = "idle" /\ purify' = purify
    BY <1>1 DEF SetField, ProgramRuns
  <2>2. validation' = ValidateRow(fields', values')
    BY <1>1 DEF SetField
  <2> QED BY <2>1, <2>2 DEF RowInv, CallFields
<1>2. ASSUME purify.stage = "idle" \/ ~Quiet, ~excused.grew' => ~excused.grew,
             UNCHANGED <<values, validation, purify>>, ~excused.grew' => fields' = fields
      PROVE  RowInv'
  <2>1. purify.stage = "idle"
    BY <1>2 DEF RowInv, Submission
  <2> QED BY <1>2, <2>1 DEF RowInv, CallFields
<1>3. excused \in [wrote : BOOLEAN, threw : BOOLEAN, grew : BOOLEAN]
  BY DEF FormTypes
<1>4. CASE Call \/ LoopEnds
  BY <1>2, <1>4 DEF Call, LoopEnds
<1>5. CASE Throw
  <2>1. excused'.grew = excused.grew
    BY <1>3, <1>5 DEF Throw
  <2> QED BY <1>2, <1>5, <2>1 DEF Throw
<1>6. ASSUME NEW l \in Listener, Subscribe(l) \/ Unsubscribe(l)
      PROVE  RowInv'
  BY <1>2, <1>6 DEF Subscribe, Unsubscribe, ProgramRuns
<1>7. ASSUME NEW f \in MoreFields, AddField(f)
      PROVE  RowInv'
  <2>1. excused'.grew = TRUE
    BY <1>3, <1>7 DEF AddField
  <2> QED BY <1>2, <1>7, <2>1 DEF AddField, ProgramRuns
<1>8. ASSUME UNCHANGED formVars, Submission', CallFields(purify')
      PROVE  RowInv'
  BY <1>8 DEF RowInv, formVars
<1>9. CASE SubmitToNode
  <2>1. IsSequence(NodeRow)
    <3>1. IsSequence(fields) /\ DOMAIN NodeRow = DOMAIN fields
          /\ NodeRow = [n \in DOMAIN NodeRow |-> NodeRow[n]]
      BY DEF PurifyInv, NodeRow
    <3> QED BY <3>1, SequenceMap
  <2>2. PurifyStart(NodeRow, NodeTexts)
    BY <1>9 DEF SubmitToNode, NodeRow
  <2>3. /\ CallFields(purify') /\ purify'.fields = NodeRow /\ purify'.values = NodeTexts
    BY <2>1, <2>2, StartFields
  <2>4. /\ submitted' = [to |-> "node", errors |-> validation] /\ UNCHANGED formVars /\ Quiet
    BY <1>9 DEF SubmitToNode
  <2>5. Submission'
    BY <2>3, <2>4 DEF Submission, Quiet, NodeRow, NodeTexts, formVars
  <2> QED BY <1>8, <2>3, <2>4, <2>5
<1>10. CASE SubmitToC
  <2>1. IsSequence(fields) /\ PurifyStart(fields, CTexts)
    BY <1>10 DEF SubmitToC, PurifyInv
  <2>2. /\ CallFields(purify') /\ purify'.fields = fields /\ purify'.values = CTexts
    BY <2>1, StartFields
  <2>3. /\ submitted' = [to |-> "c", errors |-> validation] /\ UNCHANGED formVars /\ Quiet
    BY <1>10 DEF SubmitToC
  <2>4. Submission'
    BY <2>2, <2>3 DEF Submission, Quiet, CTexts, formVars
  <2> QED BY <1>8, <2>2, <2>3, <2>4
<1>11. CASE Check
  <2>1. CallInv(purify) /\ CallFields(purify)
    BY DEF PurifyInv, RowInv
  <2>2. /\ CallFields(purify')
        /\ purify'.fields = purify.fields /\ purify'.values = purify.values
    BY <1>11, <2>1, FieldFields, ReturnFields DEF Check
  <2>3. purify.stage = "checking"
    BY <1>11 DEF Check, PurifyField, Checking, PurifyReturn
  <2>4. UNCHANGED <<formVars, submitted>>
    BY <1>11 DEF Check
  <2>5. Submission'
    BY <2>2, <2>3, <2>4 DEF RowInv, Submission, Quiet, NodeRow, NodeTexts, CTexts, formVars
  <2> QED BY <1>8, <2>2, <2>4, <2>5
<1>12. CASE Answered
  <2>1. purify'.stage = "idle" /\ UNCHANGED formVars
    BY <1>12 DEF Answered, PurifyErrorsFree, NoCall
  <2> QED BY <2>1 DEF RowInv, CallFields, formVars
<1> QED BY <1>1, <1>4, <1>5, <1>6, <1>7, <1>9, <1>10, <1>11, <1>12 DEF Next

-----------------------------------------------------------------------------
LEMMA FormInvariant ==
  Spec => []FormInv
<1>1. Init => FormInv
  BY InitForm
<1>2. FormInv /\ [Next]_vars => FormInv'
  <2> SUFFICES ASSUME FormInv, [Next]_vars
               PROVE  FormInv'
    OBVIOUS
  <2>1. ASSUME NEW name \in Names, NEW value \in JsValues, SetField(name, value)
        PROVE  FormInv'
    BY <2>1, SetFieldForm
  <2>2. CASE Call
    BY <2>2, CallForm
  <2>3. CASE LoopEnds
    BY <2>3, FrontForm DEF LoopEnds
  <2>4. CASE Throw
    BY <2>4, FrontForm DEF Throw
  <2>5. ASSUME NEW l \in Listener, Subscribe(l) \/ Unsubscribe(l)
        PROVE  FormInv'
    BY <2>5, SubscribeForm, UnsubscribeForm
  <2>6. ASSUME NEW f \in MoreFields, AddField(f)
        PROVE  FormInv'
    BY <2>6, AddFieldForm
  <2>7. ASSUME UNCHANGED formVars
        PROVE  FormInv'
    BY <2>7 DEF FormInv, FormTypes, ToldInv, HeardInv, State, Subscribed, formVars
  <2>8. CASE SubmitToNode \/ SubmitToC \/ Check \/ Answered
    BY <2>7, <2>8 DEF SubmitToNode, SubmitToC, Check, Answered
  <2>9. CASE UNCHANGED vars
    BY <2>7, <2>9 DEF vars
  <2> QED BY <2>1, <2>2, <2>3, <2>4, <2>5, <2>6, <2>8, <2>9 DEF Next
<1> QED BY <1>1, <1>2, PTL DEF Spec

(* The form keeps its types: listeners are a Set, what a loop has left is  *)
(* subscribed whoever comes and goes while it runs, and the errors of a    *)
(* call fit their array.                                                   *)
THEOREM FormTypeCorrect ==
  Spec => []TypeOK
<1>1. FormInv /\ PurifyInv => TypeOK
  BY DEF FormInv, FormTypes, Loops, IsJsSet, PurifyInv, CallInv, IsSequence, TypeOK, ErrorsFit
<1> QED BY <1>1, FormInvariant, PurifyInvariant, PTL

(* When nothing is being told, and no listener wrote or threw, every       *)
(* subscriber heard the state of now last.                                 *)
THEOREM FormLastHeard ==
  Spec => []LastHeardIsCurrent
<1>1. FormInv => LastHeardIsCurrent
  <2> SUFFICES ASSUME FormInv, Quiet, ~excused.wrote, ~excused.threw, NEW l \in Subscribed
               PROVE  heard[l] = State
    BY DEF LastHeardIsCurrent
  <2>1. ~ToBeTold(l, frames, State)
    BY EmptySequence DEF Quiet, ToBeTold
  <2> QED BY <2>1 DEF FormInv, HeardInv
<1> QED BY <1>1, FormInvariant, PTL

(* Nobody misses an update, also when listeners write from inside a loop.  *)
THEOREM FormNoUpdateMissed ==
  Spec => []NoUpdateMissed
<1>1. FormInv => NoUpdateMissed
  <2> SUFFICES ASSUME FormInv, Quiet, ~excused.threw, NEW l \in Subscribed
               PROVE  l \in told
    BY DEF NoUpdateMissed
  <2>1. ~ToBeTold(l, frames, State)
    BY EmptySequence DEF Quiet, ToBeTold
  <2> QED BY <2>1 DEF FormInv, ToldInv
<1> QED BY <1>1, FormInvariant, PTL

(* Who left the Set, from inside a loop too, is not called any more.       *)
THEOREM FormCallsSubscribers ==
  Spec => OnlySubscribersAreCalled
<1> DEFINE Heard == \A l \in Listener : heard'[l] # heard[l] => l \in ToSet(listeners')
<1>1. FormInv /\ [Next]_vars => [Heard]_vars
  <2> SUFFICES ASSUME FormInv, Next
               PROVE  Heard
    OBVIOUS
  <2>1. ASSUME heard' = heard
        PROVE  Heard
    BY <2>1
  <2>2. CASE Call
    <3> DEFINE l == Head(frames[Top].left)
    <3>1. l \in Subscribed /\ listeners' = listeners
      BY <2>2, CallForm DEF Call
    <3>2. heard' = [heard EXCEPT ![l] = frames[Top].state] /\ heard = [x \in Listener |-> heard[x]]
      BY <2>2 DEF Call, FormInv, FormTypes
    <3> HIDE DEF l
    <3> QED BY <3>1, <3>2 DEF Subscribed
  <2>3. ASSUME NEW l \in Listener, Subscribe(l)
        PROVE  Heard
    <3>1. l \in ToSet(listeners')
      BY <2>3, SubscribeForm DEF Subscribed
    <3>2. heard' = [heard EXCEPT ![l] = State] /\ heard = [x \in Listener |-> heard[x]]
      BY <2>3 DEF Subscribe, FormInv, FormTypes
    <3> QED BY <3>1, <3>2
  <2>4. ASSUME NEW name \in Names, NEW value \in JsValues, SetField(name, value)
        PROVE  Heard
    BY <2>1, <2>4 DEF SetField
  <2>5. ASSUME NEW l \in Listener, Unsubscribe(l)
        PROVE  Heard
    BY <2>1, <2>5 DEF Unsubscribe
  <2>6. ASSUME NEW f \in MoreFields, AddField(f)
        PROVE  Heard
    BY <2>1, <2>6 DEF AddField
  <2>7. CASE LoopEnds \/ Throw \/ SubmitToNode \/ SubmitToC \/ Check \/ Answered
    BY <2>1, <2>7 DEF LoopEnds, Throw, SubmitToNode, SubmitToC, Check, Answered, formVars
  <2> HIDE DEF Heard
  <2> QED BY <2>2, <2>3, <2>4, <2>5, <2>6, <2>7 DEF Next
<1> QED BY <1>1, FormInvariant, PTL DEF Spec, OnlySubscribersAreCalled

LEMMA RowInvariant ==
  Spec => []RowInv
<1>1. Init => RowInv
  BY InitRow
<1>2. FormInv /\ PurifyInv /\ RowInv /\ [Next]_vars => RowInv'
  <2>1. CASE UNCHANGED vars
    BY <2>1, RowStays DEF vars, formVars, RowVars
  <2> QED BY <2>1, StepRow
<1> QED BY <1>1, <1>2, FormInvariant, PurifyInvariant, PTL DEF Spec

(* For rules both sides know, the browser refuses the fields the server    *)
(* does, on Node and in C, shows every error the server finds, and besides *)
(* them patterns only, for rows and texts of any kind.                     *)
THEOREM FormServerAgrees ==
  Spec => []ServerAgrees
<1>1. FormInv /\ PurifyInv /\ RowInv => ServerAgrees
  <2> SUFFICES ASSUME FormInv, PurifyInv, RowInv, purify.stage \in {"valid", "invalid"},
                      ~excused.grew, \A n \in DOMAIN fields : Shared(fields[n])
               PROVE  /\ FieldsIn(purify.errors) = FieldsIn(submitted.errors)
                      /\ ToSet(purify.errors) \subseteq ToSet(submitted.errors)
                      /\ \A e \in ToSet(submitted.errors) \ ToSet(purify.errors) :
                           e.rule = "pattern"
    BY DEF ServerAgrees
  <2> DEFINE text(n) == TextOf(values[fields[n].name])
             refused == { n \in DOMAIN fields : BrowserRules(fields[n], text(n)) # <<>> }
  <2>1. /\ IsSequence(fields) /\ Submission
        /\ \A n \in DOMAIN fields : IsField(fields[n])
        /\ values \in [Names -> JsValues \cup {NULL}]
    BY DEF FormInv, FormTypes, RowInv
  <2>2. FieldsIn(submitted.errors) = NamesAt(fields, refused)
    <3>1. submitted.errors = ValidateRow(fields, values)
      BY <2>1 DEF RowInv, Submission
    <3> QED BY <2>1, <3>1, FieldsOfValidateRow DEF NamesAt
  <2>3. FieldsIn(purify.errors) = NamesAt(purify.fields, Faulty(purify))
    BY DEF RowInv, CallFields
  <2>4. /\ DOMAIN purify.fields = DOMAIN fields
        /\ \A n \in DOMAIN fields :
             /\ purify.fields[n].name = fields[n].name
             /\ FirstRule(purify.fields[n], purify.values[n]) = FirstRule(fields[n], text(n))
    <3>1. \A n \in DOMAIN fields :
            /\ IsField(fields[n]) /\ IsString(fields[n]) /\ SamePattern(fields[n])
            /\ values[fields[n].name] \in JsValues \cup {NULL}
      BY <2>1 DEF Shared, IsField
    <3>2. CASE submitted.to = "c" /\ purify.fields = fields /\ purify.values = CTexts
      <4>1. \A n \in DOMAIN fields : CTexts[n] = text(n)
        BY DEF CTexts
      <4> QED BY <3>2, <4>1
    <3>3. CASE submitted.to = "node" /\ purify.fields = NodeRow /\ purify.values = NodeTexts
      <4>1. /\ DOMAIN NodeRow = DOMAIN fields
            /\ \A n \in DOMAIN fields :
                 /\ NodeRow[n] = NativeField(fields[n])
                 /\ NodeTexts[n] = NativeText(values[fields[n].name])
        BY DEF NodeRow, NodeTexts
      <4>2. \A n \in DOMAIN fields :
              /\ fields[n].max_length = 0
              /\ values[fields[n].name] # NULL => values[fields[n].name].string
        BY <3>3 DEF Shared
      <4>3. \A n \in DOMAIN fields :
              /\ NativeField(fields[n]).name = fields[n].name
              /\ FirstRule(NativeField(fields[n]), NativeText(values[fields[n].name]))
                    = FirstRule(fields[n], text(n))
        BY <3>1, <4>2, NativeFieldAgrees
      <4> QED BY <3>3, <4>1, <4>3
    <3> QED BY <2>1, <3>2, <3>3 DEF Submission
  <2>5. \A n \in DOMAIN fields : FirstRule(fields[n], text(n)) # <<>> <=> n \in refused
    <3>1. \A n \in DOMAIN fields :
            /\ IsString(fields[n]) /\ SamePattern(fields[n])
            /\ values[fields[n].name] \in JsValues \cup {NULL}
      BY <2>1 DEF Shared, IsField
    <3> QED BY <3>1, FieldAgrees
  <2>6. Faulty(purify) = refused
    <3>1. purify.next = Len(purify.fields) + 1
      BY DEF RowInv, CallFields
    <3>2. IsSequence(purify.fields)
      BY DEF PurifyInv, CallInv
    <3>3. \A k \in DOMAIN purify.fields : k < purify.next
      BY <3>1, <3>2, SequenceFacts
    <3> HIDE DEF refused
    <3>4. \A k : k \in refused => k \in DOMAIN fields
      BY DEF refused
    <3>5. \A n \in DOMAIN fields :
            FirstRule(purify.fields[n], purify.values[n]) # <<>> <=> n \in refused
      BY <2>4, <2>5, Zenon
    <3> QED BY <2>4, <3>3, <3>4, <3>5 DEF Faulty
  <2>7. NamesAt(purify.fields, refused) = NamesAt(fields, refused)
    <3>1. \A n \in refused : purify.fields[n].name = fields[n].name
      BY <2>4
    <3> HIDE DEF refused
    <3> QED BY <3>1 DEF NamesAt
  <2> DEFINE Server(n) == ToSet(Errors(fields[n], FirstRule(fields[n], text(n))))
             Browser(n) == ToSet(Errors(fields[n], BrowserRules(fields[n], text(n))))
  <2>8. \A n \in DOMAIN fields :
          Server(n) \subseteq Browser(n) /\ \A e \in Browser(n) \ Server(n) : e.rule = "pattern"
    <3> SUFFICES ASSUME NEW n \in DOMAIN fields
                 PROVE  /\ Server(n) \subseteq Browser(n)
                        /\ \A e \in Browser(n) \ Server(n) : e.rule = "pattern"
      OBVIOUS
    <3> DEFINE first == FirstRule(fields[n], text(n))
               all == BrowserRules(fields[n], text(n))
    <3>1. /\ IsString(fields[n]) /\ SamePattern(fields[n])
          /\ values[fields[n].name] \in JsValues \cup {NULL}
      BY <2>1 DEF Shared, IsField
    <3>2. ToSet(first) \subseteq ToSet(all) /\ \A r \in ToSet(all) \ ToSet(first) : r = "pattern"
      BY <3>1, RulesAgree
    <3>3. /\ Server(n) = { [field |-> fields[n].name, rule |-> r] : r \in ToSet(first) }
          /\ Browser(n) = { [field |-> fields[n].name, rule |-> r] : r \in ToSet(all) }
      BY ElementsOfErrors, Zenon
    <3> HIDE DEF first, all, Server, Browser
    <3> QED BY <3>2, <3>3
  <2>9. ToSet(submitted.errors) = UNION { Browser(n) : n \in DOMAIN fields }
    <3>1. submitted.errors = ValidateRow(fields, values)
      BY <2>1 DEF RowInv, Submission
    <3> QED BY <2>1, <3>1, ErrorsOfValidateRow
  <2>10. ToSet(purify.errors) = UNION { Server(n) : n \in DOMAIN fields }
    <3>1. /\ ToSet(purify.errors) = RowErrors(purify.fields, purify.values, purify.next)
          /\ purify.next = Len(purify.fields) + 1
      BY DEF RowInv, CallFields
    <3>2. { j \in DOMAIN purify.fields : j < purify.next } = DOMAIN fields
      <4>1. IsSequence(purify.fields)
        BY DEF PurifyInv, CallInv
      <4>2. \A k \in DOMAIN purify.fields : k < purify.next
        BY <3>1, <4>1, SequenceFacts
      <4> QED BY <2>4, <4>2
    <3>3. \A n \in DOMAIN fields :
            ToSet(Errors(purify.fields[n], FirstRule(purify.fields[n], purify.values[n]))) = Server(n)
      BY <2>4 DEF Errors
    <3> HIDE DEF Server
    <3> QED BY <3>1, <3>2, <3>3 DEF RowErrors
  <2> HIDE DEF Server, Browser
  <2>11. ToSet(purify.errors) \subseteq ToSet(submitted.errors)
    BY <2>8, <2>9, <2>10
  <2>12. \A e \in ToSet(submitted.errors) \ ToSet(purify.errors) : e.rule = "pattern"
    BY <2>8, <2>9, <2>10
  <2>13. FieldsIn(purify.errors) = FieldsIn(submitted.errors)
    BY <2>2, <2>3, <2>6, <2>7
  <2> QED BY <2>11, <2>12, <2>13
<1> QED BY <1>1, FormInvariant, PurifyInvariant, RowInvariant, PTL
=============================================================================
