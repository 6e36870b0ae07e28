------------------------------- MODULE Purify -------------------------------
(***************************************************************************)
(* The rules a row is checked against: hyle_purify_row, which stops at the *)
(* first rule a field breaks and allocates a message for it, and the rules *)
(* of the npm package, which has two ways to check the same row: the       *)
(* native addon around hyle_purify_row, and, where there is none, a        *)
(* WebAssembly export with a pattern check in JavaScript.                  *)
(*                                                                         *)
(* A text stands for a C string or a JavaScript value converted by         *)
(* String(); a JavaScript value is such a text and whether it is a string. *)
(* A bound of 0 and a pattern of NULL are rules a field does not have.     *)
(***************************************************************************)
EXTENDS Integers, Sequences, SequencesExt

CONSTANTS
  NULL,            \* the C null pointer and JavaScript's undefined
  Length(_),       \* strlen
  IntOf(_),        \* parse_int64, NULL when the text is no integer
  Compiles(_),     \* regcomp succeeds
  Matches(_, _),   \* regexec finds the pattern in the text
  JsCompiles(_),   \* new RegExp does not throw
  JsMatches(_, _), \* RegExp.test
  AllocFails       \* TRUE when malloc and strdup may return NULL

Rules == <<"required", "min", "max", "minLength", "maxLength", "pattern">>
IsString(f) == f.type \in {"string", "nullable_string"}

-----------------------------------------------------------------------------
(* hyle_purify_row, one field.  A number that does not parse breaks no     *)
(* rule, a pattern that does not compile breaks "pattern".                 *)
Breaks(rule, f, text) ==
  IF text = "" THEN rule = "required" /\ f.required
  ELSE CASE rule = "required"  -> FALSE
         [] rule = "min"       -> /\ f.type = "int" /\ f.min # 0
                                  /\ IntOf(text) # NULL /\ IntOf(text) < f.min
         [] rule = "max"       -> /\ f.type = "int" /\ f.max # 0
                                  /\ IntOf(text) # NULL /\ IntOf(text) > f.max
         [] rule = "minLength" -> /\ IsString(f)
                                  /\ f.min_length > 0 /\ Length(text) < f.min_length
         [] rule = "maxLength" -> /\ IsString(f)
                                  /\ f.max_length > 0 /\ Length(text) > f.max_length
         [] rule = "pattern"   -> /\ IsString(f) /\ f.pattern # NULL
                                  /\ ~Compiles(f.pattern) \/ ~Matches(f.pattern, text)

(* Mutant: a field goes on to its next rule after an error.                *)
EveryRule(f, text) == SelectSeq(Rules, LAMBDA rule : Breaks(rule, f, text))

(* The errors of one field: the first rule it breaks, if there is one.     *)
FirstRule(f, text) ==
  LET first == SelectInSeq(Rules, LAMBDA rule : Breaks(rule, f, text))
  IN IF first = 0 THEN <<>> ELSE <<Rules[first]>>

Errors(f, rules) == [n \in DOMAIN rules |-> [field |-> f.name, rule |-> rules[n]]]

-----------------------------------------------------------------------------
(* The call in progress: "idle", "checking", or what it has returned.      *)
VARIABLE purify

NoCall == [stage |-> "idle", fields |-> <<>>, values |-> <<>>, next |-> 1,
           errors |-> <<>>, held |-> {}]

Array == <<"errors", 0>>
Message(n) == <<"message", n>>
Failed == [purify EXCEPT !.stage = "failed", !.errors = <<>>, !.held = {}]

(* hyle_purify_row begins: nothing is to be checked, or the array of       *)
(* errors, one for each field, is allocated.                               *)
PurifyStart(fields, values) ==
  LET called == [NoCall EXCEPT !.fields = fields, !.values = values]
  IN \/ /\ fields = <<>>
        /\ purify' = [called EXCEPT !.stage = "valid"]
     \/ /\ fields # <<>>
        /\ purify' = [called EXCEPT !.stage = "checking", !.held = {Array}]
     \/ /\ fields # <<>> /\ AllocFails
        /\ purify' = [called EXCEPT !.stage = "failed"]

Checking == purify.stage = "checking" /\ purify.next <= Len(purify.fields)
FieldNext == purify.fields[purify.next]
RulesNext == FirstRule(FieldNext, purify.values[purify.next])

(* The message of the rule the field breaks, if there is one, is written.  *)
FieldChecked ==
  LET errors == purify.errors \o Errors(FieldNext, RulesNext)
  IN purify' = [purify EXCEPT
       !.next = @ + 1,
       !.errors = errors,
       !.held = @ \cup { Message(n) : n \in Len(purify.errors) + 1 .. Len(errors) }]

(* Mutant: the messages written so far are not freed.                      *)
PurifyFieldLeaking ==
  /\ Checking
  /\ \/ FieldChecked
     \/ RulesNext # <<>> /\ AllocFails
        /\ purify' = [Failed EXCEPT !.held = purify.held \ {Array}]

(* One field.  The error array is freed, messages and all, when there is   *)
(* no memory for a message.                                                *)
PurifyField ==
  /\ Checking
  /\ \/ FieldChecked
     \/ RulesNext # <<>> /\ AllocFails /\ purify' = Failed

(* The return: a row without errors gives the array back.                  *)
PurifyReturn ==
  /\ purify.stage = "checking" /\ purify.next > Len(purify.fields)
  /\ purify' = IF purify.errors = <<>>
               THEN [purify EXCEPT !.stage = "valid", !.held = {}]
               ELSE [purify EXCEPT !.stage = "invalid"]

(* hyle_purify_errors_free, called by who asked.                           *)
PurifyErrorsFree ==
  /\ purify.stage \in {"valid", "invalid", "failed"}
  /\ purify' = [NoCall EXCEPT !.held =
       purify.held \ ({Array} \cup { Message(n) : n \in DOMAIN purify.errors })]

-----------------------------------------------------------------------------
(* The npm package.  HylePurify builds a C descriptor from the name, the   *)
(* required flag, the shortest length and the pattern, the type being 0,   *)
(* a string, and takes values that are strings only.                       *)
NativeField(f) == [f EXCEPT !.type = "string", !.min = 0, !.max = 0, !.max_length = 0]
NativeText(value) == IF value # NULL /\ value.string THEN value.text ELSE ""

(* Mutant: the shortest length allowed is an error.                        *)
WasmRuleStrict(f, text) ==
  IF text = "" THEN IF f.required THEN <<"required">> ELSE <<>>
  ELSE IF f.min_length > 0 /\ Length(text) <= f.min_length THEN <<"minLength">>
  ELSE IF f.max_length > 0 /\ Length(text) > f.max_length THEN <<"maxLength">>
  ELSE <<>>

(* hyle_wasm_validate_field, whatever the type.                            *)
WasmRule(f, text) ==
  IF text = "" THEN IF f.required THEN <<"required">> ELSE <<>>
  ELSE IF f.min_length > 0 /\ Length(text) < f.min_length THEN <<"minLength">>
  ELSE IF f.max_length > 0 /\ Length(text) > f.max_length THEN <<"maxLength">>
  ELSE <<>>

(* validateRow adds the pattern, which an earlier error does not keep from *)
(* being tried, and which is passed over when it does not compile.         *)
JsPattern(f, text) ==
  IF f.pattern # NULL /\ text # "" /\ JsCompiles(f.pattern) /\ ~JsMatches(f.pattern, text)
  THEN <<"pattern">> ELSE <<>>

TextOf(value) == IF value = NULL THEN "" ELSE value.text

BrowserErrors(f, value) ==
  Errors(f, WasmRule(f, TextOf(value)) \o JsPattern(f, TextOf(value)))

ValidateRow(fields, values) ==
  FlattenSeq([n \in DOMAIN fields |-> BrowserErrors(fields[n], values[fields[n].name])])
=============================================================================
