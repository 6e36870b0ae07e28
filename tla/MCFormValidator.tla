--------------------------- MODULE MCFormValidator ---------------------------
(***************************************************************************)
(* Instances of FormValidator for TLC: three texts, one of them a number,  *)
(* and forms of one or two fields with each kind of rule.                  *)
(***************************************************************************)
EXTENDS FormValidator

MCLength(t) == CASE t = "ab" -> 2 [] t = "7" -> 1 [] OTHER -> 0
MCIntOf(t) == IF t = "7" THEN 7 ELSE NULL
MCCompiles(p) == p # "("
MCMatches(p, t) == p = "^a" /\ t = "ab"
MCJsMatches(p, t) == (p = "^a" /\ t = "ab") \/ (p = "\\d" /\ t = "7")

MCValues == { [text |-> "", string |-> TRUE], [text |-> "ab", string |-> TRUE],
              [text |-> "7", string |-> TRUE], [text |-> "7", string |-> FALSE] }

Plain(name) == [name |-> name, type |-> "string", required |-> FALSE, min |-> 0,
                max |-> 0, min_length |-> 0, max_length |-> 0, pattern |-> NULL]

Name == [Plain("name") EXCEPT !.required = TRUE, !.min_length = 2, !.pattern = "^a"]
Credits == [Plain("credits") EXCEPT !.type = "int", !.min = 8]
Short == [Plain("credits") EXCEPT !.max_length = 1]
Late == [Plain("credits") EXCEPT !.required = TRUE]

MCSchemas == { <<>>, <<Name, Short>>, <<Name, Credits>>,
               <<[Plain("credits") EXCEPT !.type = "int", !.max = 6, !.min_length = 2]>>,
               <<[Plain("name") EXCEPT !.pattern = "("]>>,
               <<[Plain("name") EXCEPT !.pattern = "\\d"]>> }
MCMoreFields == {Late}
ListenersAlike == Permutations(Listener)
=============================================================================
