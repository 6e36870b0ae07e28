---------------------------- MODULE MCValuePool -----------------------------
(***************************************************************************)
(* Instances of ValuePool for TLC: a text of one quote, one of one control *)
(* character, for which json_escape has not room enough, and a number of   *)
(* two digits.                                                             *)
(***************************************************************************)
EXTENDS ValuePool

MCToken == {"escaped", "array", "map", "end", "quote", "control", "10", "a", "tab"}
MCTexts == { Json(<<"quote">>, 1, 1), [Json(<<"control">>, 1, 0) EXCEPT !.controls = 1] }
MCScalars == { Json(<<"10">>, 2, 0) }
MCFieldNames == << [Json(<<"tab">>, 1, 0) EXCEPT !.breaks = 1],
                   [Json(<<"a", "control">>, 2, 0) EXCEPT !.controls = 1] >>
=============================================================================
