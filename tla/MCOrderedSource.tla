--------------------------- MODULE MCOrderedSource ---------------------------
(***************************************************************************)
(* Instances of OrderedSource for TLC.                                     *)
(***************************************************************************)
EXTENDS OrderedSource

CONSTANTS p1, title, artist, empty, a, b

OnePart == {p1}
OnePartRows == OnePart \X Positions

OneField == {title}
TwoTexts == {empty, a}
ThreeTexts == {empty, a, b}

(* Items that name every field.                                            *)
WholeOne == [OneField -> {a, b}]
(* An item that names the field, and one that names none.                 *)
AOrNothing == { [f \in {title} |-> a], [f \in {} |-> a] }
(* Items that name one field of the two: what the other field shows tells  *)
(* a fresh row from one that inherits.                                     *)
TwoFields == {title, artist}
OneOfTwo == { [f \in {title} |-> a], [f \in {artist} |-> a] }
==============================================================================
