------------------------------ MODULE ZeroList ------------------------------
(***************************************************************************)
(* Lists indexed from zero, the way the positions of an ordered partition  *)
(* are numbered: a length and the items at 0 .. len - 1.                   *)
(***************************************************************************)
EXTENDS Integers

(* The lists of at most m elements of S.                                   *)
ListsUpTo(m, S) == UNION { [len : {n}, at : [0 .. n - 1 -> S]] : n \in 0 .. m }

EmptyList == [len |-> 0, at |-> [i \in {} |-> i]]

Inserted(l, pos, x) ==
  [len |-> l.len + 1,
   at  |-> [i \in 0 .. l.len |-> IF i < pos THEN l.at[i]
                                 ELSE IF i = pos THEN x
                                 ELSE l.at[i - 1]]]

Removed(l, pos) ==
  [len |-> l.len - 1,
   at  |-> [i \in 0 .. l.len - 2 |-> IF i < pos THEN l.at[i]
                                     ELSE l.at[i + 1]]]

Replaced(l, pos, x) == [len |-> l.len, at |-> [l.at EXCEPT ![pos] = x]]
=============================================================================
