---------------------------- MODULE MCSourceQuery ----------------------------
(***************************************************************************)
(* Instances of SourceQuery for TLC: songs with a title, an author, genres *)
(* stored by position, a length and a mood that is derived.                *)
(***************************************************************************)
EXTENDS SourceQuery, TLC

CONSTANTS r1, r2, r3

RowSymmetry == Permutations({r1, r2, r3})

MCField == {"title", "author", "genre", "length", "mood"}
MCType == [title |-> "text", author |-> "reference", genre |-> "multi_reference",
           length |-> "text", mood |-> "derived"]

Within == { <<"love song", "love">>, <<"glove", "love">>, <<"glove", "lo">>,
            <<"love song", "lo">>, <<"anna", "ann">>, <<"rock music", "rock">> }
MCCiSubstr(v, w) == v = w \/ <<v, w>> \in Within
MCCiSubstrPunct(v, w) == MCCiSubstr(v, w)
MCSameText(v, w) == v = w
MCTokens(v) == CASE v = "0\n1" -> {"0", "1"} [] v = "" -> {} [] OTHER -> {v}
MCPosition(v) == CASE v = "rock" -> "0" [] v = "pop" -> "1" [] OTHER -> v
MCLabel(v) == CASE v = "0" -> "rock music" [] v = "1" -> "pop music" [] OTHER -> NULL
MCFtsHandles(v) == v # "lo"
MCFtsFinds(v, w) == v = w \/ <<v, w>> = <<"love song", "love">>
MCNumber(v) == CASE v = "9" -> 9 [] v = "10" -> 10 [] OTHER -> NULL
TextOrder == <<"", "0", "0\n1", "1", "10", "9", "ann", "anna", "calm", "glove", "love song",
               "sad", "x">>
TextRank(v) == CHOOSE i \in DOMAIN TextOrder : TextOrder[i] = v
MCTextBefore(v, w) == TextRank(v) < TextRank(w)

Song(title, author, genre, length, mood) ==
  [title |-> title, author |-> author, genre |-> genre, length |-> length, mood |-> mood]

MCRows == { Song("love song", "ann", "0", "9", "sad"),
            Song("glove", "anna", "0\n1", "10", NULL),
            Song(NULL, "ann", "1", "", "sad"),
            Song("love song", "", NULL, "x", "calm") }

Filter(f, v) == [field |-> f, value |-> v]
MCFilters == { Filter("title", "love"), Filter("title", "lo"),
               Filter("author", "ann"), Filter("author", "anna"),
               Filter("genre", "rock"), Filter("genre", "pop"),
               Filter("mood", "sad"), Filter("other", "x") }

NoOps == [f \in MCField |-> NULL]
Ops == { NoOps, [NoOps EXCEPT !["genre"] = "and"], [NoOps EXCEPT !["author"] = "and"] }

Query(filters, op, q, sort, asc, per_page) ==
  [filters |-> filters, op |-> op, q |-> q, sort_field |-> sort, sort_asc |-> asc,
   page |-> 1, per_page |-> per_page, failed |-> {}]

FilterQueries ==
  { Query(fs, op, NULL, NULL, TRUE, 0) :
      fs \in UNION { [1 .. n -> MCFilters] : n \in 0 .. 2 }, op \in Ops }
  \cup
  { Query(fs, op, NULL, NULL, TRUE, 0) :
      fs \in [1 .. 3 -> { Filter("genre", "rock"), Filter("genre", "pop"),
                          Filter("author", "ann"), Filter("author", "anna") }],
      op \in { NoOps, [NoOps EXCEPT !["genre"] = "and"] } }

WalkQueries ==
  { Query(w[1], NoOps, w[2], s[1], s[2], per_page) :
      w \in { <<<<>>, NULL>>, <<<<>>, "calm">>, <<<<Filter("genre", "rock")>>, NULL>>,
              <<<<Filter("title", "lo")>>, "rock">> },
      s \in { <<NULL, TRUE>>, <<"length", TRUE>>, <<"length", FALSE>>,
              <<"title", FALSE>> },
      per_page \in {1, 2} }

(* One or two maps of a query do not open.                                 *)
Opens == ({"fts"} \X (1 .. 3)) \cup ({"set", "meet"} \X {"genre", "author"}) \cup {<<"q", 0>>}
MCFaultyQueries ==
  { [Query(fs, NoOps, q, NULL, TRUE, 0) EXCEPT !.failed = {a, b}] :
      fs \in { <<Filter("title", "love"), Filter("genre", "rock"), Filter("genre", "pop")>>,
               <<Filter("genre", "pop"), Filter("author", "ann"), Filter("author", "anna")>>,
               <<Filter("author", "ann"), Filter("author", "x"), Filter("genre", "rock")>> },
      q \in {NULL, "rock"}, a \in Opens, b \in Opens }

MCQueries == FilterQueries \cup WalkQueries
==============================================================================
