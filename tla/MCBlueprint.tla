----------------------------- MODULE MCBlueprint ----------------------------
(***************************************************************************)
(* Instances of QueryParse and Blueprint for TLC.  The escape of a comma   *)
(* is written once and twice, so that decoding once and twice differ.      *)
(***************************************************************************)
EXTENDS Blueprint

MCDecode(t) == CASE t = "genre%2Ctags" -> "genre,tags"
                 [] t = "genre%252Ctags" -> "genre%2Ctags"
                 [] t = "%61nd" -> "and" [] OTHER -> t
MCSortSpec(t) == CASE t = "title:desc" -> [field |-> "title", dir |-> "desc"]
                   [] OTHER -> [field |-> t, dir |-> NULL]
MCPieces(t) == IF t = "genre,tags" THEN <<"genre", "tags">> ELSE <<t>>
MCAtol(t) == CASE t = "2" -> 2 [] t = "-1" -> 0 - 1 [] OTHER -> 0

With(name, text) == [name |-> name, override |-> FALSE, text |-> text]
Override(name, text) == [name |-> name, override |-> TRUE, text |-> text]

(* author and genre refer to two sources, tags to the one of genre; the    *)
(* reference of label has no target; "genre,tags" is no field.             *)
MCParams == { With("genre", "rock"), With("genre", "genre%2Ctags"), With("author", "ann"),
              With("tags", "live"), With("label", "x"), With("title", ""), With("genre", NULL),
              Override("genre", "%61nd"), Override("genre", "or"), Override("author", "and"),
              Override("genre", "xor"), Override("genre", NULL),
              With("sort", "title:desc"), With("sort", "genre"), With("sort", ""),
              With("page", "-1"), With("page", "2"), With("per_page", "2"), With("q", "love"),
              With("mode", "x"),
              With("include", "genre%2Ctags"), With("include", "genre%252Ctags"),
              With("include", "author") }

Plain(name) == [name |-> name, reference |-> FALSE, target |-> NULL]
Reference(name, target) == [name |-> name, reference |-> TRUE, target |-> target]

MCSources == << [id |-> "songs",
                 fields |-> << Plain("title"), Reference("genre", "tag.items"),
                               Reference("tags", "tag.items"),
                               Reference("author", "artist.items"),
                               Reference("label", NULL), Plain("genre") >>],
                [id |-> "albums", fields |-> << Plain("title"), Plain("genre") >>] >>
=============================================================================
