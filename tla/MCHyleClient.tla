---------------------------- MODULE MCHyleClient ----------------------------
(***************************************************************************)
(* An instance of HyleClient for TLC: users with a role, a list of tags    *)
(* and an address whose country is a reference.                            *)
(***************************************************************************)
EXTENDS HyleClient

CONSTANTS c1, c2

String == [kind |-> "primitive"]
Ref(m) == [kind |-> "reference", entity |-> m, display_field |-> "name"]
List(type) == [kind |-> "array", item |-> type]
Fld(n, type) == [name |-> n, type |-> type]
Address == [kind |-> "shape", fields |-> <<Fld("city", String), Fld("country", Ref("country"))>>]

User == <<Fld("name", String), Fld("role", Ref("role")), Fld("tags", List(Ref("tag"))),
          Fld("address", Address), Fld("homes", List(Address))>>
Named == <<Fld("name", String)>>
Whole == [user |-> User, role |-> Named, tag |-> Named, country |-> Named]
(* A later blueprint: tags are plain texts, and the address is gone.       *)
Later == [user |-> <<User[1], User[2], Fld("tags", List(String))>>, role |-> Named]
(* A blueprint that refers to a model it does not have.                    *)
Torn == [user |-> User, role |-> Named, tag |-> Named]
MCBlueprints == {Whole, Later, Torn}
MCFieldTypes ==
  {String, Ref("role"), Ref("tag"), Ref("country"), List(String), List(Ref("tag")),
   Address, List(Address)}

One(id, name) == [id |-> Text(id), name |-> Text(name)]
At(city, country) ==
  [kind |-> "map", entries |-> <<[name |-> "city", value |-> Text(city)],
                                 [name |-> "country", value |-> Text(country)]>>]
Items(s) == [kind |-> "array", items |-> s]

Ann == [id |-> Text("u1"), name |-> Text("Ann"), role |-> Text("r1"),
        tags |-> Items(<<Text("t1"), Text("t2")>>),
        address |-> At("Lisbon", "c1"),
        homes |-> Items(<<At("Porto", "c1"), At("Faro", "c2")>>)]
Ben == [id |-> Text("u2"), name |-> Text("Ben"), role |-> Null,
        tags |-> Text("t1"), address |-> Text("unknown")]
Many(rows) == [rows |-> rows, one |-> FALSE]

Full == [user |-> Many(<<Ann, Ben>>), role |-> Many(<<One("r1", "Admin")>>),
         tag |-> Many(<<One("t1", "red"), One("t2", "blue")>>),
         country |-> Many(<<One("c1", "Portugal")>>)]
(* A row without an id, a row without a name, and two rows of one id.      *)
Odd == [user |-> [rows |-> <<Ann>>, one |-> TRUE],
        role |-> Many(<<[name |-> Text("Nobody")], [id |-> Text("r1")]>>),
        tag |-> Many(<<One("t1", "red"), One("t1", "green")>>)]
MCWorlds == {Full, Odd}

(* value_to_display_text, and the values in the rows with their parts.     *)
RECURSIVE MCRawTexts(_)
MCRawTexts(value) ==
  CASE value.kind = "null"  -> <<>>
    [] value.kind = "text"  -> <<value.text>>
    [] value.kind = "array" -> FlattenSeq([i \in DOMAIN value.items |->
                                             MCRawTexts(value.items[i])])
    [] value.kind = "map"   -> FlattenSeq([i \in DOMAIN value.entries |->
                                 <<value.entries[i].name>>
                                   \o MCRawTexts(value.entries[i].value)])

RECURSIVE WithParts(_)
WithParts(values) ==
  LET parts == UNION { IF value.kind = "array" THEN Range(value.items)
                       ELSE IF value.kind = "map"
                       THEN { value.entries[i].value : i \in DOMAIN value.entries }
                       ELSE {} : value \in values }
  IN IF parts = {} THEN values ELSE values \cup WithParts(parts)

RowsOf(w) == UNION { Range(w[m].rows) : m \in DOMAIN w }
MCFieldValues == WithParts({Null} \cup UNION { Range(row) : row \in UNION { RowsOf(w) : w \in MCWorlds } })

Asking(model, select, filters) ==
  [model |-> model, select |-> select, filters |-> filters, method |-> "many"]
UserForma ==
  [fields |-> <<"name", "role", "tags", "address">>, filters |-> << <<"role">> >>,
   contexts |-> [column |-> <<"tags", "email">>, form |-> <<>>]]
Forma(context, id) ==
  [forma |-> UserForma, model |-> "user", context |-> context, id |-> id]

MCAsks == { Asking("user", <<>>, <<>>), Asking("user", <<"role">>, << <<"role", "tags">> >>),
            Asking("user", <<"email">>, <<>>), Asking("team", <<>>, <<>>),
            Forma("column", Null), Forma("form", Text("u1")), Forma("detail", Null) }
=============================================================================
