------------------------ MODULE RegistryHandles_proofs ------------------------
(***************************************************************************)
(* No map of the registry is leaked, and each has one owner, for any       *)
(* number of sources, handles and row sets, wherever opening a map fails.  *)
(*                                                                         *)
(* A registration or a query is a sequence of exchanges: one holder gives  *)
(* up a handle and gets a new one.  Two lemmas show that an exchange keeps *)
(* what is to be proved, and each action is then a few exchanges.          *)
(***************************************************************************)
EXTENDS RegistryHandles, TLAPS

(* The handles o that are open and their holders: entries e, temporaries c *)
(* of the query in progress, row sets R.                                   *)
Shape(o, e, c, R) ==
  /\ o \subseteq Handle
  /\ e \in [Source -> [MapNames -> Handle \cup {None}]]
  /\ c \in [Temporaries -> Handle \cup {None}]
  /\ R \subseteq [row_hd : Handle \cup {None}, fields_hd : Handle \cup {None}]

(* Every open handle has a holder.                                         *)
Covered(o, e, c, R) ==
  \A h \in o :
    \/ \E s \in Source, m \in MapNames : e[s][m] = h
    \/ \E t \in Temporaries : c[t] = h
    \/ \E rs \in R : rs.row_hd = h

(* Holders hold open handles, and no two the same.                         *)
Owned(o, e, c, R) ==
  /\ \A s \in Source, m \in MapNames : e[s][m] \in o \cup {None}
  /\ \A t \in Temporaries : c[t] \in o \cup {None}
  /\ \A rs \in R : rs.row_hd \in o \cup {None}
  /\ \A s, t \in Source, m, n \in MapNames :
       e[s][m] = e[t][n] /\ e[s][m] # None => s = t /\ m = n
  /\ \A t, u \in Temporaries : c[t] = c[u] /\ c[t] # None => t = u
  /\ \A rs, rt \in R : rs.row_hd = rt.row_hd /\ rs.row_hd # None => rs = rt
  /\ \A s \in Source, m \in MapNames, t \in Temporaries :
       e[s][m] = c[t] => e[s][m] = None
  /\ \A s \in Source, m \in MapNames, rs \in R :
       e[s][m] = rs.row_hd => e[s][m] = None
  /\ \A t \in Temporaries, rs \in R : c[t] = rs.row_hd => c[t] = None

(* Which temporaries a query has not come to yet.                          *)
StagesInv ==
  /\ call.stage = "idle" => call.tmp = NoTemporaries
  /\ call.stage # "idle" => call.source \in Source
  /\ call.stage \in {"fts", "multi_ref", "q"} => call.tmp["q_hd"] = None
  /\ call.stage \in {"fts", "multi_ref", "q", "filter"} =>
       call.tmp["filtered_hd"] = None
  /\ call.stage \in {"fts", "multi_ref", "q", "filter", "sort"} =>
       call.tmp["sorted_hd"] = None

HandlesInv ==
  /\ TypeOK
  /\ StagesInv
  /\ Covered(open, entry, call.tmp, results)
  /\ ~stale => Owned(open, entry, call.tmp, results)

-----------------------------------------------------------------------------
(* 0 is no handle.                                                         *)
LEMMA NoneIsNoHandle == None \notin Handle
BY DEF None, Handle

(* What corm_open returns is 0 or a handle that is not open.               *)
LEMMA OpenedIsFresh ==
  ASSUME NEW o \in SUBSET Handle, NEW h \in Opens(o)
  PROVE  h \in Handle \cup {None} /\ h \notin o
<1>1. CASE h = None
  BY <1>1, NoneIsNoHandle
<1>2. CASE h # None
  <2>1. o # Handle /\ h = Fresh(o)
    BY <1>2 DEF Opens
  <2> QED BY <2>1, RegistryHandlesAssumption
<1> QED BY <1>1, <1>2

(* An entry closes a map and puts a fresh one, or 0, in its place.         *)
LEMMA EntryExchange ==
  ASSUME NEW o, NEW e, NEW c, NEW R, Shape(o, e, c, R),
         NEW s \in Source, NEW m \in MapNames,
         NEW h \in Handle \cup {None}, h \notin o \ {e[s][m]}
  PROVE  LET o2 == With(o \ {e[s][m]}, h)
             e2 == [e EXCEPT ![s][m] = h]
         IN /\ Shape(o2, e2, c, R)
            /\ Covered(o, e, c, R) => Covered(o2, e2, c, R)
            /\ Owned(o, e, c, R) => Owned(o2, e2, c, R)
<1> DEFINE o2 == With(o \ {e[s][m]}, h)
           e2 == [e EXCEPT ![s][m] = h]
<1>1. h = None \/ (h \in Handle /\ h \notin o \ {e[s][m]})
  BY DEF Shape
<1>2. o2 = ((o \ {e[s][m]}) \cup {h}) \ {None}
  BY DEF With
<1>3. /\ e2 \in [Source -> [MapNames -> Handle \cup {None}]]
      /\ e2[s][m] = h
      /\ \A t \in Source, n \in MapNames : <<t, n>> # <<s, m>> => e2[t][n] = e[t][n]
  BY <1>1 DEF Shape
<1>4. Shape(o2, e2, c, R)
  BY <1>1, <1>2, <1>3 DEF Shape
<1>5. ASSUME Covered(o, e, c, R)
      PROVE  Covered(o2, e2, c, R)
  <2> SUFFICES ASSUME NEW x \in o2
               PROVE  \/ \E t \in Source, n \in MapNames : e2[t][n] = x
                      \/ \E t \in Temporaries : c[t] = x
                      \/ \E rs \in R : rs.row_hd = x
    BY DEF Covered
  <2>1. CASE x = h
    BY <2>1, <1>3
  <2>2. CASE x # h
    <3>1. x \in o /\ x # e[s][m]
      BY <2>2, <1>2
    <3>2. \/ \E t \in Source, n \in MapNames : e[t][n] = x
          \/ \E t \in Temporaries : c[t] = x
          \/ \E rs \in R : rs.row_hd = x
      BY <3>1, <1>5 DEF Covered
    <3>3. ASSUME NEW t \in Source, NEW n \in MapNames, e[t][n] = x
          PROVE  e2[t][n] = x
      BY <3>1, <3>3, <1>3
    <3> QED BY <3>2, <3>3
  <2> QED BY <2>1, <2>2
<1>6. ASSUME Owned(o, e, c, R)
      PROVE  Owned(o2, e2, c, R)
  <2> USE DEF Owned
  <2>1. ASSUME NEW t \in Source, NEW n \in MapNames, <<t, n>> # <<s, m>>
        PROVE  e2[t][n] = e[t][n] /\ (e[t][n] = None \/ (e[t][n] \in o2 /\ e[t][n] # h))
    <3>1. e2[t][n] = e[t][n]
      BY <2>1, <1>3
    <3>2. e[t][n] # None => e[t][n] \in o \ {e[s][m]}
      BY <2>1, <1>6
    <3> QED BY <3>1, <3>2, <1>1, <1>2
  <2>2. ASSUME NEW t \in Temporaries
        PROVE  c[t] = None \/ (c[t] \in o2 /\ c[t] # h)
    <3>1. c[t] # None => c[t] \in o \ {e[s][m]}
      BY <1>6
    <3> QED BY <3>1, <1>1, <1>2
  <2>3. ASSUME NEW rs \in R
        PROVE  rs.row_hd = None \/ (rs.row_hd \in o2 /\ rs.row_hd # h)
    <3>1. rs.row_hd # None => rs.row_hd \in o \ {e[s][m]}
      BY <1>6
    <3> QED BY <3>1, <1>1, <1>2
  <2>4. h = None \/ h \in o2
    BY <1>2
  <2>5. \A t \in Source, n \in MapNames : e2[t][n] \in o2 \cup {None}
    BY <2>1, <2>4, <1>3
  <2>6. ASSUME NEW t \in Source, NEW u \in Source, NEW n \in MapNames, NEW k \in MapNames,
               e2[t][n] = e2[u][k], e2[t][n] # None
        PROVE  t = u /\ n = k
    <3>1. CASE <<t, n>> = <<s, m>> /\ <<u, k>> = <<s, m>>
      BY <3>1
    <3>2. CASE <<t, n>> = <<s, m>> /\ <<u, k>> # <<s, m>>
      BY <3>2, <2>6, <2>1, <1>3
    <3>3. CASE <<t, n>> # <<s, m>> /\ <<u, k>> = <<s, m>>
      BY <3>3, <2>6, <2>1, <1>3
    <3>4. CASE <<t, n>> # <<s, m>> /\ <<u, k>> # <<s, m>>
      BY <3>4, <2>6, <2>1, <1>6
    <3> QED BY <3>1, <3>2, <3>3, <3>4
  <2>7. ASSUME NEW t \in Source, NEW n \in MapNames
        PROVE  /\ \A u \in Temporaries : e2[t][n] = c[u] => e2[t][n] = None
               /\ \A rs \in R : e2[t][n] = rs.row_hd => e2[t][n] = None
    <3>1. CASE <<t, n>> = <<s, m>>
      BY <3>1, <2>2, <2>3, <1>3
    <3>2. CASE <<t, n>> # <<s, m>>
      BY <3>2, <2>1, <1>6
    <3> QED BY <3>1, <3>2
  <2>8. /\ \A t \in Temporaries : c[t] \in o2 \cup {None}
        /\ \A rs \in R : rs.row_hd \in o2 \cup {None}
    BY <2>2, <2>3
  <2>9. /\ \A t, u \in Temporaries : c[t] = c[u] /\ c[t] # None => t = u
        /\ \A rs, rt \in R : rs.row_hd = rt.row_hd /\ rs.row_hd # None => rs = rt
        /\ \A t \in Temporaries, rs \in R : c[t] = rs.row_hd => c[t] = None
    BY <1>6
  <2> HIDE DEF e2, o2
  <2> QED BY <2>5, <2>6, <2>7, <2>8, <2>9
<1> QED BY <1>4, <1>5, <1>6

(* A query puts a map h, or 0, in the place of the one of a temporary t.   *)
LEMMA TemporaryExchange ==
  ASSUME NEW o, NEW e, NEW c, NEW R, Shape(o, e, c, R),
         NEW t \in Temporaries, NEW h \in Handle \cup {None},
         NEW o2 \in SUBSET Handle
  PROVE  LET c2 == [c EXCEPT ![t] = h]
         IN /\ Shape(o2, e, c2, R)
            /\ Covered(o, e, c, R) /\ o2 \subseteq (o \ {c[t]}) \cup {h}
                 => Covered(o2, e, c2, R)
            /\ Owned(o, e, c, R) /\ h \notin o
                 /\ o2 = ((o \ {c[t]}) \cup {h}) \ {None}
                 => Owned(o2, e, c2, R)
<1> DEFINE c2 == [c EXCEPT ![t] = h]
<1>1. /\ c2 \in [Temporaries -> Handle \cup {None}]
      /\ c2[t] = h
      /\ \A u \in Temporaries : u # t => c2[u] = c[u]
  BY DEF Shape
<1>2. Shape(o2, e, c2, R)
  BY <1>1 DEF Shape
<1>3. ASSUME Covered(o, e, c, R), o2 \subseteq (o \ {c[t]}) \cup {h}
      PROVE  Covered(o2, e, c2, R)
  <2> SUFFICES ASSUME NEW x \in o2
               PROVE  \/ \E s \in Source, m \in MapNames : e[s][m] = x
                      \/ \E u \in Temporaries : c2[u] = x
                      \/ \E rs \in R : rs.row_hd = x
    BY DEF Covered
  <2>1. CASE x = h
    BY <2>1, <1>1
  <2>2. CASE x # h
    <3>1. x \in o /\ x # c[t]
      BY <2>2, <1>3
    <3>2. \/ \E s \in Source, m \in MapNames : e[s][m] = x
          \/ \E u \in Temporaries : c[u] = x
          \/ \E rs \in R : rs.row_hd = x
      BY <3>1, <1>3 DEF Covered
    <3>3. ASSUME NEW u \in Temporaries, c[u] = x
          PROVE  c2[u] = x
      BY <3>1, <3>3, <1>1
    <3> QED BY <3>2, <3>3
  <2> QED BY <2>1, <2>2
<1>4. ASSUME Owned(o, e, c, R), h \notin o, o2 = ((o \ {c[t]}) \cup {h}) \ {None}
      PROVE  Owned(o2, e, c2, R)
  <2> USE DEF Owned
  <2>1. ASSUME NEW u \in Temporaries, u # t
        PROVE  c2[u] = c[u] /\ (c[u] = None \/ (c[u] \in o2 /\ c[u] # h))
    <3>1. c2[u] = c[u]
      BY <2>1, <1>1
    <3>2. c[u] # None => c[u] \in o /\ c[u] # c[t]
      BY <2>1, <1>4
    <3> QED BY <3>1, <3>2, <1>4
  <2>2. ASSUME NEW s \in Source, NEW m \in MapNames
        PROVE  e[s][m] = None \/ (e[s][m] \in o2 /\ e[s][m] # h)
    <3>1. e[s][m] # None => e[s][m] \in o /\ e[s][m] # c[t]
      BY <1>4
    <3> QED BY <3>1, <1>4
  <2>3. ASSUME NEW rs \in R
        PROVE  rs.row_hd = None \/ (rs.row_hd \in o2 /\ rs.row_hd # h)
    <3>1. rs.row_hd # None => rs.row_hd \in o /\ rs.row_hd # c[t]
      BY <1>4
    <3> QED BY <3>1, <1>4
  <2>4. h = None \/ h \in o2
    BY <1>4
  <2>5. \A u \in Temporaries : c2[u] \in o2 \cup {None}
    BY <2>1, <2>4, <1>1
  <2>6. ASSUME NEW u \in Temporaries, NEW v \in Temporaries, c2[u] = c2[v], c2[u] # None
        PROVE  u = v
    <3>1. CASE u = t /\ v # t
      BY <3>1, <2>6, <2>1, <1>1
    <3>2. CASE u # t /\ v = t
      BY <3>2, <2>6, <2>1, <1>1
    <3>3. CASE u # t /\ v # t
      BY <3>3, <2>6, <2>1, <1>4
    <3> QED BY <3>1, <3>2, <3>3
  <2>7. ASSUME NEW u \in Temporaries
        PROVE  /\ \A s \in Source, m \in MapNames : e[s][m] = c2[u] => e[s][m] = None
               /\ \A rs \in R : c2[u] = rs.row_hd => c2[u] = None
    <3>1. CASE u = t
      BY <3>1, <2>2, <2>3, <1>1
    <3>2. CASE u # t
      BY <3>2, <2>1, <1>4
    <3> QED BY <3>1, <3>2
  <2>8. /\ \A s \in Source, m \in MapNames : e[s][m] \in o2 \cup {None}
        /\ \A rs \in R : rs.row_hd \in o2 \cup {None}
    BY <2>2, <2>3
  <2>9. /\ \A s, u \in Source, m, n \in MapNames :
             e[s][m] = e[u][n] /\ e[s][m] # None => s = u /\ m = n
        /\ \A rs, rt \in R : rs.row_hd = rt.row_hd /\ rs.row_hd # None => rs = rt
        /\ \A s \in Source, m \in MapNames, rs \in R :
             e[s][m] = rs.row_hd => e[s][m] = None
    BY <1>4
  <2> HIDE DEF c2
  <2> QED BY <2>5, <2>6, <2>7, <2>8, <2>9
<1> QED BY <1>2, <1>3, <1>4

-----------------------------------------------------------------------------
(* The invariant, said of the maps and their holders.                      *)
LEMMA InvParts ==
  ASSUME HandlesInv
  PROVE  /\ Shape(open, entry, call.tmp, results)
         /\ Covered(open, entry, call.tmp, results)
         /\ ~stale => Owned(open, entry, call.tmp, results)
         /\ open \in SUBSET Handle
BY DEF HandlesInv, TypeOK, Shape

(* A new program has no maps.                                              *)
LEMMA HandlesInit == Init => HandlesInv
<1> SUFFICES ASSUME Init PROVE HandlesInv
  OBVIOUS
<1>1. TypeOK /\ StagesInv
  BY DEF Init, TypeOK, StagesInv, Idle, NoTemporaries, Stages, Temporaries
<1>2. Covered(open, entry, call.tmp, results)
  BY DEF Init, Covered
<1>3. Owned(open, entry, call.tmp, results)
  BY DEF Init, Owned, Idle, NoTemporaries
<1> QED BY <1>1, <1>2, <1>3 DEF HandlesInv

(* Three exchanges: the maps that every registration replaces.             *)
LEMMA MapsExchange ==
  ASSUME HandlesInv, NEW s \in Source,
         NEW row \in Opens(RowsClosed(s)),
         NEW fields \in Opens(FieldsClosed(s, row)),
         NEW tokens \in Opens(TokensClosed(s, row, fields))
  PROVE  LET o2 == With(TokensClosed(s, row, fields), tokens)
             e2 == [entry EXCEPT ![s] = WithMaps(s, row, fields, tokens)]
         IN /\ Shape(o2, e2, call.tmp, results)
            /\ Covered(o2, e2, call.tmp, results)
            /\ ~stale => Owned(o2, e2, call.tmp, results)
<1> DEFINE oA == With(open \ {entry[s]["row_hd"]}, row)
           eA == [entry EXCEPT ![s]["row_hd"] = row]
           oB == With(oA \ {eA[s]["fields_hd"]}, fields)
           eB == [eA EXCEPT ![s]["fields_hd"] = fields]
           oC == With(oB \ {eB[s]["tokens_hd"]}, tokens)
           eC == [eB EXCEPT ![s]["tokens_hd"] = tokens]
<1> USE DEF MapNames
<1>1. /\ Shape(open, entry, call.tmp, results)
      /\ Covered(open, entry, call.tmp, results)
      /\ ~stale => Owned(open, entry, call.tmp, results)
  BY InvParts
<1>2. row \in Opens(open \ {entry[s]["row_hd"]})
  BY DEF RowsClosed
<1> /\ row \in Handle \cup {None}
    /\ row \notin open \ {entry[s]["row_hd"]}
  BY <1>1, <1>2, OpenedIsFresh DEF Shape
<1>3. /\ Shape(oA, eA, call.tmp, results)
      /\ Covered(oA, eA, call.tmp, results)
      /\ ~stale => Owned(oA, eA, call.tmp, results)
  BY <1>1, <1>2, EntryExchange
<1>4. eA[s]["fields_hd"] = entry[s]["fields_hd"]
  BY <1>1 DEF Shape
<1>5. fields \in Opens(oA \ {eA[s]["fields_hd"]})
  BY <1>4 DEF FieldsClosed, RowsClosed
<1> HIDE DEF oA, eA
<1> /\ fields \in Handle \cup {None}
    /\ fields \notin oA \ {eA[s]["fields_hd"]}
  BY <1>3, <1>5, OpenedIsFresh DEF Shape
<1>6. /\ Shape(oB, eB, call.tmp, results)
      /\ Covered(oB, eB, call.tmp, results)
      /\ ~stale => Owned(oB, eB, call.tmp, results)
  BY <1>3, <1>5, EntryExchange
<1>7. eB[s]["tokens_hd"] = entry[s]["tokens_hd"]
  BY <1>1, <1>3 DEF Shape, eA
<1>8. oB \ {eB[s]["tokens_hd"]} = TokensClosed(s, row, fields)
  BY <1>4, <1>7 DEF TokensClosed, FieldsClosed, RowsClosed, oA
<1> HIDE DEF oB, eB
<1> /\ tokens \in Handle \cup {None}
    /\ tokens \notin oB \ {eB[s]["tokens_hd"]}
  BY <1>6, <1>8, OpenedIsFresh DEF Shape
<1>9. /\ Shape(oC, eC, call.tmp, results)
      /\ Covered(oC, eC, call.tmp, results)
      /\ ~stale => Owned(oC, eC, call.tmp, results)
  BY <1>6, <1>8, EntryExchange
<1>10. oC = With(TokensClosed(s, row, fields), tokens)
  BY <1>8
<1>11. eC = [entry EXCEPT ![s] = WithMaps(s, row, fields, tokens)]
  BY <1>1, <1>3, <1>6 DEF Shape, eA, eB, WithMaps
<1> HIDE DEF oC, eC
<1> QED BY <1>9, <1>10, <1>11

(* A step that leaves the query alone keeps what is said of its stages.    *)
LEMMA EntryStep ==
  ASSUME HandlesInv, UNCHANGED <<call, results>>,
         registered' \subseteq Source, stale' \in BOOLEAN,
         Shape(open', entry', call.tmp, results),
         Covered(open', entry', call.tmp, results),
         ~stale' => Owned(open', entry', call.tmp, results)
  PROVE  HandlesInv'
<1>1. TypeOK' /\ StagesInv'
  BY DEF HandlesInv, TypeOK, StagesInv, Shape
<1> QED BY <1>1 DEF HandlesInv, Covered, Owned

(* Registrations.                                                          *)
LEMMA RegisterStep ==
  ASSUME HandlesInv, NEW s \in Source,
         RegisterRowsFail(s) \/ RegisterFieldsFail(s) \/ Register(s)
  PROVE  HandlesInv'
<1>1. /\ Shape(open, entry, call.tmp, results)
      /\ Covered(open, entry, call.tmp, results)
      /\ ~stale => Owned(open, entry, call.tmp, results)
  BY InvParts
<1>2. /\ registered' \subseteq Source /\ stale' \in BOOLEAN
      /\ UNCHANGED <<call, results>>
  BY DEF HandlesInv, TypeOK, RegisterRowsFail, RegisterFieldsFail, Register
<1> DEFINE o2 == With(open \ {entry[s]["row_hd"]}, None)
           e2 == [entry EXCEPT ![s]["row_hd"] = None]
<1>3. /\ Shape(o2, e2, call.tmp, results)
      /\ Covered(o2, e2, call.tmp, results)
      /\ ~stale => Owned(o2, e2, call.tmp, results)
  <2>1. None \notin open
    BY <1>1, NoneIsNoHandle DEF Shape
  <2>2. "row_hd" \in MapNames
    BY DEF MapNames
  <2> QED BY <1>1, <2>1, <2>2, EntryExchange
<1>4. o2 = RowsClosed(s)
  BY <1>1, NoneIsNoHandle DEF With, RowsClosed, Shape
<1>5. CASE RegisterRowsFail(s)
  <2>1. open' = o2 /\ entry' = e2 /\ stale' = stale
    BY <1>4, <1>5 DEF RegisterRowsFail
  <2> QED BY <1>2, <1>3, <2>1, EntryStep
<1>6. CASE RegisterFieldsFail(s)
  <2>1. PICK row \in Opens(RowsClosed(s)) \ {None} :
               open' = FieldsClosed(s, row) \ {row}
    BY <1>6 DEF RegisterFieldsFail
  <2>2. row \notin RowsClosed(s)
    BY <2>1, <1>1, OpenedIsFresh DEF RowsClosed, Shape
  <2>3. /\ entry' = e2
        /\ stale' = (stale \/ entry[s]["fields_hd"] # None)
    BY <1>6 DEF RegisterFieldsFail
  <2>4. open' \subseteq o2
    BY <2>1, <1>4 DEF FieldsClosed, With
  <2>5. Shape(open', e2, call.tmp, results) /\ Covered(open', e2, call.tmp, results)
    BY <2>4, <1>3 DEF Shape, Covered
  <2>6. ~stale' => open' = o2 /\ ~stale
    BY <2>1, <2>2, <2>3, <1>4 DEF FieldsClosed, With
  <2> QED BY <1>2, <1>3, <2>3, <2>5, <2>6, EntryStep
<1>7. CASE Register(s)
  <2>1. PICK row \in Opens(RowsClosed(s)) \ {None} :
        \E fields \in Opens(FieldsClosed(s, row)) \ {None} :
        \E tokens \in Opens(TokensClosed(s, row, fields)) :
          /\ open' = With(TokensClosed(s, row, fields), tokens)
          /\ entry' = [entry EXCEPT ![s] = WithMaps(s, row, fields, tokens)]
    BY <1>7 DEF Register
  <2>2. PICK fields \in Opens(FieldsClosed(s, row)) \ {None} :
        \E tokens \in Opens(TokensClosed(s, row, fields)) :
          /\ open' = With(TokensClosed(s, row, fields), tokens)
          /\ entry' = [entry EXCEPT ![s] = WithMaps(s, row, fields, tokens)]
    BY <2>1
  <2>3. PICK tokens \in Opens(TokensClosed(s, row, fields)) :
          /\ open' = With(TokensClosed(s, row, fields), tokens)
          /\ entry' = [entry EXCEPT ![s] = WithMaps(s, row, fields, tokens)]
    BY <2>2
  <2>4. /\ Shape(open', entry', call.tmp, results)
        /\ Covered(open', entry', call.tmp, results)
        /\ ~stale => Owned(open', entry', call.tmp, results)
    BY <2>3, MapsExchange
  <2>5. stale' = stale
    BY <1>7 DEF Register
  <2> QED BY <1>2, <2>4, <2>5, EntryStep
<1> QED BY <1>5, <1>6, <1>7

(* An ordered registration goes on with the two maps of the order: both    *)
(* are closed, then both are opened.                                       *)
LEMMA OrderedRegisterStep ==
  ASSUME HandlesInv, NEW s \in Source, OrderedRegister(s)
  PROVE  HandlesInv'
<1>1. PICK row \in Opens(RowsClosed(s)) \ {None} :
      \E fields \in Opens(FieldsClosed(s, row)) \ {None} :
      \E tokens \in Opens(TokensClosed(s, row, fields)) :
        LET o == OrderClosed(s, With(TokensClosed(s, row, fields), tokens))
        IN \E order \in Opens(o) : \E ld \in Opens(With(o, order)) :
             /\ open' = With(With(o, order), ld)
             /\ entry' = [entry EXCEPT ![s] =
                            [WithMaps(s, row, fields, tokens) EXCEPT
                               !["order_hd"] = order, !["loaded_hd"] = ld]]
  BY DEF OrderedRegister
<1>2. PICK fields \in Opens(FieldsClosed(s, row)) \ {None} :
      \E tokens \in Opens(TokensClosed(s, row, fields)) :
        LET o == OrderClosed(s, With(TokensClosed(s, row, fields), tokens))
        IN \E order \in Opens(o) : \E ld \in Opens(With(o, order)) :
             /\ open' = With(With(o, order), ld)
             /\ entry' = [entry EXCEPT ![s] =
                            [WithMaps(s, row, fields, tokens) EXCEPT
                               !["order_hd"] = order, !["loaded_hd"] = ld]]
  BY <1>1
<1>3. PICK tokens \in Opens(TokensClosed(s, row, fields)) :
        LET o == OrderClosed(s, With(TokensClosed(s, row, fields), tokens))
        IN \E order \in Opens(o) : \E ld \in Opens(With(o, order)) :
             /\ open' = With(With(o, order), ld)
             /\ entry' = [entry EXCEPT ![s] =
                            [WithMaps(s, row, fields, tokens) EXCEPT
                               !["order_hd"] = order, !["loaded_hd"] = ld]]
  BY <1>2
<1> DEFINE oT == With(TokensClosed(s, row, fields), tokens)
           eT == [entry EXCEPT ![s] = WithMaps(s, row, fields, tokens)]
           oO == OrderClosed(s, oT)
<1>4. PICK order \in Opens(oO) : \E ld \in Opens(With(oO, order)) :
        /\ open' = With(With(oO, order), ld)
        /\ entry' = [entry EXCEPT ![s] =
                       [WithMaps(s, row, fields, tokens) EXCEPT
                          !["order_hd"] = order, !["loaded_hd"] = ld]]
  BY <1>3
<1>5. PICK ld \in Opens(With(oO, order)) :
        /\ open' = With(With(oO, order), ld)
        /\ entry' = [entry EXCEPT ![s] =
                       [WithMaps(s, row, fields, tokens) EXCEPT
                          !["order_hd"] = order, !["loaded_hd"] = ld]]
  BY <1>4
<1>6. /\ Shape(oT, eT, call.tmp, results)
      /\ Covered(oT, eT, call.tmp, results)
      /\ ~stale => Owned(oT, eT, call.tmp, results)
  BY MapsExchange
<1>7. /\ eT[s]["order_hd"] = entry[s]["order_hd"]
      /\ eT[s]["loaded_hd"] = entry[s]["loaded_hd"]
  BY InvParts DEF Shape, WithMaps, MapNames
<1> DEFINE oA == With(oT \ {eT[s]["order_hd"]}, None)
           eA == [eT EXCEPT ![s]["order_hd"] = None]
           oB == With(oA \ {eA[s]["loaded_hd"]}, None)
           eB == [eA EXCEPT ![s]["loaded_hd"] = None]
           oC == With(oB \ {eB[s]["order_hd"]}, order)
           eC == [eB EXCEPT ![s]["order_hd"] = order]
           oD == With(oC \ {eC[s]["loaded_hd"]}, ld)
           eD == [eC EXCEPT ![s]["loaded_hd"] = ld]
<1> USE DEF MapNames
<1> HIDE DEF oT, eT
<1>8. /\ Shape(oA, eA, call.tmp, results)
      /\ Covered(oA, eA, call.tmp, results)
      /\ ~stale => Owned(oA, eA, call.tmp, results)
  <2>1. None \notin oT
    BY <1>6, NoneIsNoHandle DEF Shape
  <2> QED BY <1>6, <2>1, EntryExchange
<1>9. eA[s]["loaded_hd"] = entry[s]["loaded_hd"]
  BY <1>6, <1>7 DEF Shape
<1> HIDE DEF oA, eA
<1>10. /\ Shape(oB, eB, call.tmp, results)
       /\ Covered(oB, eB, call.tmp, results)
       /\ ~stale => Owned(oB, eB, call.tmp, results)
  <2>1. None \notin oA
    BY <1>8, NoneIsNoHandle DEF Shape
  <2> QED BY <1>8, <2>1, EntryExchange
<1>11. eB[s]["order_hd"] = None /\ eB[s]["loaded_hd"] = None
  BY <1>6, <1>8 DEF Shape, eA
<1>12. oB = oO
  <2>1. oB = (oT \ {entry[s]["order_hd"], entry[s]["loaded_hd"]}) \ {None}
    BY <1>7, <1>9 DEF oA, With
  <2>2. None \notin oT
    BY <1>6, NoneIsNoHandle DEF Shape
  <2> QED BY <2>1, <2>2 DEF OrderClosed
<1> HIDE DEF oB, eB, oO
<1>13. oO \ {None} = oO /\ oO \in SUBSET Handle
  BY <1>10, <1>12, NoneIsNoHandle DEF Shape
<1>14. order \in Handle \cup {None} /\ order \notin oO
  BY <1>13, OpenedIsFresh
<1>15. /\ Shape(oC, eC, call.tmp, results)
       /\ Covered(oC, eC, call.tmp, results)
       /\ ~stale => Owned(oC, eC, call.tmp, results)
  BY <1>10, <1>11, <1>12, <1>13, <1>14, EntryExchange
<1>16. oC = With(oO, order)
  BY <1>11, <1>12, <1>13
<1>17. eC[s]["loaded_hd"] = None
  BY <1>10, <1>11 DEF Shape
<1> HIDE DEF oC, eC
<1>18. oC \ {None} = oC /\ oC \in SUBSET Handle
  BY <1>15, NoneIsNoHandle DEF Shape
<1>19. ld \in Handle \cup {None} /\ ld \notin oC
  BY <1>16, <1>18, OpenedIsFresh
<1>20. /\ Shape(oD, eD, call.tmp, results)
       /\ Covered(oD, eD, call.tmp, results)
       /\ ~stale => Owned(oD, eD, call.tmp, results)
  BY <1>15, <1>17, <1>18, <1>19, EntryExchange
<1>21. open' = oD
  BY <1>5, <1>16, <1>17, <1>18
<1>22. entry' = eD
  <2>1. eD = [entry EXCEPT ![s] = [WithMaps(s, row, fields, tokens) EXCEPT
                                     !["order_hd"] = order, !["loaded_hd"] = ld]]
    <3>1. eT \in [Source -> [MapNames -> Handle \cup {None}]]
      BY <1>6 DEF Shape
    <3>2. eB = [eT EXCEPT ![s] = [eT[s] EXCEPT !["order_hd"] = None, !["loaded_hd"] = None]]
      BY <3>1 DEF eA, eB
    <3>3. eC = [eT EXCEPT ![s] = [eT[s] EXCEPT !["order_hd"] = order, !["loaded_hd"] = None]]
      BY <3>1, <3>2 DEF eC
    <3>4. eD = [eT EXCEPT ![s] = [eT[s] EXCEPT !["order_hd"] = order, !["loaded_hd"] = ld]]
      BY <3>1, <3>3
    <3>5. eT[s] = WithMaps(s, row, fields, tokens)
      BY InvParts DEF Shape, eT
    <3>6. [eT EXCEPT ![s] = [eT[s] EXCEPT !["order_hd"] = order, !["loaded_hd"] = ld]]
            = [entry EXCEPT ![s] = [eT[s] EXCEPT !["order_hd"] = order, !["loaded_hd"] = ld]]
      BY InvParts DEF Shape, eT
    <3> QED BY <3>4, <3>5, <3>6
  <2> QED BY <1>5, <2>1
<1> HIDE DEF oD, eD
<1>23. /\ registered' \subseteq Source /\ stale' = stale /\ stale \in BOOLEAN
       /\ UNCHANGED <<call, results>>
  BY DEF HandlesInv, TypeOK, OrderedRegister
<1> QED BY <1>20, <1>21, <1>22, <1>23, EntryStep

-----------------------------------------------------------------------------
(* Queries.  A step that leaves the maps and their holders alone.          *)
LEMMA StageStep ==
  ASSUME HandlesInv,
         (\E s \in Source : QueryStart(s)) \/ NextStage
  PROVE  HandlesInv'
<1>1. UNCHANGED <<registered, entry, open, results, stale>>
  BY DEF QueryStart, NextStage
<1>2. CASE \E s \in Source : QueryStart(s)
  <2>1. PICK s \in Source : QueryStart(s)
    BY <1>2
  <2>2. call' = [stage |-> "fts", source |-> s, tmp |-> NoTemporaries]
        /\ call.tmp = NoTemporaries
    BY <2>1 DEF QueryStart, HandlesInv, StagesInv
  <2>3. TypeOK' /\ StagesInv'
    BY <1>1, <2>2 DEF HandlesInv, TypeOK, StagesInv, Stages, NoTemporaries, Temporaries
  <2>4. call'.tmp = call.tmp
    BY <2>2
  <2> QED BY <1>1, <2>3, <2>4 DEF HandlesInv, Covered, Owned
<1>3. CASE NextStage
  <2>1. /\ call.stage \in {"fts", "multi_ref", "q", "filter", "sort"}
        /\ call'.stage \in {"multi_ref", "q", "filter", "sort", "page"}
        /\ call' = [call EXCEPT !.stage = call'.stage]
        /\ call.stage = "fts" => call'.stage = "multi_ref"
        /\ call.stage = "multi_ref" => call'.stage = "q"
        /\ call.stage = "q" => call'.stage = "filter"
        /\ call.stage = "filter" => call'.stage = "sort"
        /\ call.stage = "sort" => call'.stage = "page"
    BY <1>3 DEF NextStage, StageAfter, HandlesInv, TypeOK
  <2>2. call'.tmp = call.tmp /\ call'.source = call.source
    BY <2>1 DEF HandlesInv, TypeOK
  <2>3. TypeOK'
    BY <1>1, <2>1, <2>2 DEF HandlesInv, TypeOK, Stages
  <2>4. StagesInv'
    BY <2>1, <2>2 DEF HandlesInv, StagesInv
  <2> QED BY <1>1, <2>2, <2>3, <2>4 DEF HandlesInv, Covered, Owned
<1> QED BY <1>2, <1>3

(* A step that puts another handle in the place of one temporary, which    *)
(* the stages allow.                                                       *)
LEMMA TemporaryStep ==
  ASSUME HandlesInv, UNCHANGED <<registered, entry, results, stale>>,
         NEW t \in Temporaries, NEW h \in Handle \cup {None},
         NEW stage \in Stages \ {"idle"},
         call.stage # "idle",
         call' = [call EXCEPT !.stage = stage, !.tmp[t] = h],
         \/ t \in {"fts_hd", "pre_hd"} /\ stage = call.stage
         \/ t = "q_hd" /\ stage = "filter" /\ call.stage = "q"
         \/ t = "filtered_hd" /\ stage = "sort" /\ call.stage = "filter"
         \/ t = "sorted_hd" /\ stage = "page" /\ call.stage = "sort",
         open' \subseteq Handle,
         open' \subseteq (open \ {call.tmp[t]}) \cup {h},
         ~stale => h \notin open /\ open' = ((open \ {call.tmp[t]}) \cup {h}) \ {None}
  PROVE  HandlesInv'
<1>1. /\ Shape(open, entry, call.tmp, results)
      /\ Covered(open, entry, call.tmp, results)
      /\ ~stale => Owned(open, entry, call.tmp, results)
  BY InvParts
<1>2. /\ call' = [call EXCEPT !.stage = stage, !.tmp = [call.tmp EXCEPT ![t] = h]]
      /\ call'.stage = stage
      /\ call'.source = call.source
      /\ call'.tmp = [call.tmp EXCEPT ![t] = h]
  BY DEF HandlesInv, TypeOK
<1>3. /\ Shape(open', entry, call'.tmp, results)
      /\ Covered(open', entry, call'.tmp, results)
      /\ ~stale => Owned(open', entry, call'.tmp, results)
  BY <1>1, <1>2, TemporaryExchange
<1>4. TypeOK'
  BY <1>2, <1>3 DEF HandlesInv, TypeOK, Shape
<1>5. StagesInv'
  BY <1>1, <1>2 DEF HandlesInv, StagesInv, Shape
<1> QED BY <1>3, <1>4, <1>5 DEF HandlesInv, Covered, Owned

(* A filter narrows the candidates of its stage.                           *)
LEMMA NarrowStep ==
  ASSUME HandlesInv, FtsFilter \/ MultiRefField
  PROVE  HandlesInv'
<1>1. /\ Shape(open, entry, call.tmp, results)
      /\ open \in SUBSET Handle /\ None \notin open
      /\ ~stale => Owned(open, entry, call.tmp, results)
  BY InvParts, NoneIsNoHandle
<1>2. /\ UNCHANGED <<registered, entry, results, stale>>
      /\ call.stage \in Stages \ {"idle"}
  BY DEF FtsFilter, MultiRefField, Stages
<1>3. ASSUME NEW t \in {"fts_hd", "pre_hd"}, Narrow(t)
      PROVE  HandlesInv'
  <2>1. PICK hd \in Opens(open) \ {None} :
          \/ /\ call.tmp[t] = None
             /\ open' = With(open, hd)
             /\ call' = [call EXCEPT !.tmp[t] = hd]
          \/ /\ call.tmp[t] # None
             /\ \E both \in Opens(With(open, hd)) \ {None} :
                  /\ open' = With(With(open, hd), both) \ {call.tmp[t], hd}
                  /\ call' = [call EXCEPT !.tmp[t] = both]
    BY <1>3 DEF Narrow
  <2>2. hd \in Handle /\ hd \notin open
    BY <1>1, <2>1, OpenedIsFresh
  <2>3. t \in Temporaries
    BY DEF Temporaries
  <2>4. CASE /\ call.tmp[t] = None
             /\ open' = With(open, hd)
             /\ call' = [call EXCEPT !.tmp[t] = hd]
    <3>1. open' = ((open \ {call.tmp[t]}) \cup {hd}) \ {None}
      BY <2>4, <1>1 DEF With
    <3>2. call' = [call EXCEPT !.stage = call.stage, !.tmp[t] = hd]
      BY <2>4 DEF HandlesInv, TypeOK
    <3>3. open' \subseteq Handle /\ open' \subseteq (open \ {call.tmp[t]}) \cup {hd}
      BY <3>1, <1>1, <2>2
    <3> QED BY <1>2, <2>2, <2>3, <3>1, <3>2, <3>3, TemporaryStep
  <2>5. CASE /\ call.tmp[t] # None
             /\ \E both \in Opens(With(open, hd)) \ {None} :
                  /\ open' = With(With(open, hd), both) \ {call.tmp[t], hd}
                  /\ call' = [call EXCEPT !.tmp[t] = both]
    <3>1. PICK both \in Opens(With(open, hd)) \ {None} :
            /\ open' = With(With(open, hd), both) \ {call.tmp[t], hd}
            /\ call' = [call EXCEPT !.tmp[t] = both]
      BY <2>5
    <3>2. With(open, hd) = open \cup {hd} /\ With(open, hd) \in SUBSET Handle
      BY <1>1, <2>2, NoneIsNoHandle DEF With
    <3>3. both \in Handle /\ both \notin open /\ both # hd
      BY <3>1, <3>2, OpenedIsFresh
    <3>4. open' = (open \cup {both}) \ {call.tmp[t]}
      BY <3>1, <3>2, <3>3, <2>2, <1>1, NoneIsNoHandle DEF With
    <3>5. ~stale => call.tmp[t] \in open
      BY <1>1, <2>3, <2>5 DEF Owned
    <3>6. ~stale => open' = ((open \ {call.tmp[t]}) \cup {both}) \ {None}
      BY <3>3, <3>4, <3>5, <1>1, NoneIsNoHandle
    <3>7. open' \subseteq Handle /\ open' \subseteq (open \ {call.tmp[t]}) \cup {both}
      BY <3>3, <3>4, <1>1
    <3>8. call' = [call EXCEPT !.stage = call.stage, !.tmp[t] = both]
      BY <3>1 DEF HandlesInv, TypeOK
    <3> QED BY <1>2, <2>3, <3>3, <3>6, <3>7, <3>8, TemporaryStep
  <2> QED BY <2>1, <2>4, <2>5
<1>4. CASE /\ open' = open \ {call.tmp["pre_hd"]}
           /\ call' = [call EXCEPT !.tmp["pre_hd"] = None]
  <2>1. call' = [call EXCEPT !.stage = call.stage, !.tmp["pre_hd"] = None]
    BY <1>4 DEF HandlesInv, TypeOK
  <2>2. /\ open' \subseteq Handle
        /\ open' \subseteq (open \ {call.tmp["pre_hd"]}) \cup {None}
        /\ open' = ((open \ {call.tmp["pre_hd"]}) \cup {None}) \ {None}
    BY <1>4, <1>1
  <2>3. "pre_hd" \in Temporaries
    BY DEF Temporaries
  <2> QED BY <1>1, <1>2, <2>1, <2>2, <2>3, TemporaryStep
<1> QED BY <1>3, <1>4 DEF FtsFilter, MultiRefField

(* The stages that open one map.                                           *)
LEMMA OpenStep ==
  ASSUME HandlesInv, QFilter \/ FilterRows \/ SortRows
  PROVE  HandlesInv'
<1>1. open \in SUBSET Handle /\ None \notin open
  BY InvParts, NoneIsNoHandle
<1>2. ASSUME NEW stage, NEW t \in Temporaries, NEW next \in Stages \ {"idle"},
             OpenStageMap(stage, t), StageAfter[stage] = next,
             call.tmp[t] = None,
             \/ t = "q_hd" /\ next = "filter" /\ stage = "q"
             \/ t = "filtered_hd" /\ next = "sort" /\ stage = "filter"
             \/ t = "sorted_hd" /\ next = "page" /\ stage = "sort"
      PROVE  HandlesInv'
  <2>1. PICK hd \in Opens(open) :
          /\ open' = With(open, hd)
          /\ call' = [call EXCEPT !.stage = next, !.tmp[t] = hd]
    BY <1>2 DEF OpenStageMap
  <2>2. hd \in Handle \cup {None} /\ hd \notin open
    BY <1>1, <2>1, OpenedIsFresh
  <2>3. open' = ((open \ {call.tmp[t]}) \cup {hd}) \ {None}
    BY <1>1, <1>2, <2>1 DEF With
  <2>4. open' \subseteq Handle /\ open' \subseteq (open \ {call.tmp[t]}) \cup {hd}
    BY <2>2, <2>3, <1>1
  <2>5. /\ UNCHANGED <<registered, entry, results, stale>>
        /\ call.stage = stage /\ call.stage # "idle"
    BY <1>2 DEF OpenStageMap
  <2> QED BY <1>2, <2>1, <2>2, <2>3, <2>4, <2>5, TemporaryStep
<1>3. CASE QFilter
  <2>1. OpenStageMap("q", "q_hd") /\ call.tmp["q_hd"] = None
    BY <1>3 DEF QFilter, OpenStageMap, HandlesInv, StagesInv
  <2> QED BY <1>2, <2>1 DEF StageAfter, Stages, Temporaries
<1>4. CASE FilterRows
  <2>1. OpenStageMap("filter", "filtered_hd") /\ call.tmp["filtered_hd"] = None
    BY <1>4 DEF FilterRows, OpenStageMap, HandlesInv, StagesInv
  <2> QED BY <1>2, <2>1 DEF StageAfter, Stages, Temporaries
<1>5. CASE SortRows
  <2>1. OpenStageMap("sort", "sorted_hd") /\ call.tmp["sorted_hd"] = None
    BY <1>5 DEF SortRows, OpenStageMap, HandlesInv, StagesInv
  <2> QED BY <1>2, <2>1 DEF StageAfter, Stages, Temporaries
<1> QED BY <1>3, <1>4, <1>5

(* The answer goes to its caller, the temporaries are closed.              *)
LEMMA ReturnStep ==
  ASSUME HandlesInv, QueryReturn
  PROVE  HandlesInv'
<1>1. /\ Shape(open, entry, call.tmp, results)
      /\ Covered(open, entry, call.tmp, results)
      /\ open \in SUBSET Handle /\ None \notin open
      /\ ~stale => Owned(open, entry, call.tmp, results)
  BY InvParts, NoneIsNoHandle
<1>2. PICK hd \in Opens(open) :
        /\ open' = With(open, hd) \ ClosedOnReturn
        /\ results' = results \cup {[row_hd |-> hd,
                                     fields_hd |-> entry[call.source]["fields_hd"]]}
  BY DEF QueryReturn
<1> DEFINE rs == [row_hd |-> hd, fields_hd |-> entry[call.source]["fields_hd"]]
<1>3. /\ call' = Idle
      /\ UNCHANGED <<registered, entry, stale>>
      /\ call.source \in Source
  BY DEF QueryReturn, HandlesInv, StagesInv
<1>4. hd \in Handle \cup {None} /\ hd \notin open
  BY <1>1, <1>2, OpenedIsFresh
<1>5. /\ rs \in [row_hd : Handle \cup {None}, fields_hd : Handle \cup {None}]
      /\ rs.row_hd = hd
  BY <1>1, <1>3, <1>4 DEF Shape, MapNames
<1>6. open' = ((open \cup {hd}) \ {None}) \ { call.tmp[t] : t \in Temporaries }
  BY <1>2 DEF With, ClosedOnReturn
<1>7. results' = results \cup {rs}
  BY <1>2
<1> HIDE DEF rs
<1>8. call'.tmp \in [Temporaries -> {None}] /\ call'.stage = "idle"
  BY <1>3 DEF Idle, NoTemporaries
<1>9. Shape(open', entry', call'.tmp, results')
  BY <1>1, <1>3, <1>4, <1>5, <1>6, <1>7, <1>8 DEF Shape
<1>10. TypeOK' /\ StagesInv'
  <2>1. registered' \subseteq Source /\ stale' \in BOOLEAN
    BY <1>3 DEF HandlesInv, TypeOK
  <2>2. call' \in [stage : Stages, source : Source \cup {None},
                   tmp : [Temporaries -> Handle \cup {None}]]
    BY <1>3 DEF Idle, NoTemporaries, Stages
  <2>3. StagesInv'
    BY <1>3 DEF StagesInv, Idle, NoTemporaries, Temporaries
  <2> QED BY <1>9, <2>1, <2>2, <2>3 DEF TypeOK, Shape
<1>11. Covered(open', entry', call'.tmp, results')
  <2> SUFFICES ASSUME NEW x \in open'
               PROVE  \/ \E s \in Source, m \in MapNames : entry'[s][m] = x
                      \/ \E r \in results' : r.row_hd = x
    BY DEF Covered
  <2>1. CASE x = hd
    BY <2>1, <1>5, <1>7
  <2>2. CASE x # hd
    <3>1. x \in open /\ \A t \in Temporaries : call.tmp[t] # x
      BY <2>2, <1>6
    <3> QED BY <3>1, <1>1, <1>3, <1>7 DEF Covered
  <2> QED BY <2>1, <2>2
<1>12. ~stale' => Owned(open', entry', call'.tmp, results')
  <2> SUFFICES ASSUME ~stale PROVE Owned(open', entry', call'.tmp, results')
    BY <1>3
  <2>1. Owned(open, entry, call.tmp, results)
    BY <1>1
  <2>2. ASSUME NEW s \in Source, NEW m \in MapNames
        PROVE  /\ entry'[s][m] = entry[s][m]
               /\ entry[s][m] = None \/ (entry[s][m] \in open' /\ entry[s][m] # hd)
    <3>1. entry[s][m] # None =>
            entry[s][m] \in open /\ \A t \in Temporaries : call.tmp[t] # entry[s][m]
      BY <2>1 DEF Owned
    <3> QED BY <3>1, <1>3, <1>4, <1>6
  <2>3. ASSUME NEW r \in results
        PROVE  r.row_hd = None \/ (r.row_hd \in open' /\ r.row_hd # hd)
    <3>1. r.row_hd # None =>
            r.row_hd \in open /\ \A t \in Temporaries : call.tmp[t] # r.row_hd
      BY <2>1 DEF Owned
    <3> QED BY <3>1, <1>4, <1>6
  <2>4. hd = None \/ hd \in open'
    <3>1. ASSUME hd # None PROVE \A t \in Temporaries : call.tmp[t] # hd
      BY <3>1, <2>1, <1>4 DEF Owned
    <3> QED BY <3>1, <1>6
  <2>5. \A t \in Temporaries : call'.tmp[t] = None
    BY <1>8
  <2>6. \A r \in results' : r = rs \/ r \in results
    BY <1>7
  <2>7. /\ \A s \in Source, m \in MapNames : entry'[s][m] \in open' \cup {None}
        /\ \A r \in results' : r.row_hd \in open' \cup {None}
    BY <2>2, <2>3, <2>4, <2>6, <1>5
  <2>8. ASSUME NEW r \in results', NEW q \in results', r.row_hd = q.row_hd, r.row_hd # None
        PROVE  r = q
    <3>1. CASE r \in results /\ q \in results
      BY <3>1, <2>8, <2>1 DEF Owned
    <3>2. CASE r = rs \/ q = rs
      BY <3>2, <2>3, <2>6, <2>8, <1>5
    <3> QED BY <3>1, <3>2, <2>6
  <2>9. ASSUME NEW s \in Source, NEW m \in MapNames, NEW r \in results',
               entry'[s][m] = r.row_hd
        PROVE  entry'[s][m] = None
    <3>1. CASE r = rs
      BY <3>1, <2>2, <2>9, <1>5
    <3>2. CASE r \in results
      BY <3>2, <2>1, <2>2, <2>9 DEF Owned
    <3> QED BY <3>1, <3>2, <2>6
  <2>10. \A s, t \in Source, m, n \in MapNames :
           entry'[s][m] = entry'[t][n] /\ entry'[s][m] # None => s = t /\ m = n
    BY <2>1, <2>2 DEF Owned
  <2> QED BY <2>5, <2>7, <2>8, <2>9, <2>10 DEF Owned
<1> QED BY <1>10, <1>11, <1>12 DEF HandlesInv

(* A caller frees its row set.                                             *)
LEMMA FreeStep ==
  ASSUME HandlesInv, NEW rs \in results, RowSetFree(rs)
  PROVE  HandlesInv'
<1>1. /\ Shape(open, entry, call.tmp, results)
      /\ Covered(open, entry, call.tmp, results)
      /\ open \in SUBSET Handle
      /\ ~stale => Owned(open, entry, call.tmp, results)
  BY InvParts
<1>2. /\ UNCHANGED <<registered, entry, call, stale>>
      /\ open' = open \ {rs.row_hd}
      /\ results' = results \ {rs}
  BY DEF RowSetFree
<1>3. TypeOK' /\ StagesInv'
  BY <1>2 DEF HandlesInv, TypeOK, StagesInv
<1>4. Covered(open', entry', call'.tmp, results')
  BY <1>1, <1>2 DEF Covered
<1>5. ~stale' => Owned(open', entry', call'.tmp, results')
  <2> SUFFICES ASSUME ~stale PROVE Owned(open', entry', call'.tmp, results')
    BY <1>2
  <2>1. Owned(open, entry, call.tmp, results)
    BY <1>1
  <2>2. /\ \A s \in Source, m \in MapNames : entry[s][m] \in open' \cup {None}
        /\ \A t \in Temporaries : call.tmp[t] \in open' \cup {None}
        /\ \A r \in results' : r.row_hd \in open' \cup {None}
    BY <2>1, <1>2 DEF Owned
  <2> QED BY <2>1, <2>2, <1>2 DEF Owned
<1> QED BY <1>3, <1>4, <1>5 DEF HandlesInv

(* Every step keeps the invariant.                                         *)
LEMMA HandlesStep == HandlesInv /\ [Next]_vars => HandlesInv'
<1> SUFFICES ASSUME HandlesInv, [Next]_vars
             PROVE  HandlesInv'
  OBVIOUS
<1>1. ASSUME NEW s \in Source,
             RegisterRowsFail(s) \/ RegisterFieldsFail(s) \/ Register(s)
      PROVE  HandlesInv'
  BY <1>1, RegisterStep
<1>2. ASSUME NEW s \in Source, OrderedRegister(s)
      PROVE  HandlesInv'
  BY <1>2, OrderedRegisterStep
<1>3. CASE (\E s \in Source : QueryStart(s)) \/ NextStage
  BY <1>3, StageStep
<1>4. CASE FtsFilter \/ MultiRefField
  BY <1>4, NarrowStep
<1>5. CASE QFilter \/ FilterRows \/ SortRows
  BY <1>5, OpenStep
<1>6. CASE QueryReturn
  BY <1>6, ReturnStep
<1>7. ASSUME NEW rs \in results, RowSetFree(rs)
      PROVE  HandlesInv'
  BY <1>7, FreeStep
<1>8. CASE UNCHANGED vars
  BY <1>8 DEF vars, HandlesInv, TypeOK, StagesInv, Covered, Owned
<1> QED BY <1>1, <1>2, <1>3, <1>4, <1>5, <1>6, <1>7, <1>8 DEF Next

(* So the invariant holds of every behaviour.                              *)
LEMMA HandlesInvariant == Spec => []HandlesInv
BY HandlesInit, HandlesStep, PTL DEF Spec

-----------------------------------------------------------------------------
(* Numbers stay in their range, for any number of sources and row sets.    *)
THEOREM RegistryTypeCorrect == Spec => []TypeOK
<1>1. HandlesInv => TypeOK
  BY DEF HandlesInv
<1> QED BY <1>1, HandlesInvariant, PTL

(* No map is lost: whatever hyle_registry_register, hyle_ordered_register  *)
(* and hyle_registry_query open is closed or held, at every moment and     *)
(* wherever corm_open fails.                                               *)
THEOREM RegistryNoLeak == Spec => []NoLeak
<1>1. HandlesInv => NoLeak
  <2> SUFFICES ASSUME HandlesInv, NEW h \in open
               PROVE  h \in EntryHandles \cup CallHandles \cup ResultHandles
    BY DEF NoLeak
  <2>1. \/ \E s \in Source, m \in MapNames : entry[s][m] = h
        \/ \E t \in Temporaries : call.tmp[t] = h
        \/ \E rs \in results : rs.row_hd = h
    BY DEF HandlesInv, Covered
  <2> QED BY <2>1 DEF EntryHandles, CallHandles, ResultHandles
<1> QED BY <1>1, HandlesInvariant, PTL

(* Nobody closes a map that is not its own: the handles of entries, of the *)
(* query in progress and of the callers' row sets are open and different,  *)
(* as long as no registration failed on its fields map.                    *)
THEOREM RegistryOneOwner == Spec => []OneOwner
<1>1. HandlesInv => OneOwner
  <2> SUFFICES ASSUME HandlesInv, ~stale
               PROVE  HeldAreOpen /\ EntriesDiffer /\ CallDiffers
                      /\ ResultsDiffer /\ OwnersApart
    BY DEF OneOwner
  <2>1. Owned(open, entry, call.tmp, results)
    BY DEF HandlesInv
  <2>2. HeldAreOpen
    BY <2>1 DEF Owned, HeldAreOpen, EntryHandles, CallHandles, ResultHandles
  <2>3. EntriesDiffer /\ CallDiffers /\ ResultsDiffer
    BY <2>1 DEF Owned, EntriesDiffer, CallDiffers, ResultsDiffer
  <2>4. OwnersApart
    BY <2>1 DEF Owned, OwnersApart, EntryHandles, CallHandles, ResultHandles
  <2> QED BY <2>2, <2>3, <2>4
<1> QED BY <1>1, HandlesInvariant, PTL
===============================================================================
