--------------------------- MODULE Queries_proofs ---------------------------
(***************************************************************************)
(* What queries promise, in two parts.                                     *)
(*                                                                         *)
(* From a query string to a manifest: whatever the query string, the       *)
(* blueprint and the failed allocations, every override reaches the        *)
(* filters of its field in the query, the manifest has the filters, the    *)
(* included fields and the settings of the query string, every referenced  *)
(* source is loaded once, and only results hold memory.  ParseInv is the   *)
(* inductive invariant of the pass over the parameters, ManifestInv that   *)
(* of the loops that make the manifest; SettingsInv and                    *)
(* ManifestSettingsInv are what both have to say of the settings.          *)
(*                                                                         *)
(* From a query to the pages of its answer: whatever the schema, the rows, *)
(* the index and the query, the stages keep what the filters mean, failed  *)
(* maps lose conditions on references only, the pages follow the answer,   *)
(* and the answer is sorted.  SourceInv is the inductive invariant of the  *)
(* walk; most of the way to it are lemmas on the operators of              *)
(* QueryPipeline.                                                          *)
(***************************************************************************)
EXTENDS Blueprint, SourceQuery, SequenceLemmas, FiniteSetTheorems

(* The query, its memory and its place in the query string.                *)
QueryParts == {"sort_field", "sort_asc", "page", "per_page", "q", "filters", "include"}

ParseTypes ==
  /\ IsSequence(params) /\ \A k \in DOMAIN params : params[k] \in Params
  /\ next \in 1 .. Len(params) + 1
  /\ IsSequence(ops)
  /\ out = [part \in QueryParts |-> out[part]]
  /\ IsSequence(out.filters) /\ IsSequence(out.include)
  /\ result \in {"called", "running", "ok", "nomem", "cleared"}

Arrays(query) == (IF query.filters # <<>> THEN {"filters"} ELSE {})
                   \cup (IF query.include # <<>> THEN {"include"} ELSE {})

HeldInv ==
  /\ result = "called" => held = {} /\ out = NoQuery /\ ops = <<>> /\ next = 1
  /\ result = "running" => held = {"names", "values"} \cup Arrays(out)
  /\ result = "ok" => held = Arrays(out) /\ next = Len(params) + 1
  /\ result \in {"nomem", "cleared"} =>
       held = {} /\ out.filters = <<>> /\ out.include = <<>>

(* What the pass has come to so far is what was asked for so far.          *)
SortsBefore(query, n) == { k \in DOMAIN query : k < n /\ IsSort(query[k]) }

FiltersAre(filters, asked) ==
  /\ Len(filters) = Len(asked)
  /\ \A n \in 1 .. Len(asked) :
       filters[n].field = asked[n].name /\ filters[n].value = Decode(asked[n].text)

AskedInv ==
  result \in {"running", "ok"} =>
    /\ FiltersAre(out.filters, AskedUpTo(params)[next - 1])
    /\ out.include = IncludesUpTo(params)[next - 1]
    /\ out.sort_field = LastSort(params, SortsBefore(params, next))

(* Of each field the last override that was recorded is the last that was  *)
(* passed, as long as there was room for all of them.                      *)
IsOverride(param) == param.override /\ param.text # NULL /\ Decode(param.text) \in {"and", "or"}
Passed(query, n) == { k \in DOMAIN query : k < n /\ IsOverride(query[k]) }
PassedOf(query, n, f) == { k \in Passed(query, n) : query[k].name = f }
OpsOf(recorded, f) == { j \in DOMAIN recorded : recorded[j].field = f }
IsLast(k, S) == k \in S /\ \A j \in S : j <= k

LastsAgree(recorded, query, n, f) ==
  /\ OpsOf(recorded, f) = {} => PassedOf(query, n, f) = {}
  /\ \A j : IsLast(j, OpsOf(recorded, f)) =>
       \E k : IsLast(k, PassedOf(query, n, f)) /\ recorded[j].op = Decode(query[k].text)

OpsInv ==
  /\ (/\ result \in {"called", "running"}
      /\ Cardinality(Passed(params, Len(params) + 1)) <= MaxOps) =>
         /\ Len(ops) = Cardinality(Passed(params, next))
         /\ \A f : LastsAgree(ops, params, next, f)
  /\ OverridesReachFilters

ParseInv == ParseTypes /\ HeldInv /\ AskedInv /\ OpsInv


-----------------------------------------------------------------------------
(* What is asked for, parameter by parameter.                              *)
LEMMA AskedSteps ==
  ASSUME NEW query, IsSequence(query)
  PROVE  /\ AskedUpTo(query)[0] = <<>>
         /\ \A n \in 1 .. Len(query) :
              AskedUpTo(query)[n] = IF IsFilter(query[n])
                                    THEN Append(AskedUpTo(query)[n - 1], query[n])
                                    ELSE AskedUpTo(query)[n - 1]
         /\ \A n \in 0 .. Len(query) : IsSequence(AskedUpTo(query)[n])
<1> DEFINE N == Len(query)
           X == Seq(ToSet(query))
           step(n, s) == IF IsFilter(query[n]) THEN Append(s, query[n]) ELSE s
           Is(h) == h = [n \in 0 .. N |-> IF n = 0 THEN <<>>
                                          ELSE IF IsFilter(query[n])
                                               THEN Append(h[n - 1], query[n])
                                          ELSE h[n - 1]]
           c == CHOOSE h : Is(h)
           g == [n \in 1 .. N |-> [s \in X |-> step(n, s)]]
<1>1. N \in Nat /\ \A n \in 1 .. N : query[n] \in ToSet(query)
  BY SequenceFacts
<1>2. <<>> \in X /\ \A n \in 1 .. N, s \in X : step(n, s) \in X
  BY <1>1
<1>3. g \in [1 .. N -> [X -> X]]
  <2> HIDE DEF X, step
  <2> QED BY <1>2
<1>4. PICK f \in [0 .. N -> X] : Solves(f, g, <<>>, N)
  <2> HIDE DEF g, X
  <2> QED BY <1>1, <1>2, <1>3, RecursionUpTo
<1>5. Is(f)
  <2>1. f[0] = <<>> /\ \A n \in 1 .. N : f[n] = step(n, f[n - 1])
    <3> HIDE DEF X, step
    <3>1. \A n \in 1 .. N : f[n - 1] \in X
      BY <1>1
    <3>2. \A n \in 1 .. N : f[n] = g[n][f[n - 1]]
      BY <1>4 DEF Solves
    <3> QED BY <1>4, <3>1, <3>2 DEF Solves
  <2>2. f = [n \in 0 .. N |-> f[n]]
    OBVIOUS
  <2> HIDE DEF X, g
  <2>3. \A n \in 0 .. N : n # 0 => n \in 1 .. N
    BY <1>1
  <2>4. \A n \in 0 .. N : f[n] = IF n = 0 THEN <<>>
                                 ELSE IF IsFilter(query[n]) THEN Append(f[n - 1], query[n])
                                 ELSE f[n - 1]
    BY <2>1, <2>3, Zenon
  <2> QED BY <2>2, <2>4
<1>6. Is(c)
  <2> HIDE DEF Is, g, X
  <2> QED BY <1>5
<1>7. AskedUpTo(query) = c
  BY DEF AskedUpTo
<1>8. c[0] = <<>> /\ \A n \in 1 .. N : c[n] = step(n, c[n - 1])
  <2> HIDE DEF c, g, X
  <2>1. 0 \in 0 .. N /\ \A n \in 1 .. N : n \in 0 .. N /\ n # 0
    BY <1>1
  <2> QED BY <1>6, <2>1, Zenon
<1>9. \A n \in 0 .. N : c[n] \in X
  <2> HIDE DEF c, step, X
  <2> DEFINE T == { n \in 0 .. N : c[n] \in X }
  <2>1. 0 \in T
    BY <1>1, <1>2, <1>8
  <2>2. \A n \in 0 .. N - 1 : n \in T => n + 1 \in T
    <3> SUFFICES ASSUME NEW n \in 0 .. N - 1, n \in T
                 PROVE  c[n + 1] \in X
      BY <1>1
    <3>1. n + 1 \in 1 .. N /\ (n + 1) - 1 = n
      BY <1>1
    <3>2. c[n + 1] = step(n + 1, c[n])
      BY <1>8, <3>1
    <3> QED BY <1>2, <3>1, <3>2
  <2>3. \A n \in 0 .. N : n \in T
    <3> HIDE DEF T
    <3> QED BY <1>1, <2>1, <2>2, InductionUpTo
  <2> QED BY <2>3
<1>10. \A n \in 0 .. N : IsSequence(c[n])
  <2> HIDE DEF c
  <2> QED BY <1>9, SequenceIn
<1> HIDE DEF c
<1> QED BY <1>7, <1>8, <1>10

(* The pieces of an include are at least one.                              *)
LEMMA IncludesOfParam ==
  ASSUME NEW p \in Params
  PROVE  /\ IsSequence(IncludesOf(p))
         /\ p.text # NULL =>
              [k \in DOMAIN Pieces(Decode(p.text)) |-> Decode(Pieces(Decode(p.text))[k])] # <<>>
<1> DEFINE pieces == Pieces(Decode(p.text))
           fields == [k \in DOMAIN pieces |-> Decode(pieces[k])]
<1>1. ASSUME p.text # NULL
      PROVE  IsSequence(fields) /\ fields # <<>>
  <2>1. IsSequence(pieces) /\ pieces # <<>>
    BY <1>1, QueryParseAssumption DEF IsSequence
  <2>2. DOMAIN fields = DOMAIN pieces /\ fields = [k \in DOMAIN fields |-> fields[k]]
    OBVIOUS
  <2> HIDE DEF fields, pieces
  <2>3. IsSequence(fields) /\ Len(fields) = Len(pieces)
    BY <2>1, <2>2, SequenceMap
  <2> QED BY <2>1, <2>3, SequenceFacts
<1>2. CASE p.text # NULL /\ p.name = "include" /\ ~p.override
  BY <1>1, <1>2 DEF IncludesOf
<1>3. CASE ~(p.text # NULL /\ p.name = "include" /\ ~p.override)
  <2>1. IncludesOf(p) = <<>>
    BY <1>3 DEF IncludesOf
  <2> QED BY <1>1, <2>1, EmptySequence
<1> QED BY <1>2, <1>3, <1>1

LEMMA IncludesSteps ==
  ASSUME NEW query, IsSequence(query), \A k \in DOMAIN query : query[k] \in Params
  PROVE  /\ IncludesUpTo(query)[0] = <<>>
         /\ \A n \in 1 .. Len(query) :
              IncludesUpTo(query)[n] = IncludesUpTo(query)[n - 1] \o IncludesOf(query[n])
         /\ \A n \in 0 .. Len(query) : IsSequence(IncludesUpTo(query)[n])
<1> DEFINE N == Len(query)
           S == UNION { ToSet(IncludesOf(query[n])) : n \in 1 .. N }
           X == Seq(S)
           step(n, s) == s \o IncludesOf(query[n])
           Is(h) == h = [n \in 0 .. N |-> IF n = 0 THEN <<>>
                                          ELSE h[n - 1] \o IncludesOf(query[n])]
           c == CHOOSE h : Is(h)
           g == [n \in 1 .. N |-> [s \in X |-> step(n, s)]]
<1>1. N \in Nat /\ DOMAIN query = 1 .. N
  BY SequenceFacts
<1>2. <<>> \in X /\ \A n \in 1 .. N, s \in X : step(n, s) \in X
  <2> SUFFICES ASSUME NEW n \in 1 .. N, NEW s \in X
               PROVE  s \o IncludesOf(query[n]) \in X
    OBVIOUS
  <2>1. IsSequence(IncludesOf(query[n])) /\ ToSet(IncludesOf(query[n])) \subseteq S
    BY <1>1, IncludesOfParam
  <2>2. IncludesOf(query[n]) \in Seq(S)
    <3> HIDE DEF S
    <3> QED BY <2>1 DEF IsSequence
  <2> HIDE DEF S
  <2> QED BY <2>2
<1> HIDE DEF S
<1>3. g \in [1 .. N -> [X -> X]]
  <2> HIDE DEF X, step
  <2> QED BY <1>2
<1>4. PICK f \in [0 .. N -> X] : Solves(f, g, <<>>, N)
  <2> HIDE DEF g, X
  <2> QED BY <1>1, <1>2, <1>3, RecursionUpTo
<1>5. Is(f)
  <2>1. f[0] = <<>> /\ \A n \in 1 .. N : f[n] = step(n, f[n - 1])
    <3> HIDE DEF X, step
    <3>1. \A n \in 1 .. N : f[n - 1] \in X
      BY <1>1
    <3>2. \A n \in 1 .. N : f[n] = g[n][f[n - 1]]
      BY <1>4 DEF Solves
    <3> QED BY <1>4, <3>1, <3>2 DEF Solves
  <2>2. f = [n \in 0 .. N |-> f[n]]
    OBVIOUS
  <2> HIDE DEF X, g
  <2>3. \A n \in 0 .. N : n # 0 => n \in 1 .. N
    BY <1>1
  <2>4. \A n \in 0 .. N : f[n] = IF n = 0 THEN <<>> ELSE f[n - 1] \o IncludesOf(query[n])
    BY <2>1, <2>3, Zenon
  <2> QED BY <2>2, <2>4
<1>6. Is(c)
  <2> HIDE DEF Is, g, X
  <2> QED BY <1>5
<1>7. IncludesUpTo(query) = c
  BY DEF IncludesUpTo
<1>8. c[0] = <<>> /\ \A n \in 1 .. N : c[n] = step(n, c[n - 1])
  <2> HIDE DEF c, g, X
  <2>1. 0 \in 0 .. N /\ \A n \in 1 .. N : n \in 0 .. N /\ n # 0
    BY <1>1
  <2> QED BY <1>6, <2>1, Zenon
<1>9. \A n \in 0 .. N : c[n] \in X
  <2> HIDE DEF c, step, X
  <2> DEFINE T == { n \in 0 .. N : c[n] \in X }
  <2>1. 0 \in T
    BY <1>1, <1>2, <1>8
  <2>2. \A n \in 0 .. N - 1 : n \in T => n + 1 \in T
    <3> SUFFICES ASSUME NEW n \in 0 .. N - 1, n \in T
                 PROVE  c[n + 1] \in X
      BY <1>1
    <3>1. n + 1 \in 1 .. N /\ (n + 1) - 1 = n
      BY <1>1
    <3>2. c[n + 1] = step(n + 1, c[n])
      BY <1>8, <3>1
    <3> QED BY <1>2, <3>1, <3>2
  <2>3. \A n \in 0 .. N : n \in T
    <3> HIDE DEF T
    <3> QED BY <1>1, <2>1, <2>2, InductionUpTo
  <2> QED BY <2>3
<1>10. \A n \in 0 .. N : IsSequence(c[n])
  <2> HIDE DEF c
  <2> QED BY <1>9, SequenceIn
<1> HIDE DEF c
<1> QED BY <1>7, <1>8, <1>10

(* One parameter further.                                                  *)
LEMMA OneFurther ==
  ASSUME NEW query, IsSequence(query), NEW n \in 1 .. Len(query)
  PROVE  /\ ~IsSort(query[n]) => SortsBefore(query, n + 1) = SortsBefore(query, n)
         /\ IsSort(query[n]) =>
              LastSort(query, SortsBefore(query, n + 1)) = SortSpec(Decode(query[n].text)).field
         /\ ~IsOverride(query[n]) => Passed(query, n + 1) = Passed(query, n)
         /\ IsOverride(query[n]) => Passed(query, n + 1) = Passed(query, n) \cup {n}
         /\ n \notin Passed(query, n)
<1>1. Len(query) \in Nat /\ DOMAIN query = 1 .. Len(query)
  BY SequenceFacts
<1>2. ASSUME IsSort(query[n])
      PROVE  LastSort(query, SortsBefore(query, n + 1)) = SortSpec(Decode(query[n].text)).field
  <2> DEFINE S == SortsBefore(query, n + 1)
  <2>1. n \in S /\ \A k \in S : k \in Nat /\ k <= n
    BY <1>1, <1>2 DEF SortsBefore
  <2> HIDE DEF S
  <2>2. (CHOOSE k \in S : \A j \in S : j <= k) = n
    <3>1. PICK k \in S : k = (CHOOSE i \in S : \A j \in S : j <= i) /\ \A j \in S : j <= k
      BY <2>1
    <3> QED BY <2>1, <3>1
  <2>3. LastSort(query, S) = SortSpec(Decode(query[n].text)).field
    BY <2>1, <2>2, Zenon DEF LastSort, LastOf
  <2> QED BY <2>3 DEF S
<1>3. ~IsSort(query[n]) => SortsBefore(query, n + 1) = SortsBefore(query, n)
  BY <1>1 DEF SortsBefore
<1>4. /\ ~IsOverride(query[n]) => Passed(query, n + 1) = Passed(query, n)
      /\ IsOverride(query[n]) => Passed(query, n + 1) = Passed(query, n) \cup {n}
      /\ n \notin Passed(query, n)
  BY <1>1 DEF Passed
<1> QED BY <1>2, <1>3, <1>4

LEMMA PassedAreFew ==
  ASSUME NEW query, IsSequence(query), NEW n \in 1 .. Len(query) + 1
  PROVE  /\ IsFiniteSet(Passed(query, n)) /\ Cardinality(Passed(query, n)) \in Nat
         /\ Cardinality(Passed(query, n)) <= Cardinality(Passed(query, Len(query) + 1))
<1>1. Len(query) \in Nat /\ DOMAIN query = 1 .. Len(query)
  BY SequenceFacts
<1>2. IsFiniteSet(1 .. Len(query))
  BY <1>1, FS_Interval
<1>3. /\ Passed(query, n) \in SUBSET Passed(query, Len(query) + 1)
      /\ Passed(query, Len(query) + 1) \in SUBSET (1 .. Len(query))
  BY <1>1 DEF Passed
<1>4. IsFiniteSet(Passed(query, Len(query) + 1))
  BY <1>2, <1>3, FS_Subset
<1>5. IsFiniteSet(Passed(query, n))
  BY <1>3, <1>4, FS_Subset
<1>6. Cardinality(Passed(query, n)) <= Cardinality(Passed(query, Len(query) + 1))
  BY <1>3, <1>4, FS_Subset
<1> QED BY <1>5, <1>6, FS_CardinalityType

(* What the parser has passed when a call starts, or has nothing to do.    *)
LEMMA NothingPassed ==
  ASSUME NEW query, IsSequence(query)
  PROVE  /\ Passed(query, 1) = {} /\ SortsBefore(query, 1) = {}
         /\ Cardinality(Passed(query, 1)) = 0
<1>1. Passed(query, 1) = {} /\ SortsBefore(query, 1) = {}
  BY SequenceFacts DEF Passed, SortsBefore
<1> QED BY <1>1, FS_EmptySet

-----------------------------------------------------------------------------
LEMMA ParseStarts ==
  ASSUME ParseInit
  PROVE  ParseInv
<1>1. PICK n \in 0 .. MaxParams : params \in [1 .. n -> Params]
  BY DEF ParseInit
<1>2. n \in Nat /\ IsSequence(params) /\ Len(params) = n
  BY <1>1, SequenceOf, QueryParseAssumption
<1>3. ParseTypes
  BY <1>1, <1>2, EmptySequence DEF ParseInit, ParseTypes, NoQuery, QueryParts
<1>4. HeldInv /\ AskedInv
  BY DEF ParseInit, HeldInv, AskedInv
<1>5. ASSUME NEW f
      PROVE  LastsAgree(<<>>, params, 1, f)
  BY <1>2, NothingPassed DEF LastsAgree, OpsOf, PassedOf, IsLast
<1>6. OpsInv
  BY <1>2, <1>5, NothingPassed, EmptySequence DEF ParseInit, OpsInv, OverridesReachFilters
<1> QED BY <1>3, <1>4, <1>6 DEF ParseInv

(* A step past a parameter that asks for nothing.                          *)
LEMMA NothingAsked ==
  ASSUME ParseTypes, AskedInv, Parsing, Advance,
         ~IsFilter(Param), ~IsSort(Param), IncludesOf(Param) = <<>>,
         out'.filters = out.filters, out'.include = out.include,
         out'.sort_field = out.sort_field
  PROVE  AskedInv'
<1>1. /\ IsSequence(params) /\ next \in 1 .. Len(params) /\ Len(params) \in Nat
      /\ \A k \in DOMAIN params : params[k] \in Params
  BY SequenceFacts DEF ParseTypes, Parsing
<1>2. next \in 0 .. Len(params) /\ next - 1 \in 0 .. Len(params)
  BY <1>1
<1>3. AskedUpTo(params)[next] = AskedUpTo(params)[next - 1]
  BY <1>1, AskedSteps DEF Param
<1>4. IncludesUpTo(params)[next] = IncludesUpTo(params)[next - 1]
  <2>1. IncludesUpTo(params)[next] = IncludesUpTo(params)[next - 1] \o <<>>
    BY <1>1, IncludesSteps DEF Param
  <2>2. IsSequence(IncludesUpTo(params)[next - 1])
    BY <1>1, <1>2, IncludesSteps
  <2> QED BY <2>1, <2>2 DEF IsSequence
<1>5. SortsBefore(params, next + 1) = SortsBefore(params, next)
  BY <1>1, OneFurther DEF Param
<1>6. result = "running" /\ result' = "running" /\ params' = params /\ next' - 1 = next
  BY <1>1 DEF Parsing, Advance
<1>7. next' = next + 1
  BY DEF Advance
<1> QED BY <1>3, <1>4, <1>5, <1>6, <1>7 DEF AskedInv, FiltersAre

LEMMA NoOverridePassed ==
  ASSUME ParseTypes, OpsInv, Parsing, Advance, ~IsOverride(Param), ops' = ops
  PROVE  OpsInv'
<1>1. IsSequence(params) /\ next \in 1 .. Len(params)
  BY SequenceFacts DEF ParseTypes, Parsing
<1>2. Passed(params, next + 1) = Passed(params, next)
  BY <1>1, OneFurther DEF Param
<1>3. result = "running" /\ result' = "running" /\ params' = params /\ next' = next + 1
  BY DEF Parsing, Advance
<1>4. ASSUME NEW f, LastsAgree(ops, params, next, f)
      PROVE  LastsAgree(ops, params, next + 1, f)
  BY <1>2, <1>4 DEF LastsAgree, PassedOf
<1> QED BY <1>2, <1>3, <1>4 DEF OpsInv, OverridesReachFilters

LEMMA StartKeeps ==
  ASSUME ParseInv, Start
  PROVE  ParseInv'
<1>1. /\ IsSequence(params) /\ out = NoQuery /\ held = {} /\ ops = <<>> /\ next = 1
      /\ ParseTypes /\ HeldInv /\ OpsInv
      /\ \A k \in DOMAIN params : params[k] \in Params
  BY DEF ParseInv, ParseTypes, HeldInv, Start
<1>2. params' = params /\ out' = out /\ ops' = ops /\ next' = next
  BY DEF Start
<1>3. ParseTypes'
  BY <1>1, <1>2 DEF Start, ParseTypes
<1>4. HeldInv'
  BY <1>1, <1>2, EmptySequence DEF Start, HeldInv, Arrays, NoQuery
<1>5. AskedInv'
  <2>1. AskedUpTo(params)[1 - 1] = <<>> /\ IncludesUpTo(params)[1 - 1] = <<>>
    <3>1. AskedUpTo(params)[0] = <<>> /\ IncludesUpTo(params)[0] = <<>>
      BY <1>1, AskedSteps, IncludesSteps, Zenon
    <3> QED BY <3>1
  <2>2. LastSort(params, SortsBefore(params, 1)) = NULL
    BY <1>1, NothingPassed DEF LastSort
  <2> QED BY <1>1, <1>2, <2>1, <2>2, EmptySequence DEF AskedInv, NoQuery, FiltersAre
<1>6. OpsInv'
  <2>1. OverridesReachFilters'
    BY <1>1, <1>2, EmptySequence DEF OverridesReachFilters, NoQuery
  <2>2. ASSUME NEW f, LastsAgree(ops, params, next, f)
        PROVE  LastsAgree(ops', params', next', f)
    BY <1>2, <2>2
  <2> QED BY <1>1, <1>2, <2>1, <2>2 DEF OpsInv, Start
<1> QED BY <1>3, <1>4, <1>5, <1>6 DEF ParseInv

LEMMA SkipKeeps ==
  ASSUME ParseInv, SkipParam
  PROVE  ParseInv'
<1>1. ParseTypes /\ HeldInv /\ AskedInv /\ OpsInv /\ Parsing /\ Advance
  BY DEF ParseInv, SkipParam
<1>2. ~IsFilter(Param) /\ ~IsSort(Param) /\ IncludesOf(Param) = <<>>
  BY DEF SkipParam, IsFilter, IsSort, IsSetting, IncludesOf, Named, Ignored, Settings,
         Text
<1>3. ~IsOverride(Param)
  BY DEF SkipParam, IsOverride, Named
<1>4. out' = out /\ ops' = ops /\ held' = held
  BY DEF SkipParam
<1>5. ParseTypes' /\ HeldInv'
  BY <1>1, <1>4 DEF ParseTypes, HeldInv, Parsing, Advance
<1>6. AskedInv'
  BY <1>1, <1>2, <1>4, NothingAsked
<1>7. OpsInv'
  BY <1>1, <1>3, <1>4, NoOverridePassed
<1> QED BY <1>5, <1>6, <1>7 DEF ParseInv

LEMMA SettingKeeps ==
  ASSUME ParseInv, Setting
  PROVE  ParseInv'
<1>1. ParseTypes /\ HeldInv /\ AskedInv /\ OpsInv /\ Parsing /\ Advance
  BY DEF ParseInv, Setting, Named
<1>2. ops' = ops /\ held' = held /\ Param.name \in Settings
  BY DEF Setting, Named
<1>3. ~IsFilter(Param) /\ IncludesOf(Param) = <<>> /\ ~IsOverride(Param)
  BY DEF Setting, IsFilter, IsOverride, IncludesOf, Named, Ignored, Settings
<1>4. /\ out' = [part \in QueryParts |-> out'[part]]
      /\ out'.filters = out.filters /\ out'.include = out.include
      /\ Param.name # "sort" => out'.sort_field = out.sort_field
      /\ Param.name = "sort" => out'.sort_field = SortSpec(Text).field
  <2>1. out = [part \in QueryParts |-> out[part]]
    BY <1>1 DEF ParseTypes
  <2>2. CASE Param.name = "sort"
    <3>1. out' = WithSort(out, SortSpec(Text))
      BY <2>2 DEF Setting
    <3> QED BY <2>1, <2>2, <3>1 DEF WithSort, QueryParts
  <2>3. CASE Param.name = "page"
    <3>1. out' = [out EXCEPT !.page = Atol(Text) % 2 ^ Width]
      BY <2>3 DEF Setting
    <3> QED BY <2>1, <2>3, <3>1 DEF QueryParts
  <2>4. CASE Param.name = "per_page"
    <3>1. out' = [out EXCEPT !.per_page = Atol(Text) % 2 ^ Width]
      BY <2>4 DEF Setting
    <3> QED BY <2>1, <2>4, <3>1 DEF QueryParts
  <2>5. CASE Param.name = "q"
    <3>1. out' = [out EXCEPT !.q = Text]
      BY <2>5 DEF Setting
    <3> QED BY <2>1, <2>5, <3>1 DEF QueryParts
  <2> QED BY <1>2, <2>2, <2>3, <2>4, <2>5 DEF Settings
<1>5. ParseTypes' /\ HeldInv'
  BY <1>1, <1>2, <1>4 DEF ParseTypes, HeldInv, Parsing, Advance, Arrays
<1>6. AskedInv'
  <2>1. CASE Param.name # "sort"
    BY <1>1, <1>3, <1>4, <2>1, NothingAsked DEF IsSort, IsSetting
  <2>2. CASE Param.name = "sort"
    <3>1. /\ IsSequence(params) /\ next \in 1 .. Len(params) /\ Len(params) \in Nat
          /\ \A k \in DOMAIN params : params[k] \in Params
          /\ next - 1 \in 0 .. Len(params) /\ (next + 1) - 1 = next
      BY <1>1, SequenceFacts DEF ParseTypes, Parsing
    <3>2. IsSort(params[next]) /\ ~IsFilter(params[next]) /\ IncludesOf(params[next]) = <<>>
      BY <1>3, <2>2 DEF IsSort, IsSetting, Setting, Named, Param
    <3>3. AskedUpTo(params)[next] = AskedUpTo(params)[next - 1]
      BY <3>1, <3>2, AskedSteps
    <3>4. IncludesUpTo(params)[next] = IncludesUpTo(params)[next - 1]
      <4>1. IncludesUpTo(params)[next] = IncludesUpTo(params)[next - 1] \o <<>>
        BY <3>1, <3>2, IncludesSteps
      <4>2. IsSequence(IncludesUpTo(params)[next - 1])
        BY <3>1, IncludesSteps
      <4> QED BY <4>1, <4>2 DEF IsSequence
    <3>5. LastSort(params, SortsBefore(params, next + 1)) = out'.sort_field
      BY <1>4, <2>2, <3>1, <3>2, OneFurther DEF Text, Param
    <3>6. result = "running" /\ params' = params /\ next' = next + 1
      BY <1>1 DEF Parsing, Advance
    <3> QED BY <1>1, <1>4, <3>1, <3>3, <3>4, <3>5, <3>6 DEF AskedInv, FiltersAre
  <2> QED BY <2>1, <2>2
<1>7. OpsInv'
  BY <1>1, <1>2, <1>3, NoOverridePassed
<1> QED BY <1>5, <1>6, <1>7 DEF ParseInv

(* An override is recorded as long as there is room for all of them.       *)
LEMMA OverrideKeeps ==
  ASSUME ParseInv, RecordOverride
  PROVE  ParseInv'
<1>1. ParseTypes /\ HeldInv /\ AskedInv /\ OpsInv /\ Parsing /\ Advance
  BY DEF ParseInv, RecordOverride
<1>2. /\ IsSequence(params) /\ next \in 1 .. Len(params) /\ Len(params) \in Nat
      /\ DOMAIN params = 1 .. Len(params) /\ IsSequence(ops)
      /\ next \in 1 .. Len(params) + 1 /\ next + 1 \in 1 .. Len(params) + 1
  BY <1>1, SequenceFacts DEF ParseTypes, Parsing
<1>3. /\ ~IsFilter(Param) /\ ~IsSort(Param) /\ IncludesOf(Param) = <<>>
      /\ Param.text # NULL /\ Param.override /\ out' = out /\ held' = held
  BY DEF RecordOverride, IsFilter, IsSort, IsSetting, IncludesOf
<1>4. IsSequence(ops')
  BY <1>2, SequenceAppend DEF RecordOverride
<1>5. ParseTypes' /\ HeldInv'
  BY <1>1, <1>3, <1>4 DEF ParseTypes, HeldInv, Parsing, Advance
<1>6. AskedInv'
  BY <1>1, <1>3, NothingAsked
<1>7. OpsInv'
  <2>1. CASE ~IsOverride(Param)
    <3>1. ops' = ops
      BY <1>3, <2>1 DEF IsOverride, RecordOverride, Text
    <3> QED BY <1>1, <2>1, <3>1, NoOverridePassed
  <2>2. CASE IsOverride(Param)
    <3> DEFINE f0 == Param.name
               new == [field |-> f0, op |-> Text]
    <3>1. /\ result = "running" /\ result' = "running"
          /\ params' = params /\ next' = next + 1
      BY <1>1 DEF Parsing, Advance
    <3>2. SUFFICES ASSUME Cardinality(Passed(params, Len(params) + 1)) <= MaxOps
                   PROVE  /\ Len(ops') = Cardinality(Passed(params, next + 1))
                          /\ \A f : LastsAgree(ops', params, next + 1, f)
      BY <3>1 DEF OpsInv, OverridesReachFilters
    <3>3. /\ Passed(params, next + 1) = Passed(params, next) \cup {next}
          /\ next \notin Passed(params, next)
      BY <1>2, <2>2, OneFurther DEF Param
    <3>4. /\ Len(ops) = Cardinality(Passed(params, next))
          /\ \A f : LastsAgree(ops, params, next, f)
      BY <1>1, <3>1, <3>2 DEF OpsInv
    <3>5. Cardinality(Passed(params, next + 1)) = Len(ops) + 1
      <4>1. IsFiniteSet(Passed(params, next))
        BY <1>2, PassedAreFew
      <4> QED BY <3>3, <3>4, <4>1, FS_AddElement
    <3>6. Len(ops) < MaxOps
      <4>1. Cardinality(Passed(params, next + 1)) <= Cardinality(Passed(params, Len(params) + 1))
        BY <1>2, PassedAreFew
      <4>2. Cardinality(Passed(params, Len(params) + 1)) \in Nat
        BY <1>2, PassedAreFew
      <4> QED BY <1>2, <3>2, <3>5, <4>1, <4>2, SequenceFacts, QueryParseAssumption
    <3>7. ops' = Append(ops, new)
      BY <2>2, <3>6 DEF RecordOverride, IsOverride, Text
    <3>8. /\ Len(ops) \in Nat /\ DOMAIN ops = 1 .. Len(ops)
          /\ Len(ops') = Len(ops) + 1 /\ DOMAIN ops' = 1 .. Len(ops) + 1
          /\ \A j \in 1 .. Len(ops) : ops'[j] = ops[j]
          /\ ops'[Len(ops) + 1] = new
      BY <1>2, <1>4, <3>7, SequenceAppend, SequenceFacts
    <3>9. ASSUME NEW f, f # f0
          PROVE  LastsAgree(ops', params, next + 1, f)
      <4>1. OpsOf(ops', f) = OpsOf(ops, f)
        <5>1. new.field = f0
          OBVIOUS
        <5> HIDE DEF new, f0
        <5> QED BY <3>8, <3>9, <5>1 DEF OpsOf
      <4>2. PassedOf(params, next + 1, f) = PassedOf(params, next, f)
        BY <3>3, <3>9 DEF PassedOf, Param
      <4>3. \A j \in OpsOf(ops, f) : ops'[j] = ops[j]
        BY <3>8 DEF OpsOf
      <4> QED BY <3>4, <4>1, <4>2, <4>3 DEF LastsAgree, IsLast
    <3>10. LastsAgree(ops', params, next + 1, f0)
      <4>1. Len(ops) + 1 \in OpsOf(ops', f0)
        BY <3>8 DEF OpsOf
      <4>2. \A j : IsLast(j, OpsOf(ops', f0)) => j = Len(ops) + 1
        BY <3>8, <4>1 DEF IsLast, OpsOf
      <4>3. IsLast(next, PassedOf(params, next + 1, f0))
        <5>1. next \in PassedOf(params, next + 1, f0)
          BY <3>3 DEF PassedOf, Param
        <5>2. \A k \in PassedOf(params, next + 1, f0) : k <= next
          BY <1>2 DEF PassedOf, Passed
        <5> QED BY <5>1, <5>2 DEF IsLast
      <4>4. ops'[Len(ops) + 1].op = Decode(params[next].text)
        BY <3>8 DEF Text, Param
      <4> HIDE DEF f0
      <4> QED BY <4>1, <4>2, <4>3, <4>4 DEF LastsAgree
    <3> QED BY <3>5, <3>8, <3>9, <3>10
  <2> QED BY <2>1, <2>2
<1> QED BY <1>5, <1>6, <1>7 DEF ParseInv

LEMMA NoMemoryKeeps ==
  ASSUME ParseInv, OutOfMemory
  PROVE  ParseInv'
<1>1. ParseTypes'
  <2>1. out = [part \in QueryParts |-> out[part]]
    BY DEF ParseInv, ParseTypes
  <2>2. /\ out' = [part \in QueryParts |-> out'[part]]
        /\ out'.filters = <<>> /\ out'.include = <<>>
    BY <2>1 DEF OutOfMemory, QueryParts
  <2> QED BY <2>2, EmptySequence DEF ParseInv, ParseTypes, OutOfMemory
<1>2. HeldInv'
  <2>1. out = [part \in QueryParts |-> out[part]]
    BY DEF ParseInv, ParseTypes
  <2> QED BY <2>1 DEF OutOfMemory, HeldInv, QueryParts
<1>3. AskedInv' /\ OpsInv'
  BY DEF OutOfMemory, AskedInv, OpsInv, OverridesReachFilters
<1> QED BY <1>1, <1>2, <1>3 DEF ParseInv

LEMMA IncludeKeeps ==
  ASSUME ParseInv, Include
  PROVE  ParseInv'
<1> DEFINE new == [k \in DOMAIN Pieces(Text) |-> Decode(Pieces(Text)[k])]
<1>1. ParseTypes /\ HeldInv /\ AskedInv /\ OpsInv /\ Parsing
  BY DEF ParseInv, Include, Named
<1>2. /\ IsSequence(params) /\ next \in 1 .. Len(params) /\ Len(params) \in Nat
      /\ next - 1 \in 0 .. Len(params) /\ (next + 1) - 1 = next
      /\ \A k \in DOMAIN params : params[k] \in Params
      /\ Param \in Params /\ IsSequence(out.include)
  BY <1>1, SequenceFacts DEF ParseTypes, Parsing, Param
<1>3. CASE OutOfMemory
  BY <1>3, NoMemoryKeeps
<1>4. CASE ~OutOfMemory
  <2>1. Advance /\ ops' = ops /\ held' = held \cup {"include"}
    BY <1>4 DEF Include
  <2>2. out' = [out EXCEPT !.include = @ \o new]
    BY <1>4 DEF Include
  <2>3. out = [part \in QueryParts |-> out[part]]
    BY <1>1 DEF ParseTypes
  <2>4. Param.text # NULL /\ ~Param.override /\ Param.name = "include"
    BY DEF Include, Named
  <2>5. IncludesOf(Param) = new
    BY <2>4 DEF IncludesOf, Text
  <2>6. IsSequence(new) /\ new # <<>>
    BY <1>2, <2>4, <2>5, IncludesOfParam DEF Text
  <2> HIDE DEF new
  <2>7. /\ out' = [part \in QueryParts |-> out'[part]]
        /\ out'.filters = out.filters /\ out'.include = out.include \o new
        /\ out'.sort_field = out.sort_field
    BY <2>2, <2>3 DEF QueryParts
  <2>8. IsSequence(out'.include) /\ out'.include # <<>>
    <3>1. Len(new) \in Nat /\ Len(new) # 0 /\ Len(out.include) \in Nat
      BY <1>2, <2>6, SequenceFacts
    <3>2. IsSequence(out.include \o new) /\ Len(out.include \o new) = Len(out.include) + Len(new)
      BY <1>2, <2>6, SequenceConcat
    <3> QED BY <2>7, <3>1, <3>2, SequenceFacts
  <2>9. ParseTypes'
    BY <1>1, <2>1, <2>7, <2>8 DEF ParseTypes, Parsing, Advance
  <2>10. HeldInv'
    <3>1. Arrays(out') = Arrays(out) \cup {"include"}
      BY <2>7, <2>8 DEF Arrays
    <3> QED BY <1>1, <2>1, <3>1 DEF HeldInv, Parsing, Advance
  <2>11. /\ ~IsFilter(params[next]) /\ ~IsSort(params[next]) /\ ~IsOverride(Param)
    BY <2>4 DEF IsFilter, IsSort, IsSetting, IsOverride, Param, Settings, Ignored
  <2>12. AskedInv'
    <3>1. AskedUpTo(params)[next] = AskedUpTo(params)[next - 1]
      BY <1>2, <2>11, AskedSteps
    <3>2. IncludesUpTo(params)[next] = IncludesUpTo(params)[next - 1] \o new
      BY <1>2, <2>5, IncludesSteps DEF Param
    <3>3. SortsBefore(params, next + 1) = SortsBefore(params, next)
      BY <1>2, <2>11, OneFurther
    <3>4. result = "running" /\ params' = params /\ next' = next + 1
      BY <1>1, <2>1 DEF Parsing, Advance
    <3> QED BY <1>1, <1>2, <2>7, <3>1, <3>2, <3>3, <3>4 DEF AskedInv, FiltersAre
  <2>13. OpsInv'
    BY <1>1, <2>1, <2>11, NoOverridePassed
  <2> QED BY <2>9, <2>10, <2>12, <2>13 DEF ParseInv
<1> QED BY <1>3, <1>4

LEMMA FilterParamKeeps ==
  ASSUME ParseInv, Filter
  PROVE  ParseInv'
<1> DEFINE new == [field |-> Param.name, value |-> Text, op |-> NULL]
<1>1. ParseTypes /\ HeldInv /\ AskedInv /\ OpsInv /\ Parsing
  BY DEF ParseInv, Filter
<1>2. /\ IsSequence(params) /\ next \in 1 .. Len(params) /\ Len(params) \in Nat
      /\ next - 1 \in 0 .. Len(params) /\ (next + 1) - 1 = next
      /\ \A k \in DOMAIN params : params[k] \in Params
      /\ Param \in Params /\ IsSequence(out.filters)
  BY <1>1, SequenceFacts DEF ParseTypes, Parsing, Param
<1>3. CASE OutOfMemory
  BY <1>3, NoMemoryKeeps
<1>4. CASE ~OutOfMemory
  <2>1. Advance /\ ops' = ops /\ held' = held \cup {"filters"}
    BY <1>4 DEF Filter
  <2>2. out' = [out EXCEPT !.filters = Append(@, new)]
    BY <1>4 DEF Filter
  <2>3. out = [part \in QueryParts |-> out[part]]
    BY <1>1 DEF ParseTypes
  <2>4. IsFilter(Param) /\ ~Param.override /\ Param.name \notin {"sort", "include"}
    BY DEF Filter, IsFilter, Text, Settings
  <2>5. ~IsSort(Param) /\ IncludesOf(Param) = <<>> /\ ~IsOverride(Param)
    BY <2>4 DEF IsSort, IsSetting, IncludesOf, IsOverride
  <2>6. new.field = Param.name /\ new.value = Decode(Param.text)
    BY DEF Text
  <2> HIDE DEF new
  <2>7. /\ out' = [part \in QueryParts |-> out'[part]]
        /\ out'.include = out.include /\ out'.filters = Append(out.filters, new)
        /\ out'.sort_field = out.sort_field
    BY <2>2, <2>3 DEF QueryParts
  <2>8. IsSequence(out'.filters) /\ out'.filters # <<>>
    BY <1>2, <2>7, SequenceAppend, SequenceFacts
  <2>9. ParseTypes'
    BY <1>1, <2>1, <2>7, <2>8 DEF ParseTypes, Parsing, Advance
  <2>10. HeldInv'
    <3>1. Arrays(out') = Arrays(out) \cup {"filters"}
      BY <2>7, <2>8 DEF Arrays
    <3> QED BY <1>1, <2>1, <3>1 DEF HeldInv, Parsing, Advance
  <2>11. AskedInv'
    <3> DEFINE asked == AskedUpTo(params)[next - 1]
               more == AskedUpTo(params)[next]
    <3>1. more = Append(asked, Param) /\ IsSequence(asked)
      BY <1>2, <2>4, AskedSteps DEF Param
    <3>2. IncludesUpTo(params)[next] = IncludesUpTo(params)[next - 1]
      <4>1. IncludesUpTo(params)[next] = IncludesUpTo(params)[next - 1] \o <<>>
        BY <1>2, <2>5, IncludesSteps DEF Param
      <4>2. IsSequence(IncludesUpTo(params)[next - 1])
        BY <1>2, IncludesSteps
      <4> QED BY <4>1, <4>2 DEF IsSequence
    <3>3. SortsBefore(params, next + 1) = SortsBefore(params, next)
      BY <1>2, <2>5, OneFurther DEF Param
    <3>4. result = "running" /\ params' = params /\ next' = next + 1
      BY <1>1, <2>1 DEF Parsing, Advance
    <3>5. /\ FiltersAre(out.filters, asked)
          /\ out.sort_field = LastSort(params, SortsBefore(params, next))
          /\ out.include = IncludesUpTo(params)[next - 1]
      BY <1>1, <3>4 DEF AskedInv
    <3> HIDE DEF asked, more
    <3>6. FiltersAre(Append(out.filters, new), Append(asked, Param))
      BY <1>2, <2>6, <3>1, <3>5, SequenceAppend, SequenceFacts DEF FiltersAre
    <3>7. FiltersAre(out'.filters, more)
      BY <2>7, <3>1, <3>6
    <3> USE DEF more
    <3> QED BY <1>2, <2>7, <3>2, <3>3, <3>4, <3>5, <3>7 DEF AskedInv
  <2>12. OpsInv'
    BY <1>1, <2>1, <2>5, NoOverridePassed
  <2> QED BY <2>9, <2>10, <2>11, <2>12 DEF ParseInv
<1> QED BY <1>3, <1>4

(* The last override that was recorded is the last that was passed.        *)
LEMMA LastOpIsLast ==
  ASSUME ParseTypes, NEW f, LastsAgree(ops, params, Len(params) + 1, f)
  PROVE  IF Overrides(f) = {} THEN LastOp(f) = NULL
         ELSE \E k \in Overrides(f) : /\ \A j \in Overrides(f) : j <= k
                                      /\ LastOp(f) = Decode(params[k].text)
<1> DEFINE of == OpsOf(ops, f)
<1>1. /\ IsSequence(params) /\ DOMAIN params = 1 .. Len(params) /\ Len(params) \in Nat
      /\ IsSequence(ops) /\ DOMAIN ops = 1 .. Len(ops) /\ Len(ops) \in Nat
  BY SequenceFacts DEF ParseTypes
<1>2. Overrides(f) = PassedOf(params, Len(params) + 1, f)
  BY <1>1 DEF Overrides, PassedOf, Passed, IsOverride
<1>3. LastOp(f) = IF of = {} THEN NULL ELSE ops[CHOOSE j \in of : \A k \in of : k <= j].op
  BY DEF LastOp, OpsOf
<1>4. CASE of = {}
  BY <1>2, <1>3, <1>4 DEF LastsAgree
<1>5. CASE of # {}
  <2>1. \E j \in of : \A k \in of : k <= j
    <3> DEFINE below == { Len(ops) - j : j \in of }
    <3>1. below \in SUBSET Nat /\ below # {}
      BY <1>1, <1>5 DEF OpsOf
    <3>2. PICK m \in below : \A i \in below : m <= i
      <4> HIDE DEF below
      <4> QED BY <3>1, FirstExists
    <3>3. PICK j \in of : m = Len(ops) - j
      BY <3>2
    <3>4. \A k \in of : Len(ops) - j <= Len(ops) - k
      BY <3>2, <3>3
    <3>5. \A k \in of : k \in Nat
      BY <1>1 DEF OpsOf
    <3> QED BY <1>1, <3>3, <3>4, <3>5
  <2> DEFINE last == CHOOSE j \in of : \A k \in of : k <= j
  <2>2. IsLast(last, of)
    <3> HIDE DEF of
    <3> QED BY <2>1 DEF IsLast
  <2> HIDE DEF last
  <2>3. PICK k : /\ IsLast(k, PassedOf(params, Len(params) + 1, f))
                 /\ ops[last].op = Decode(params[k].text)
    BY <2>2 DEF LastsAgree
  <2>4. LastOp(f) = ops[last].op
    BY <1>3, <1>5 DEF last
  <2> QED BY <1>2, <2>3, <2>4 DEF IsLast
<1> QED BY <1>4, <1>5

LEMMA FinishKeeps ==
  ASSUME ParseInv, Finish
  PROVE  ParseInv'
<1> DEFINE done == [k \in DOMAIN out.filters |->
                      [field |-> out.filters[k].field, value |-> out.filters[k].value,
                       op |-> LastOp(out.filters[k].field)]]
<1>1. ParseTypes /\ HeldInv /\ AskedInv /\ OpsInv
  BY DEF ParseInv
<1>2. /\ result = "running" /\ result' = "ok" /\ params' = params /\ next' = next
      /\ ops' = ops /\ held' = held \ {"names", "values"}
  BY DEF Finish
<1>3. Len(params) \in Nat /\ next = Len(params) + 1 /\ IsSequence(out.filters)
  BY <1>1, SequenceFacts DEF ParseTypes, Finish
<1>4. out' = [out EXCEPT !.filters = done]
  BY DEF Finish
<1>5. /\ DOMAIN done = DOMAIN out.filters /\ done = [k \in DOMAIN done |-> done[k]]
      /\ \A k \in DOMAIN out.filters :
           /\ done[k].field = out.filters[k].field /\ done[k].value = out.filters[k].value
           /\ done[k].op = LastOp(out.filters[k].field)
  OBVIOUS
<1> HIDE DEF done
<1>6. IsSequence(done) /\ Len(done) = Len(out.filters) /\ DOMAIN done = 1 .. Len(done)
  BY <1>3, <1>5, SequenceMap, SequenceFacts
<1>7. out = [part \in QueryParts |-> out[part]]
  BY <1>1 DEF ParseTypes
<1>8. /\ out' = [part \in QueryParts |-> out'[part]]
      /\ out'.filters = done /\ out'.include = out.include
      /\ out'.sort_field = out.sort_field
  BY <1>4, <1>7 DEF QueryParts
<1>9. ParseTypes'
  BY <1>1, <1>2, <1>6, <1>8 DEF ParseTypes
<1>10. HeldInv'
  <2>1. out.filters = <<>> <=> done = <<>>
    BY <1>3, <1>6, SequenceFacts
  <2>2. Arrays(out') = Arrays(out)
    BY <1>8, <2>1 DEF Arrays
  <2> QED BY <1>1, <1>2, <1>3, <2>2 DEF HeldInv, Arrays
<1>11. AskedInv'
  <2>1. /\ FiltersAre(out.filters, AskedUpTo(params)[next - 1])
        /\ out.include = IncludesUpTo(params)[next - 1]
        /\ out.sort_field = LastSort(params, SortsBefore(params, next))
    BY <1>1, <1>2 DEF AskedInv
  <2>2. FiltersAre(done, AskedUpTo(params)[next - 1])
    BY <1>3, <1>5, <1>6, <2>1, SequenceFacts DEF FiltersAre
  <2> QED BY <1>2, <1>8, <2>1, <2>2 DEF AskedInv
<1>12. OpsInv'
  <2>1. SUFFICES OverridesReachFilters'
    BY <1>2 DEF OpsInv
  <2>2. (\A f : Overrides(f) = Overrides(f)') /\ OverridesFit' = OverridesFit
    BY <1>2 DEF Overrides, OverridesFit
  <2>3. SUFFICES ASSUME OverridesFit, NEW n \in DOMAIN out'.filters
                 PROVE  LET last == Overrides(out'.filters[n].field)
                        IN IF last = {} THEN out'.filters[n].op = NULL
                           ELSE \E k \in last : /\ \A j \in last : j <= k
                                                /\ out'.filters[n].op = Decode(params[k].text)
    BY <1>2, <2>2 DEF OverridesReachFilters, OverridesFit, Overrides
  <2>4. Cardinality(Passed(params, Len(params) + 1)) <= MaxOps
    <3>1. Passed(params, Len(params) + 1)
            = { k \in DOMAIN params : k \in Overrides(params[k].name) }
      <4>1. DOMAIN params = 1 .. Len(params)
        BY <1>1, SequenceFacts DEF ParseTypes
      <4> QED BY <1>3, <4>1 DEF Passed, IsOverride, Overrides
    <3> QED BY <2>3, <3>1 DEF OverridesFit
  <2>5. LastsAgree(ops, params, Len(params) + 1, out.filters[n].field)
    BY <1>1, <1>2, <1>3, <2>4 DEF OpsInv
  <2>6. /\ out'.filters[n].field = out.filters[n].field
        /\ out'.filters[n].op = LastOp(out.filters[n].field)
    BY <1>5, <1>8
  <2> QED BY <1>1, <2>5, <2>6, LastOpIsLast
<1> QED BY <1>9, <1>10, <1>11, <1>12 DEF ParseInv

LEMMA ClearKeeps ==
  ASSUME ParseInv, QueryClear
  PROVE  ParseInv'
<1>1. out = [part \in QueryParts |-> out[part]]
  BY DEF ParseInv, ParseTypes
<1>2. /\ out' = [part \in QueryParts |-> out'[part]]
      /\ out'.filters = <<>> /\ out'.include = <<>>
  BY <1>1 DEF QueryClear, QueryParts
<1>3. ParseTypes'
  BY <1>2, EmptySequence DEF ParseInv, ParseTypes, QueryClear
<1>4. HeldInv'
  BY <1>2 DEF ParseInv, HeldInv, QueryClear, Arrays
<1>5. AskedInv' /\ OpsInv'
  BY DEF QueryClear, AskedInv, OpsInv, OverridesReachFilters
<1> QED BY <1>3, <1>4, <1>5 DEF ParseInv

LEMMA ParseKeeps ==
  ASSUME ParseInv, ParseNext
  PROVE  ParseInv'
BY StartKeeps, SkipKeeps, OverrideKeeps, SettingKeeps, IncludeKeeps, FilterParamKeeps, FinishKeeps,
   ClearKeeps DEF ParseNext

LEMMA ParseStays ==
  ASSUME ParseInv, UNCHANGED parseVars
  PROVE  ParseInv'
<1>1. /\ params' = params /\ next' = next /\ ops' = ops /\ out' = out
      /\ held' = held /\ result' = result
  BY DEF parseVars
<1>2. ParseTypes' /\ HeldInv' /\ AskedInv'
  BY <1>1 DEF ParseInv, ParseTypes, HeldInv, AskedInv
<1>3. OpsInv'
  <2>1. OverridesReachFilters'
    BY <1>1 DEF ParseInv, OpsInv, OverridesReachFilters, OverridesFit, Overrides
  <2> QED BY <1>1, <2>1 DEF ParseInv, OpsInv
<1> QED BY <1>2, <1>3 DEF ParseInv

-----------------------------------------------------------------------------
(* What the call has copied so far.                                        *)
Loops == {"filters", "include", "lookups"}
ManifestParts == {"base_source", "filter_list", "select", "lookups", "inlines", "sort_field",
                  "sort_asc", "query", "page", "per_page"}
ManifestArrays == {"filter_list", "select", "lookups", "inlines"}

KnownIn(id, name) == FieldIn(id, name) # NULL
TargetsIn(id, names) ==
  { FieldIn(id, n).target : n \in { n \in names : FieldIn(id, n).reference } } \ {NULL}

ManifestTypes ==
  /\ stage \in Loops \cup {"none", "ok", "unknown", "nomem"}
  /\ at \in Nat \ {0}
  /\ manifest = [part \in ManifestParts |-> manifest[part]]
  /\ \A array \in ManifestArrays : IsSequence(manifest[array])
  /\ stage \in Loops => result = "ok"

ManifestHeldInv ==
  /\ stage = "none" => manifest = NoManifest
  /\ stage \in {"none", "unknown", "nomem"} => manifestHeld = {}
  /\ stage \in Loops \cup {"ok"} =>
       manifestHeld = { array \in ManifestArrays : manifest[array] # <<>> }

Copied(id, filter) ==
  [field |-> filter.name, value |-> Decode(filter.text),
   is_reference |-> FieldIn(id, filter.name).reference]

(* The first n filters, and the first n included fields.                   *)
FiltersCopied(m, id, asked, n) ==
  /\ n <= Len(asked) /\ Len(m.filter_list) = n
  /\ \A i \in 1 .. n : m.filter_list[i] = Copied(id, asked[i]) /\ KnownIn(id, asked[i].name)

IncludesCopied(m, id, asked, n) ==
  /\ n <= Len(asked) /\ Len(m.select) = n
  /\ \A i \in 1 .. n : m.select[i] = asked[i] /\ KnownIn(id, asked[i])
  /\ IsInjective(m.inlines)
  /\ ToSet(m.inlines) = TargetsIn(id, { asked[i] : i \in 1 .. n })

LookupsFound(m, id, asked, n) ==
  /\ n <= Len(asked) /\ IsInjective(m.lookups)
  /\ ToSet(m.lookups) = TargetsIn(id, { asked[i].name : i \in 1 .. n })

CopiedInv ==
  /\ stage = "filters" =>
       /\ FiltersCopied(manifest, source_id, AskedFilters, at - 1)
       /\ manifest.select = <<>> /\ manifest.lookups = <<>> /\ manifest.inlines = <<>>
  /\ stage \in {"include", "lookups", "ok"} =>
       FiltersCopied(manifest, source_id, AskedFilters, Len(AskedFilters))
  /\ stage = "include" =>
       IncludesCopied(manifest, source_id, AskedIncludes, at - 1) /\ manifest.lookups = <<>>
  /\ stage \in {"lookups", "ok"} =>
       /\ IncludesCopied(manifest, source_id, AskedIncludes, Len(AskedIncludes))
       /\ manifest.sort_field = AskedSort
       /\ AskedSort # NULL => KnownIn(source_id, AskedSort)
  /\ stage = "lookups" => LookupsFound(manifest, source_id, AskedFilters, at - 1)
  /\ stage = "ok" => LookupsFound(manifest, source_id, AskedFilters, Len(AskedFilters))
  /\ stage = "unknown" => SourceById(source_id) = NULL \/ ~EveryNameIsKnown

ManifestInv == ManifestTypes /\ ManifestHeldInv /\ CopiedInv

LEMMA AskedSequences ==
  ASSUME ParseTypes
  PROVE  IsSequence(AskedFilters) /\ IsSequence(AskedIncludes)
<1>1. IsSequence(params) /\ \A k \in DOMAIN params : params[k] \in Params
  BY DEF ParseTypes
<1>2. Len(params) \in 0 .. Len(params)
  BY <1>1, SequenceFacts
<1> QED BY <1>1, <1>2, AskedSteps, IncludesSteps DEF AskedFilters, AskedIncludes

(* What the query says, and what was asked for.                            *)
LEMMA AskedByTheQuery ==
  ASSUME ParseInv, result = "ok"
  PROVE  /\ IsSequence(AskedFilters) /\ IsSequence(AskedIncludes)
         /\ Len(AskedFilters) \in Nat /\ DOMAIN AskedFilters = 1 .. Len(AskedFilters)
         /\ Len(AskedIncludes) \in Nat /\ DOMAIN AskedIncludes = 1 .. Len(AskedIncludes)
         /\ Len(out.filters) = Len(AskedFilters)
         /\ \A i \in 1 .. Len(AskedFilters) :
              /\ out.filters[i].field = AskedFilters[i].name
              /\ out.filters[i].value = Decode(AskedFilters[i].text)
         /\ out.include = AskedIncludes
         /\ out.sort_field = AskedSort
<1>1. /\ DOMAIN params = 1 .. Len(params) /\ Len(params) \in Nat
      /\ next = Len(params) + 1
  BY SequenceFacts DEF ParseInv, ParseTypes, HeldInv
<1>2. next - 1 = Len(params)
  BY <1>1
<1>3. FiltersAre(out.filters, AskedFilters) /\ out.include = AskedIncludes
  BY <1>2 DEF ParseInv, AskedInv, AskedFilters, AskedIncludes
<1>4. IsSequence(AskedFilters) /\ IsSequence(AskedIncludes)
  BY AskedSequences DEF ParseInv
<1>5. SortsBefore(params, next) = { k \in DOMAIN params : IsSort(params[k]) }
  BY <1>1 DEF SortsBefore
<1>6. out.sort_field = AskedSort
  BY <1>5 DEF ParseInv, AskedInv, AskedSort, Given, IsSort
<1> QED BY <1>3, <1>4, <1>6, SequenceFacts DEF FiltersAre

(* A target is added once.                                                 *)
LEMMA TargetAdded ==
  ASSUME NEW targets, IsSequence(targets), IsInjective(targets), NEW target
  PROVE  /\ IsSequence(AddTarget(targets, target)) /\ IsInjective(AddTarget(targets, target))
         /\ ToSet(AddTarget(targets, target)) = ToSet(targets) \cup {target}
         /\ AddTarget(targets, target) # <<>>
         /\ Contains(targets, target) => AddTarget(targets, target) = targets
<1>1. Contains(targets, target) <=> target \in ToSet(targets)
  BY SequenceFacts DEF Contains
<1>2. CASE Contains(targets, target)
  BY <1>1, <1>2, EmptySequence DEF AddTarget
<1>3. CASE ~Contains(targets, target)
  <2> DEFINE more == Append(targets, target)
  <2>1. /\ IsSequence(more) /\ Len(more) = Len(targets) + 1
        /\ ToSet(more) = ToSet(targets) \cup {target}
        /\ \A i \in 1 .. Len(targets) : more[i] = targets[i]
        /\ more[Len(targets) + 1] = target
    BY SequenceAppend
  <2>2. AddTarget(targets, target) = more
    BY <1>3 DEF AddTarget
  <2> HIDE DEF more
  <2>3. /\ Len(targets) \in Nat /\ DOMAIN targets = 1 .. Len(targets)
        /\ DOMAIN more = 1 .. Len(targets) + 1 /\ more # <<>>
        /\ \A i \in 1 .. Len(targets) : targets[i] # target
    BY <1>1, <1>3, <2>1, SequenceFacts
  <2>4. IsInjective(more)
    BY <2>1, <2>3 DEF IsInjective
  <2> QED BY <1>3, <2>1, <2>2, <2>3, <2>4
<1> QED BY <1>2, <1>3

(* The targets of one name more.                                           *)
LEMMA TargetsOfOneMore ==
  ASSUME NEW id, NEW names, NEW name
  PROVE  TargetsIn(id, names \cup {name}) =
           IF FieldIn(id, name).reference /\ FieldIn(id, name).target # NULL
           THEN TargetsIn(id, names) \cup {FieldIn(id, name).target}
           ELSE TargetsIn(id, names)
BY DEF TargetsIn

LEMMA NoTargets ==
  ASSUME NEW id
  PROVE  TargetsIn(id, {}) = {}
BY DEF TargetsIn

-----------------------------------------------------------------------------
LEMMA ManifestStarts ==
  ASSUME BlueprintInit
  PROVE  ManifestInv
<1>1. ManifestTypes
  BY EmptySequence DEF BlueprintInit, ManifestTypes, NoManifest, ManifestParts, ManifestArrays,
                       Loops
<1>2. ManifestHeldInv /\ CopiedInv
  BY DEF BlueprintInit, ManifestHeldInv, CopiedInv, Loops
<1> QED BY <1>1, <1>2 DEF ManifestInv

LEMMA SameNamesKnown ==
  ASSUME params' = params, source_id' = source_id
  PROVE  EveryNameIsKnown' <=> EveryNameIsKnown
BY DEF EveryNameIsKnown, Known, FieldByName, AskedFilters, AskedIncludes, AskedSort, Given

(* A step that leaves the manifest alone.                                  *)
LEMMA ManifestStays ==
  ASSUME ManifestInv, UNCHANGED manifestVars, params' = params,
         stage \in Loops => result' = "ok"
  PROVE  ManifestInv'
<1>1. /\ stage' = stage /\ at' = at /\ source_id' = source_id
      /\ manifest' = manifest /\ manifestHeld' = manifestHeld
  BY DEF manifestVars
<1>2. ManifestTypes' /\ ManifestHeldInv'
  BY <1>1 DEF ManifestInv, ManifestTypes, ManifestHeldInv
<1>3. /\ AskedFilters' = AskedFilters /\ AskedIncludes' = AskedIncludes
      /\ AskedSort' = AskedSort
  BY DEF AskedFilters, AskedIncludes, AskedSort, Given
<1>4. CopiedInv'
  BY <1>1, <1>3, SameNamesKnown DEF ManifestInv, CopiedInv
<1> QED BY <1>2, <1>4 DEF ManifestInv

LEMMA FailureKeeps ==
  ASSUME ManifestInv, UNCHANGED parseVars, NEW how \in {"unknown", "nomem"}, ManifestFail(how),
         how = "unknown" => ~EveryNameIsKnown
  PROVE  ManifestInv'
<1>1. /\ stage' = how /\ at' = at /\ source_id' = source_id
      /\ manifest' = NoManifest /\ manifestHeld' = {} /\ params' = params
  BY DEF ManifestFail, parseVars
<1>2. ManifestTypes'
  BY <1>1, EmptySequence DEF ManifestInv, ManifestTypes, NoManifest, ManifestParts,
                             ManifestArrays, Loops
<1>3. ManifestHeldInv'
  BY <1>1 DEF ManifestHeldInv, Loops
<1>4. CopiedInv'
  BY <1>1, SameNamesKnown DEF CopiedInv
<1> QED BY <1>2, <1>3, <1>4 DEF ManifestInv

LEMMA ManifestCallKeeps ==
  ASSUME ParseInv, ManifestInv, UNCHANGED parseVars, NEW id, ManifestCall(id)
  PROVE  ManifestInv'
<1>1. /\ result' = "ok" /\ manifest = NoManifest /\ at' = 1 /\ source_id' = id
      /\ manifestHeld' = {} /\ manifestHeld = {}
  BY DEF ManifestCall, parseVars, ManifestInv, ManifestHeldInv
<1>2. CASE SourceById(id) = NULL
  <2>1. stage' = "unknown" /\ manifest' = NoManifest
    BY <1>1, <1>2 DEF ManifestCall
  <2>2. ManifestTypes'
    BY <1>1, <2>1, EmptySequence DEF ManifestTypes, NoManifest, ManifestParts, ManifestArrays,
                                     Loops
  <2>3. ManifestHeldInv' /\ CopiedInv'
    BY <1>1, <1>2, <2>1 DEF ManifestHeldInv, CopiedInv, Loops
  <2> QED BY <2>2, <2>3 DEF ManifestInv
<1>3. CASE SourceById(id) # NULL
  <2>1. stage' = "filters" /\ manifest' = [NoManifest EXCEPT !.base_source = id]
    BY <1>1, <1>3 DEF ManifestCall
  <2>2. /\ manifest' = [part \in ManifestParts |-> manifest'[part]]
        /\ \A array \in ManifestArrays : manifest'[array] = <<>>
    <3>1. manifest = [part \in ManifestParts |-> manifest[part]]
      BY DEF ManifestInv, ManifestTypes
    <3>2. \A array \in ManifestArrays : manifest[array] = <<>>
      BY <1>1 DEF NoManifest, ManifestArrays
    <3> QED BY <1>1, <2>1, <3>1, <3>2 DEF ManifestParts, ManifestArrays
  <2>3. ManifestTypes'
    BY <1>1, <2>1, <2>2, EmptySequence DEF ManifestTypes, Loops
  <2>4. ManifestHeldInv'
    BY <1>1, <2>1, <2>2 DEF ManifestHeldInv, Loops
  <2>5. /\ manifest'.filter_list = <<>> /\ manifest'.select = <<>>
        /\ manifest'.lookups = <<>> /\ manifest'.inlines = <<>>
    BY <2>2 DEF ManifestArrays
  <2>6. Len(AskedFilters') \in Nat
    BY AskedByTheQuery DEF ManifestCall, AskedFilters, parseVars
  <2>7. FiltersCopied(manifest', source_id', AskedFilters', at' - 1)
    BY <1>1, <2>5, <2>6, EmptySequence DEF FiltersCopied
  <2>8. CopiedInv'
    BY <2>1, <2>5, <2>7 DEF CopiedInv
  <2> QED BY <2>3, <2>4, <2>8 DEF ManifestInv
<1> QED BY <1>2, <1>3

LEMMA AppendedNotEmpty ==
  ASSUME NEW s, NEW x, IsSequence(s)
  PROVE  IsSequence(Append(s, x)) /\ Append(s, x) # <<>>
<1>1. IsSequence(Append(s, x)) /\ Len(Append(s, x)) = Len(s) + 1 /\ Len(s) \in Nat
  BY SequenceAppend, SequenceFacts
<1> QED BY <1>1, EmptySequence

LEMMA ManifestFilterKeeps ==
  ASSUME ParseInv, ManifestInv, UNCHANGED parseVars, ManifestFilter
  PROVE  ManifestInv'
<1> DEFINE filter == out.filters[at]
           f == FieldByName(filter.field)
           new == [field |-> filter.field, value |-> filter.value,
                   is_reference |-> f.reference]
<1>1. /\ stage = "filters" /\ result = "ok" /\ result' = "ok" /\ params' = params
      /\ AskedFilters' = AskedFilters /\ at \in Nat \ {0}
  BY DEF ManifestInv, ManifestTypes, ManifestFilter, parseVars, Loops, AskedFilters
<1>2. /\ Len(AskedFilters) \in Nat /\ DOMAIN AskedFilters = 1 .. Len(AskedFilters)
      /\ at \in 1 .. Len(AskedFilters) /\ at - 1 \in Nat
      /\ filter.field = AskedFilters[at].name
      /\ filter.value = Decode(AskedFilters[at].text)
  BY <1>1, AskedByTheQuery DEF ManifestFilter
<1>3. /\ FiltersCopied(manifest, source_id, AskedFilters, at - 1)
      /\ manifest.select = <<>> /\ manifest.lookups = <<>> /\ manifest.inlines = <<>>
  BY <1>1 DEF ManifestInv, CopiedInv
<1>4. /\ manifest = [part \in ManifestParts |-> manifest[part]]
      /\ \A array \in ManifestArrays : IsSequence(manifest[array])
      /\ IsSequence(manifest.filter_list)
  BY DEF ManifestInv, ManifestTypes, ManifestArrays
<1>5. manifestHeld = { array \in ManifestArrays : manifest[array] # <<>> }
  BY <1>1 DEF ManifestInv, ManifestHeldInv, Loops
<1>6. f = FieldIn(source_id, AskedFilters[at].name)
  BY <1>2 DEF FieldByName
<1> HIDE DEF filter
<1>7. CASE f # NULL /\ NextName /\ manifestHeld' = manifestHeld \cup {"filter_list"}
             /\ manifest' = [manifest EXCEPT !.filter_list = Append(@, new)]
  <2>1. new = Copied(source_id, AskedFilters[at])
    BY <1>2, <1>6 DEF Copied
  <2> HIDE DEF new
  <2>2. stage' = stage /\ source_id' = source_id /\ at' = at + 1 /\ at' - 1 = at
    BY <1>1, <1>7 DEF NextName
  <2>3. /\ manifest' = [part \in ManifestParts |-> manifest'[part]]
        /\ manifest'.filter_list = Append(manifest.filter_list, new)
        /\ \A part \in ManifestParts : part # "filter_list" => manifest'[part] = manifest[part]
    BY <1>4, <1>7 DEF ManifestParts
  <2>4. IsSequence(manifest'.filter_list) /\ manifest'.filter_list # <<>>
    BY <1>4, <2>3, AppendedNotEmpty
  <2>5. \A array \in ManifestArrays : IsSequence(manifest'[array])
    BY <1>4, <2>3, <2>4 DEF ManifestArrays, ManifestParts
  <2>6. ManifestTypes'
    BY <1>1, <2>2, <2>3, <2>5 DEF ManifestTypes, Loops
  <2>7. manifestHeld' = { array \in ManifestArrays : manifest'[array] # <<>> }
    BY <1>5, <1>7, <2>3, <2>4 DEF ManifestArrays, ManifestParts
  <2>8. ManifestHeldInv'
    BY <1>1, <2>2, <2>7 DEF ManifestHeldInv, Loops
  <2>9. FiltersCopied(manifest', source_id', AskedFilters', at' - 1)
    <3>1. /\ Len(manifest.filter_list) = at - 1
          /\ \A i \in 1 .. at - 1 :
               /\ manifest.filter_list[i] = Copied(source_id, AskedFilters[i])
               /\ KnownIn(source_id, AskedFilters[i].name)
      BY <1>3 DEF FiltersCopied
    <3>2. /\ Len(manifest'.filter_list) = at
          /\ \A i \in 1 .. at - 1 : manifest'.filter_list[i] = manifest.filter_list[i]
          /\ manifest'.filter_list[at] = new
      BY <1>2, <1>4, <2>3, <3>1, SequenceAppend
    <3>3. KnownIn(source_id, AskedFilters[at].name)
      BY <1>6, <1>7 DEF KnownIn
    <3>4. \A i \in 1 .. at : i = at \/ i \in 1 .. at - 1
      BY <1>2
    <3>5. \A i \in 1 .. at : /\ manifest'.filter_list[i] = Copied(source_id, AskedFilters[i])
                             /\ KnownIn(source_id, AskedFilters[i].name)
      BY <2>1, <3>1, <3>2, <3>3, <3>4, Zenon
    <3> QED BY <1>1, <1>2, <2>2, <3>2, <3>5 DEF FiltersCopied
  <2>10. manifest'.select = <<>> /\ manifest'.lookups = <<>> /\ manifest'.inlines = <<>>
    BY <1>3, <2>3 DEF ManifestParts
  <2>11. CopiedInv'
    BY <1>1, <2>2, <2>9, <2>10 DEF CopiedInv
  <2> QED BY <2>6, <2>8, <2>11 DEF ManifestInv
<1>8. CASE f = NULL /\ ManifestFail("unknown")
  <2>1. ~EveryNameIsKnown
    BY <1>2, <1>6, <1>8 DEF EveryNameIsKnown, Known, FieldByName
  <2> QED BY <1>8, <2>1, FailureKeeps
<1>9. CASE at = 1 /\ stage' = "nomem" /\ UNCHANGED <<at, source_id, manifest, manifestHeld>>
  <2>1. manifest.filter_list = <<>>
    BY <1>2, <1>3, <1>4, <1>9, SequenceFacts DEF FiltersCopied
  <2>2. manifestHeld = {}
    BY <1>3, <1>5, <2>1 DEF ManifestArrays
  <2>3. ManifestTypes'
    BY <1>4, <1>9 DEF ManifestInv, ManifestTypes, Loops
  <2>4. ManifestHeldInv' /\ CopiedInv'
    BY <1>9, <2>2 DEF ManifestHeldInv, CopiedInv, Loops
  <2> QED BY <2>3, <2>4 DEF ManifestInv
<1> QED BY <1>7, <1>8, <1>9 DEF ManifestFilter, filter

LEMMA ManifestFiltersEndKeeps ==
  ASSUME ParseInv, ManifestInv, UNCHANGED parseVars, ManifestFiltersEnd
  PROVE  ManifestInv'
<1>1. /\ stage = "filters" /\ stage' = "include" /\ result = "ok" /\ result' = "ok"
      /\ AskedFilters' = AskedFilters /\ AskedIncludes' = AskedIncludes
      /\ at \in Nat \ {0} /\ at' = 1 /\ at' - 1 = 0
      /\ source_id' = source_id /\ manifest' = manifest /\ manifestHeld' = manifestHeld
  BY DEF ManifestInv, ManifestTypes, ManifestFiltersEnd, parseVars, Loops, AskedFilters,
         AskedIncludes, To
<1>2. /\ Len(AskedFilters) \in Nat /\ Len(AskedIncludes) \in Nat /\ at > Len(AskedFilters)
  BY <1>1, AskedByTheQuery DEF ManifestFiltersEnd
<1>3. ManifestTypes' /\ ManifestHeldInv'
  <2>1. ManifestTypes'
    BY <1>1 DEF ManifestInv, ManifestTypes, Loops
  <2>2. ManifestHeldInv'
    BY <1>1 DEF ManifestInv, ManifestHeldInv, Loops
  <2> QED BY <2>1, <2>2
<1>4. /\ FiltersCopied(manifest, source_id, AskedFilters, at - 1)
      /\ manifest.select = <<>> /\ manifest.lookups = <<>> /\ manifest.inlines = <<>>
  BY <1>1 DEF ManifestInv, CopiedInv
<1>5. at - 1 = Len(AskedFilters)
  BY <1>1, <1>2, <1>4 DEF FiltersCopied
<1>6. IncludesCopied(manifest, source_id, AskedIncludes, 0)
  <2>1. { AskedIncludes[i] : i \in 1 .. 0 } = {} /\ 0 <= Len(AskedIncludes)
    BY <1>2
  <2>2. /\ Len(manifest.select) = 0 /\ IsInjective(manifest.inlines)
        /\ ToSet(manifest.inlines) = TargetsIn(source_id, {})
    BY <1>4, NoTargets, EmptySequence
  <2> QED BY <2>1, <2>2 DEF IncludesCopied
<1>7. CopiedInv'
  BY <1>1, <1>4, <1>5, <1>6 DEF CopiedInv
<1> QED BY <1>3, <1>7 DEF ManifestInv

LEMMA ManifestIncludeKeeps ==
  ASSUME ParseInv, ManifestInv, UNCHANGED parseVars, ManifestInclude
  PROVE  ManifestInv'
<1> DEFINE name == AskedIncludes[at]
           f == FieldIn(source_id, name)
           targets == IF f.reference /\ f.target # NULL
                      THEN AddTarget(manifest.inlines, f.target) ELSE manifest.inlines
<1>1. /\ stage = "include" /\ result = "ok" /\ result' = "ok" /\ params' = params
      /\ AskedFilters' = AskedFilters /\ AskedIncludes' = AskedIncludes /\ at \in Nat \ {0}
  BY DEF ManifestInv, ManifestTypes, ManifestInclude, parseVars, Loops, AskedFilters,
         AskedIncludes
<1>2. /\ Len(AskedIncludes) \in Nat /\ DOMAIN AskedIncludes = 1 .. Len(AskedIncludes)
      /\ at \in 1 .. Len(AskedIncludes) /\ at - 1 \in Nat /\ out.include[at] = name
  BY <1>1, AskedByTheQuery DEF ManifestInclude
<1>3. /\ FiltersCopied(manifest, source_id, AskedFilters, Len(AskedFilters))
      /\ IncludesCopied(manifest, source_id, AskedIncludes, at - 1)
      /\ manifest.lookups = <<>>
  BY <1>1 DEF ManifestInv, CopiedInv
<1>4. /\ manifest = [part \in ManifestParts |-> manifest[part]]
      /\ \A array \in ManifestArrays : IsSequence(manifest[array])
      /\ IsSequence(manifest.select) /\ IsSequence(manifest.inlines)
  BY DEF ManifestInv, ManifestTypes, ManifestArrays
<1>5. manifestHeld = { array \in ManifestArrays : manifest[array] # <<>> }
  BY <1>1 DEF ManifestInv, ManifestHeldInv, Loops
<1>6. FieldByName(out.include[at]) = f
  BY <1>2 DEF FieldByName
<1> HIDE DEF name
<1>7. CASE f # NULL /\ NextName
             /\ manifestHeld' = manifestHeld \cup {"select"}
                  \cup (IF NeedsTarget(f, manifest.inlines) THEN {"inlines"} ELSE {})
             /\ manifest' = [manifest EXCEPT !.select = Append(@, name), !.inlines = targets]
  <2>1. stage' = stage /\ source_id' = source_id /\ at' = at + 1 /\ at' - 1 = at
    BY <1>1, <1>7 DEF NextName
  <2>2. /\ Len(manifest.select) = at - 1 /\ IsInjective(manifest.inlines)
        /\ \A i \in 1 .. at - 1 : /\ manifest.select[i] = AskedIncludes[i]
                                  /\ KnownIn(source_id, AskedIncludes[i])
        /\ ToSet(manifest.inlines) = TargetsIn(source_id, { AskedIncludes[i] : i \in 1 .. at - 1 })
    BY <1>3 DEF IncludesCopied
  <2>3. /\ IsSequence(targets) /\ IsInjective(targets)
        /\ ToSet(targets) = TargetsIn(source_id, { AskedIncludes[i] : i \in 1 .. at - 1 } \cup {name})
    <3> DEFINE names == { AskedIncludes[i] : i \in 1 .. at - 1 }
    <3>1. TargetsIn(source_id, names \cup {name}) =
            IF f.reference /\ f.target # NULL
            THEN TargetsIn(source_id, names) \cup {f.target} ELSE TargetsIn(source_id, names)
      BY TargetsOfOneMore, Zenon
    <3>2. ToSet(manifest.inlines) = TargetsIn(source_id, names)
      BY <2>2
    <3> HIDE DEF names
    <3>3. CASE f.reference /\ f.target # NULL
      <4>1. targets = AddTarget(manifest.inlines, f.target)
        BY <3>3
      <4>2. TargetsIn(source_id, names \cup {name}) = TargetsIn(source_id, names) \cup {f.target}
        BY <3>1, <3>3
      <4> HIDE DEF targets, f
      <4>3. /\ IsSequence(targets) /\ IsInjective(targets)
            /\ ToSet(targets) = ToSet(manifest.inlines) \cup {f.target}
        BY <1>4, <2>2, <4>1, TargetAdded, Zenon
      <4> QED BY <3>2, <4>2, <4>3 DEF names
    <3>4. CASE ~(f.reference /\ f.target # NULL)
      <4>1. targets = manifest.inlines
        BY <3>4
      <4>2. TargetsIn(source_id, names \cup {name}) = TargetsIn(source_id, names)
        BY <3>1, <3>4
      <4> HIDE DEF targets, f
      <4> QED BY <1>4, <2>2, <3>2, <4>1, <4>2 DEF names
    <3> QED BY <3>3, <3>4
  <2>4. /\ NeedsTarget(f, manifest.inlines) => targets # <<>>
        /\ ~NeedsTarget(f, manifest.inlines) => targets = manifest.inlines
    BY <1>4, <2>2, TargetAdded DEF NeedsTarget
  <2> HIDE DEF targets, f
  <2>5. /\ manifest' = [part \in ManifestParts |-> manifest'[part]]
        /\ manifest'.select = Append(manifest.select, name)
        /\ manifest'.inlines = targets
        /\ \A part \in ManifestParts :
             part \notin {"select", "inlines"} => manifest'[part] = manifest[part]
    <3> DEFINE m == [manifest EXCEPT !.select = Append(@, name)]
    <3>1. /\ m = [part \in ManifestParts |-> m[part]]
          /\ m.select = Append(manifest.select, name)
          /\ \A part \in ManifestParts : part # "select" => m[part] = manifest[part]
      BY <1>4 DEF ManifestParts
    <3>2. manifest' = [m EXCEPT !.inlines = targets]
      BY <1>7
    <3> HIDE DEF m
    <3> QED BY <3>1, <3>2 DEF ManifestParts
  <2>6. IsSequence(manifest'.select) /\ manifest'.select # <<>>
    BY <1>4, <2>5, AppendedNotEmpty
  <2>7. \A array \in ManifestArrays : IsSequence(manifest'[array])
    BY <1>4, <2>3, <2>5, <2>6 DEF ManifestArrays, ManifestParts
  <2>8. ManifestTypes'
    BY <1>1, <2>1, <2>5, <2>7 DEF ManifestTypes, Loops
  <2>9. manifestHeld' = { array \in ManifestArrays : manifest'[array] # <<>> }
    BY <1>5, <1>7, <2>4, <2>5, <2>6 DEF ManifestArrays, ManifestParts
  <2>10. ManifestHeldInv'
    BY <1>1, <2>1, <2>9 DEF ManifestHeldInv, Loops
  <2>11. IncludesCopied(manifest', source_id', AskedIncludes', at' - 1)
    <3>1. /\ Len(manifest'.select) = at
          /\ \A i \in 1 .. at - 1 : manifest'.select[i] = manifest.select[i]
          /\ manifest'.select[at] = AskedIncludes[at]
      BY <1>2, <1>4, <2>2, <2>5, SequenceAppend DEF name
    <3>2. KnownIn(source_id, AskedIncludes[at])
      BY <1>7 DEF KnownIn, f, name
    <3>3. \A i \in 1 .. at : i = at \/ i \in 1 .. at - 1
      BY <1>2
    <3>4. \A i \in 1 .. at : /\ manifest'.select[i] = AskedIncludes[i]
                             /\ KnownIn(source_id, AskedIncludes[i])
      BY <2>2, <3>1, <3>2, <3>3, Zenon
    <3>5. { AskedIncludes[i] : i \in 1 .. at }
            = { AskedIncludes[i] : i \in 1 .. at - 1 } \cup {name}
      BY <1>2 DEF name
    <3>6. IsInjective(manifest'.inlines)
          /\ ToSet(manifest'.inlines) = TargetsIn(source_id, { AskedIncludes[i] : i \in 1 .. at })
      BY <2>3, <2>5, <3>5
    <3>7. IncludesCopied(manifest', source_id, AskedIncludes, at)
      BY <1>2, <3>1, <3>4, <3>6 DEF IncludesCopied
    <3> QED BY <1>1, <2>1, <3>7
  <2>12. /\ manifest'.lookups = <<>>
         /\ FiltersCopied(manifest', source_id', AskedFilters', Len(AskedFilters'))
    BY <1>1, <1>3, <2>1, <2>5 DEF ManifestParts, FiltersCopied
  <2>13. CopiedInv'
    BY <1>1, <2>1, <2>11, <2>12 DEF CopiedInv
  <2> QED BY <2>8, <2>10, <2>13 DEF ManifestInv
<1>8. CASE f = NULL /\ ManifestFail("unknown")
  <2>1. ~EveryNameIsKnown
    BY <1>2, <1>8 DEF EveryNameIsKnown, Known, FieldByName, name
  <2> QED BY <1>8, <2>1, FailureKeeps
<1>9. CASE ManifestFail("nomem")
  BY <1>9, FailureKeeps
<1> QED
  <2>1. \/ /\ f # NULL
           /\ manifest' = [manifest EXCEPT
                !.select = Append(@, name),
                !.inlines = IF f.reference /\ f.target # NULL
                            THEN AddTarget(@, f.target) ELSE @]
           /\ manifestHeld' = manifestHeld \cup {"select"}
                \cup (IF NeedsTarget(f, manifest.inlines) THEN {"inlines"} ELSE {})
           /\ NextName
        \/ f = NULL /\ ManifestFail("unknown")
        \/ ManifestFail("nomem")
    BY <1>2, <1>6, Zenon DEF ManifestInclude
  <2> QED BY <1>7, <1>8, <1>9, <2>1

LEMMA ManifestSettingsKeeps ==
  ASSUME ParseInv, ManifestInv, UNCHANGED parseVars, ManifestSettings
  PROVE  ManifestInv'
<1>1. /\ stage = "include" /\ result = "ok" /\ result' = "ok" /\ params' = params
      /\ AskedFilters' = AskedFilters /\ AskedIncludes' = AskedIncludes
      /\ AskedSort' = AskedSort /\ at \in Nat \ {0}
  BY DEF ManifestInv, ManifestTypes, ManifestSettings, parseVars, Loops, AskedFilters,
         AskedIncludes, AskedSort, Given
<1>2. /\ Len(AskedFilters) \in Nat /\ Len(AskedIncludes) \in Nat /\ at > Len(AskedIncludes)
      /\ out.sort_field = AskedSort
  BY <1>1, AskedByTheQuery DEF ManifestSettings
<1>3. /\ FiltersCopied(manifest, source_id, AskedFilters, Len(AskedFilters))
      /\ IncludesCopied(manifest, source_id, AskedIncludes, at - 1)
      /\ manifest.lookups = <<>>
  BY <1>1 DEF ManifestInv, CopiedInv
<1>4. CASE AskedSort # NULL /\ FieldByName(AskedSort) = NULL
  <2>1. ManifestFail("unknown")
    BY <1>2, <1>4 DEF ManifestSettings
  <2>2. ~EveryNameIsKnown
    BY <1>4 DEF EveryNameIsKnown, Known
  <2> QED BY <2>1, <2>2, FailureKeeps
<1>5. CASE AskedSort = NULL \/ FieldByName(AskedSort) # NULL
  <2>1. /\ manifest' = [manifest EXCEPT
             !.sort_field = out.sort_field,
             !.sort_asc = IF out.sort_field = NULL THEN @ ELSE out.sort_asc,
             !.query = out.q, !.page = out.page, !.per_page = out.per_page]
        /\ To("lookups") /\ manifestHeld' = manifestHeld
    BY <1>2, <1>5 DEF ManifestSettings
  <2>2. /\ stage' = "lookups" /\ at' = 1 /\ at' - 1 = 0 /\ source_id' = source_id
    BY <2>1 DEF To
  <2>3. /\ manifest' = [part \in ManifestParts |-> manifest'[part]]
        /\ \A array \in ManifestArrays : manifest'[array] = manifest[array]
        /\ manifest'.sort_field = out.sort_field
    <3>1. manifest = [part \in ManifestParts |-> manifest[part]]
      BY DEF ManifestInv, ManifestTypes
    <3> QED BY <2>1, <3>1 DEF ManifestParts, ManifestArrays
  <2>4. ManifestTypes'
    BY <1>1, <2>2, <2>3 DEF ManifestInv, ManifestTypes, Loops
  <2>5. ManifestHeldInv'
    BY <1>1, <2>1, <2>2, <2>3 DEF ManifestInv, ManifestHeldInv, Loops
  <2>6. /\ manifest'.filter_list = manifest.filter_list /\ manifest'.select = manifest.select
        /\ manifest'.lookups = manifest.lookups /\ manifest'.inlines = manifest.inlines
    BY <2>3 DEF ManifestArrays
  <2>7. at - 1 = Len(AskedIncludes)
    BY <1>1, <1>2, <1>3 DEF IncludesCopied
  <2>8. /\ FiltersCopied(manifest', source_id, AskedFilters, Len(AskedFilters))
        /\ IncludesCopied(manifest', source_id, AskedIncludes, Len(AskedIncludes))
    BY <1>3, <2>6, <2>7 DEF FiltersCopied, IncludesCopied
  <2>9. LookupsFound(manifest', source_id, AskedFilters, 0)
    <3>1. { AskedFilters[i].name : i \in 1 .. 0 } = {} /\ 0 <= Len(AskedFilters)
      BY <1>2
    <3>2. IsInjective(manifest'.lookups) /\ ToSet(manifest'.lookups) = TargetsIn(source_id, {})
      BY <1>3, <2>6, NoTargets, EmptySequence
    <3> QED BY <3>1, <3>2 DEF LookupsFound
  <2>10. AskedSort # NULL => KnownIn(source_id, AskedSort)
    BY <1>5 DEF KnownIn, FieldByName
  <2>11. CopiedInv'
    BY <1>1, <1>2, <2>2, <2>3, <2>8, <2>9, <2>10 DEF CopiedInv
  <2> QED BY <2>4, <2>5, <2>11 DEF ManifestInv
<1> QED BY <1>4, <1>5

LEMMA ManifestLookupKeeps ==
  ASSUME ParseInv, ManifestInv, UNCHANGED parseVars, ManifestLookup
  PROVE  ManifestInv'
<1> DEFINE name == AskedFilters[at].name
           f == FieldIn(source_id, name)
           names == { AskedFilters[i].name : i \in 1 .. at - 1 }
           lookups == IF f.reference /\ f.target # NULL
                      THEN AddTarget(manifest.lookups, f.target) ELSE manifest.lookups
<1>1. /\ stage = "lookups" /\ result = "ok" /\ result' = "ok" /\ params' = params
      /\ AskedFilters' = AskedFilters /\ AskedIncludes' = AskedIncludes
      /\ AskedSort' = AskedSort /\ at \in Nat \ {0}
  BY DEF ManifestInv, ManifestTypes, ManifestLookup, parseVars, Loops, AskedFilters,
         AskedIncludes, AskedSort, Given
<1>2. /\ FiltersCopied(manifest, source_id, AskedFilters, Len(AskedFilters))
      /\ IncludesCopied(manifest, source_id, AskedIncludes, Len(AskedIncludes))
      /\ manifest.sort_field = AskedSort
      /\ AskedSort # NULL => KnownIn(source_id, AskedSort)
      /\ LookupsFound(manifest, source_id, AskedFilters, at - 1)
  BY <1>1 DEF ManifestInv, CopiedInv
<1>3. /\ Len(AskedFilters) \in Nat /\ at \in 1 .. Len(AskedFilters) /\ at - 1 \in Nat
      /\ manifest.filter_list[at] = Copied(source_id, AskedFilters[at])
  BY <1>1, <1>2, AskedByTheQuery DEF ManifestLookup, FiltersCopied
<1>4. /\ manifest.filter_list[at].field = name
      /\ manifest.filter_list[at].is_reference = f.reference
  BY <1>3 DEF Copied
<1>5. FieldByName(manifest.filter_list[at].field) = f
  BY <1>4 DEF FieldByName
<1>6. /\ manifest = [part \in ManifestParts |-> manifest[part]]
      /\ \A array \in ManifestArrays : IsSequence(manifest[array])
      /\ IsSequence(manifest.lookups)
      /\ manifestHeld = { array \in ManifestArrays : manifest[array] # <<>> }
  BY <1>1 DEF ManifestInv, ManifestTypes, ManifestArrays, ManifestHeldInv, Loops
<1>7. /\ IsInjective(manifest.lookups)
      /\ ToSet(manifest.lookups) = TargetsIn(source_id, names)
  BY <1>2 DEF LookupsFound
<1>8. { AskedFilters[i].name : i \in 1 .. at } = names \cup {name}
  BY <1>3
<1>9. TargetsIn(source_id, names \cup {name}) =
        IF f.reference /\ f.target # NULL
        THEN TargetsIn(source_id, names) \cup {f.target} ELSE TargetsIn(source_id, names)
  BY TargetsOfOneMore, Zenon
<1> HIDE DEF name, f, names
<1>10. /\ IsSequence(lookups) /\ IsInjective(lookups)
       /\ ToSet(lookups) = TargetsIn(source_id, names \cup {name})
  <2>1. CASE f.reference /\ f.target # NULL
    <3>1. lookups = AddTarget(manifest.lookups, f.target)
      BY <2>1
    <3>2. TargetsIn(source_id, names \cup {name}) = TargetsIn(source_id, names) \cup {f.target}
      BY <1>9, <2>1
    <3> HIDE DEF lookups
    <3>3. /\ IsSequence(lookups) /\ IsInjective(lookups)
          /\ ToSet(lookups) = ToSet(manifest.lookups) \cup {f.target}
      BY <1>6, <1>7, <3>1, TargetAdded, Zenon
    <3> QED BY <1>7, <3>2, <3>3
  <2>2. CASE ~(f.reference /\ f.target # NULL)
    BY <1>6, <1>7, <1>9, <2>2
  <2> QED BY <2>1, <2>2
<1>11. CASE NextName
             /\ manifest' = [manifest EXCEPT !.lookups = lookups]
             /\ IF f.reference /\ f.target # NULL
                THEN manifestHeld' = manifestHeld \cup {"lookups"}
                ELSE manifestHeld' = manifestHeld
  <2>1. stage' = stage /\ source_id' = source_id /\ at' = at + 1 /\ at' - 1 = at
    BY <1>1, <1>11 DEF NextName
  <2>2. IF f.reference /\ f.target # NULL THEN lookups # <<>> ELSE lookups = manifest.lookups
    BY <1>6, <1>7, TargetAdded
  <2> HIDE DEF lookups
  <2>3. /\ manifest' = [part \in ManifestParts |-> manifest'[part]]
        /\ manifest'.lookups = lookups
        /\ \A part \in ManifestParts : part # "lookups" => manifest'[part] = manifest[part]
    BY <1>6, <1>11 DEF ManifestParts
  <2>4. \A array \in ManifestArrays : IsSequence(manifest'[array])
    BY <1>6, <1>10, <2>3 DEF ManifestArrays, ManifestParts
  <2>5. ManifestTypes'
    BY <1>1, <2>1, <2>3, <2>4 DEF ManifestTypes, Loops
  <2>6. manifestHeld' = { array \in ManifestArrays : manifest'[array] # <<>> }
    <3>1. CASE f.reference /\ f.target # NULL
      BY <1>6, <1>11, <2>2, <2>3, <3>1 DEF ManifestArrays, ManifestParts
    <3>2. CASE ~(f.reference /\ f.target # NULL)
      BY <1>6, <1>11, <2>2, <2>3, <3>2 DEF ManifestArrays, ManifestParts
    <3> QED BY <3>1, <3>2
  <2>7. ManifestHeldInv'
    BY <1>1, <2>1, <2>6 DEF ManifestHeldInv, Loops
  <2>8. /\ manifest'.filter_list = manifest.filter_list /\ manifest'.select = manifest.select
        /\ manifest'.inlines = manifest.inlines /\ manifest'.sort_field = manifest.sort_field
    BY <2>3 DEF ManifestParts
  <2>9. /\ FiltersCopied(manifest', source_id, AskedFilters, Len(AskedFilters))
        /\ IncludesCopied(manifest', source_id, AskedIncludes, Len(AskedIncludes))
    BY <1>2, <2>8 DEF FiltersCopied, IncludesCopied
  <2>10. LookupsFound(manifest', source_id, AskedFilters, at)
    <3>1. TargetsIn(source_id, { AskedFilters[i].name : i \in 1 .. at })
            = TargetsIn(source_id, names \cup {name})
      BY <1>8, Zenon
    <3>2. at <= Len(AskedFilters)
      BY <1>3
    <3> QED BY <1>10, <2>3, <3>1, <3>2 DEF LookupsFound
  <2>11. CopiedInv'
    BY <1>1, <1>2, <2>1, <2>8, <2>9, <2>10 DEF CopiedInv
  <2> QED BY <2>5, <2>7, <2>11 DEF ManifestInv
<1>12. CASE ManifestFail("nomem")
  BY <1>12, FailureKeeps
<1> QED
  <2>1. \/ /\ ~(f.reference /\ f.target # NULL)
           /\ NextName /\ UNCHANGED <<manifest, manifestHeld>>
        \/ /\ f.reference /\ f.target # NULL
           /\ manifest' = [manifest EXCEPT !.lookups = AddTarget(@, f.target)]
           /\ manifestHeld' = manifestHeld \cup {"lookups"}
           /\ NextName
        \/ ManifestFail("nomem")
    BY <1>4, <1>5, Zenon DEF ManifestLookup
  <2>2. CASE ~(f.reference /\ f.target # NULL) /\ NextName /\ UNCHANGED <<manifest, manifestHeld>>
    <3>1. manifest' = [manifest EXCEPT !.lookups = lookups]
      BY <1>6, <2>2 DEF ManifestParts
    <3> QED BY <1>11, <2>2, <3>1
  <2> QED BY <1>11, <1>12, <2>1, <2>2

LEMMA ManifestReturnKeeps ==
  ASSUME ParseInv, ManifestInv, UNCHANGED parseVars, ManifestReturn
  PROVE  ManifestInv'
<1>1. /\ stage = "lookups" /\ stage' = "ok" /\ result = "ok"
      /\ AskedFilters' = AskedFilters /\ AskedIncludes' = AskedIncludes
      /\ AskedSort' = AskedSort /\ at \in Nat \ {0} /\ at' = 1
      /\ source_id' = source_id /\ manifest' = manifest /\ manifestHeld' = manifestHeld
  BY DEF ManifestInv, ManifestTypes, ManifestReturn, parseVars, Loops, AskedFilters,
         AskedIncludes, AskedSort, Given, To
<1>2. ManifestTypes'
  BY <1>1 DEF ManifestInv, ManifestTypes, Loops
<1>3. ManifestHeldInv'
  BY <1>1 DEF ManifestInv, ManifestHeldInv, Loops
<1>4. /\ FiltersCopied(manifest, source_id, AskedFilters, Len(AskedFilters))
      /\ LookupsFound(manifest, source_id, AskedFilters, at - 1)
  BY <1>1 DEF ManifestInv, CopiedInv
<1>5. at > Len(AskedFilters) /\ Len(AskedFilters) \in Nat
  BY <1>1, <1>4, AskedByTheQuery DEF ManifestReturn, FiltersCopied
<1>6. at - 1 = Len(AskedFilters)
  BY <1>1, <1>4, <1>5 DEF LookupsFound
<1>7. CopiedInv'
  BY <1>1, <1>4, <1>6 DEF ManifestInv, CopiedInv
<1> QED BY <1>2, <1>3, <1>7 DEF ManifestInv

LEMMA ManifestClearKeeps ==
  ASSUME ManifestInv, ManifestClear
  PROVE  ManifestInv'
<1>1. stage' = "none" /\ at' = 1 /\ manifest' = NoManifest /\ manifestHeld' = {}
  BY DEF ManifestClear, To
<1>2. ManifestTypes'
  BY <1>1, EmptySequence DEF ManifestTypes, NoManifest, ManifestParts, ManifestArrays, Loops
<1>3. ManifestHeldInv' /\ CopiedInv'
  BY <1>1 DEF ManifestHeldInv, CopiedInv, Loops
<1> QED BY <1>2, <1>3 DEF ManifestInv

LEMMA ManifestKeeps ==
  ASSUME ParseInv, ManifestInv, UNCHANGED parseVars, ManifestNext
  PROVE  ManifestInv'
BY ManifestCallKeeps, ManifestFilterKeeps, ManifestFiltersEndKeeps, ManifestIncludeKeeps,
   ManifestSettingsKeeps, ManifestLookupKeeps, ManifestReturnKeeps, ManifestClearKeeps
   DEF ManifestNext

-----------------------------------------------------------------------------
(* The settings, in the query and in the manifest: what the pass has come  *)
(* to so far is the last of each name so far.                              *)
SettingsBefore(query, name, n) == { k \in DOMAIN query : k < n /\ IsSetting(query[k], name) }

SettingsInv ==
  result \in {"running", "ok"} =>
    /\ out.sort_asc = LastDir(params, SettingsBefore(params, "sort", next))
    /\ out.q = LastText(params, SettingsBefore(params, "q", next))
    /\ out.page = LastNumber(params, SettingsBefore(params, "page", next))
    /\ out.per_page = LastNumber(params, SettingsBefore(params, "per_page", next))

ManifestSettingsInv ==
  /\ stage \in {"filters", "include"} => manifest.sort_asc = FALSE
  /\ stage \in {"lookups", "ok"} =>
       /\ manifest.sort_asc = AskedSettings.sort_asc
       /\ manifest.query = AskedSettings.query
       /\ manifest.page = AskedSettings.page
       /\ manifest.per_page = AskedSettings.per_page

LEMMA LastOfIs ==
  ASSUME NEW places, NEW n \in places, \A k \in places : k \in Nat /\ k <= n
  PROVE  LastOf(places) = n
<1>1. \E k \in places : \A j \in places : j <= k
  OBVIOUS
<1>2. PICK k \in places : k = LastOf(places) /\ \A j \in places : j <= k
  BY <1>1 DEF LastOf
<1> QED BY <1>2

(* One parameter further.                                                  *)
LEMMA SettingsFurther ==
  ASSUME NEW query, IsSequence(query), NEW n \in 1 .. Len(query), NEW name
  PROVE  /\ ~IsSetting(query[n], name) =>
              SettingsBefore(query, name, n + 1) = SettingsBefore(query, name, n)
         /\ IsSetting(query[n], name) =>
              LET S == SettingsBefore(query, name, n + 1)
              IN /\ S # {} /\ LastOf(S) = n
                 /\ LastDir(query, S) =
                      IF SortSpec(Decode(query[n].text)).dir = NULL
                      THEN LastDir(query, SettingsBefore(query, name, n))
                      ELSE Ascends(SortSpec(Decode(query[n].text)))
<1> DEFINE S == SettingsBefore(query, name, n + 1)
           D == Directed(query, S)
           spec == SortSpec(Decode(query[n].text))
<1>1. Len(query) \in Nat /\ DOMAIN query = 1 .. Len(query)
  BY SequenceFacts
<1>2. ~IsSetting(query[n], name) => S = SettingsBefore(query, name, n)
  BY <1>1 DEF SettingsBefore
<1>3. ASSUME IsSetting(query[n], name)
      PROVE  /\ S # {} /\ LastOf(S) = n
             /\ LastDir(query, S) = IF spec.dir = NULL
                                    THEN LastDir(query, SettingsBefore(query, name, n))
                                    ELSE Ascends(spec)
  <2>1. S = SettingsBefore(query, name, n) \cup {n} /\ \A k \in S : k \in Nat /\ k <= n
    BY <1>1, <1>3 DEF SettingsBefore
  <2>2. n \in S /\ \A k \in D : k \in S
    BY <2>1 DEF Directed
  <2>3. LastOf(S) = n
    <3> HIDE DEF S
    <3> QED BY <2>1, <2>2, LastOfIs
  <2>4. CASE spec.dir = NULL
    <3>1. D = Directed(query, SettingsBefore(query, name, n))
      BY <2>1, <2>4 DEF Directed
    <3> HIDE DEF S, D
    <3>2. LastDir(query, S) = LastDir(query, SettingsBefore(query, name, n))
      BY <3>1, Zenon DEF LastDir, D
    <3> QED BY <2>2, <2>3, <2>4, <3>2, Zenon
  <2>5. CASE spec.dir # NULL
    <3>1. n \in D
      BY <2>2, <2>5 DEF Directed
    <3>2. LastOf(D) = n
      <4> HIDE DEF D
      <4> QED BY <2>1, <2>2, <3>1, LastOfIs
    <3>3. D # {}
      BY <3>1
    <3> HIDE DEF S, spec, D
    <3>4. LastDir(query, S) = Ascends(spec)
      BY <3>2, <3>3, Zenon DEF LastDir, D, spec
    <3> QED BY <2>2, <2>3, <2>5, <3>4, Zenon
  <2> QED BY <2>4, <2>5
<1> QED BY <1>2, <1>3

(* A parameter that is no setting changes none.                            *)
LEMMA NoSettingPassed ==
  ASSUME ParseTypes, SettingsInv, Parsing, Advance,
         \A name \in Settings : ~IsSetting(Param, name),
         \A part \in {"sort_asc", "q", "page", "per_page"} : out'[part] = out[part]
  PROVE  SettingsInv'
<1>1. IsSequence(params) /\ next \in 1 .. Len(params)
  BY SequenceFacts DEF ParseTypes, Parsing
<1>2. \A name \in Settings :
        SettingsBefore(params, name, next + 1) = SettingsBefore(params, name, next)
  BY <1>1, SettingsFurther DEF Param
<1>3. result = "running" /\ params' = params /\ next' = next + 1
  BY DEF Parsing, Advance
<1>4. {"sort", "q", "page", "per_page"} = Settings
  BY DEF Settings
<1>5. /\ out'.sort_asc = out.sort_asc /\ out'.q = out.q
      /\ out'.page = out.page /\ out'.per_page = out.per_page
  OBVIOUS
<1> QED BY <1>2, <1>3, <1>4, <1>5, Zenon DEF SettingsInv

LEMMA SettingSettles ==
  ASSUME ParseInv, SettingsInv, Setting
  PROVE  SettingsInv'
<1>1. ParseTypes /\ Parsing /\ Advance /\ Param.name \in Settings
      /\ Param.text # NULL /\ ~Param.override
  BY DEF ParseInv, Setting, Named
<1>2. IsSequence(params) /\ next \in 1 .. Len(params)
  BY <1>1, SequenceFacts DEF ParseTypes, Parsing
<1>3. result = "running" /\ params' = params /\ next' = next + 1
  BY <1>1 DEF Parsing, Advance
<1>4. IsSetting(params[next], Param.name)
      /\ \A name : name # Param.name => ~IsSetting(params[next], name)
  BY <1>1 DEF IsSetting, Param
<1>5. \A name : name # Param.name =>
        SettingsBefore(params, name, next + 1) = SettingsBefore(params, name, next)
  BY <1>2, <1>4, SettingsFurther
<1> DEFINE S == SettingsBefore(params, Param.name, next + 1)
<1>6. /\ S # {} /\ LastOf(S) = next
      /\ LastDir(params, S) = IF SortSpec(Text).dir = NULL
                              THEN LastDir(params, SettingsBefore(params, Param.name, next))
                              ELSE Ascends(SortSpec(Text))
  BY <1>2, <1>4, SettingsFurther DEF Text, Param
<1> HIDE DEF S
<1>7. LastText(params, S) = Text /\ LastNumber(params, S) = Atol(Text) % 2 ^ Width
  BY <1>6, Zenon DEF LastText, LastNumber, Text, Param
<1>8. out = [part \in QueryParts |-> out[part]]
  BY <1>1 DEF ParseTypes
<1>9. /\ out.sort_asc = LastDir(params, SettingsBefore(params, "sort", next))
      /\ out.q = LastText(params, SettingsBefore(params, "q", next))
      /\ out.page = LastNumber(params, SettingsBefore(params, "page", next))
      /\ out.per_page = LastNumber(params, SettingsBefore(params, "per_page", next))
  BY <1>3, Zenon DEF SettingsInv
<1>10. SUFFICES /\ out'.sort_asc = LastDir(params, SettingsBefore(params, "sort", next + 1))
                /\ out'.q = LastText(params, SettingsBefore(params, "q", next + 1))
                /\ out'.page = LastNumber(params, SettingsBefore(params, "page", next + 1))
                /\ out'.per_page = LastNumber(params, SettingsBefore(params, "per_page", next + 1))
  BY <1>3, Zenon DEF SettingsInv
<1>11. CASE Param.name = "sort"
  <2>1. /\ out'.q = out.q /\ out'.page = out.page /\ out'.per_page = out.per_page
        /\ out'.sort_asc = IF SortSpec(Text).dir = NULL THEN out.sort_asc
                           ELSE Ascends(SortSpec(Text))
    <3>1. out' = WithSort(out, SortSpec(Text))
      BY <1>11 DEF Setting
    <3> QED BY <1>8, <3>1 DEF WithSort, QueryParts
  <2>2. out'.sort_asc = LastDir(params, S)
    BY <1>6, <1>9, <1>11, <2>1, Zenon
  <2> QED BY <1>5, <1>9, <1>11, <2>1, <2>2 DEF S
<1>12. CASE Param.name = "page"
  <2>1. /\ out'.q = out.q /\ out'.sort_asc = out.sort_asc /\ out'.per_page = out.per_page
        /\ out'.page = Atol(Text) % 2 ^ Width
    <3>1. out' = [out EXCEPT !.page = Atol(Text) % 2 ^ Width]
      BY <1>12 DEF Setting
    <3> QED BY <1>8, <3>1 DEF QueryParts
  <2> QED BY <1>5, <1>7, <1>9, <1>12, <2>1 DEF S
<1>13. CASE Param.name = "per_page"
  <2>1. /\ out'.q = out.q /\ out'.sort_asc = out.sort_asc /\ out'.page = out.page
        /\ out'.per_page = Atol(Text) % 2 ^ Width
    <3>1. out' = [out EXCEPT !.per_page = Atol(Text) % 2 ^ Width]
      BY <1>13 DEF Setting
    <3> QED BY <1>8, <3>1 DEF QueryParts
  <2> QED BY <1>5, <1>7, <1>9, <1>13, <2>1 DEF S
<1>14. CASE Param.name = "q"
  <2>1. /\ out'.q = Text /\ out'.sort_asc = out.sort_asc /\ out'.page = out.page
        /\ out'.per_page = out.per_page
    <3>1. out' = [out EXCEPT !.q = Text]
      BY <1>14 DEF Setting
    <3> QED BY <1>8, <3>1 DEF QueryParts
  <2> QED BY <1>5, <1>7, <1>9, <1>14, <2>1 DEF S
<1> QED BY <1>1, <1>11, <1>12, <1>13, <1>14 DEF Settings

LEMMA ParseSettles ==
  ASSUME ParseInv, SettingsInv, ParseNext
  PROVE  SettingsInv'
<1>1. /\ ParseTypes /\ HeldInv /\ IsSequence(params)
      /\ out = [part \in QueryParts |-> out[part]]
  BY DEF ParseInv, ParseTypes
<1>2. CASE Start
  <2>1. out' = NoQuery /\ next' = 1 /\ params' = params
    BY <1>1, <1>2 DEF Start, HeldInv
  <2>2. \A name : SettingsBefore(params, name, 1) = {}
    BY <1>1, SequenceFacts DEF SettingsBefore
  <2>3. LastDir(params, {}) = TRUE /\ LastText(params, {}) = NULL /\ LastNumber(params, {}) = 0
    <3>1. Directed(params, {}) = {}
      BY DEF Directed
    <3> QED BY <3>1, Zenon DEF LastDir, LastText, LastNumber
  <2> QED BY <2>1, <2>2, <2>3 DEF SettingsInv, NoQuery
<1>3. CASE SkipParam \/ RecordOverride
  <2>1. /\ Parsing /\ Advance /\ out' = out
        /\ \A name \in Settings : ~IsSetting(Param, name)
    BY <1>3 DEF SkipParam, RecordOverride, IsSetting, Named, Ignored, Settings
  <2> QED BY <1>1, <2>1, NoSettingPassed
<1>4. CASE Setting
  BY <1>4, SettingSettles
<1>5. CASE OutOfMemory \/ QueryClear
  BY <1>5 DEF OutOfMemory, QueryClear, SettingsInv
<1>6. CASE Include /\ ~OutOfMemory
  <2>1. /\ Parsing /\ Advance
        /\ \A name \in Settings : ~IsSetting(Param, name)
        /\ out' = [out EXCEPT !.include =
                     @ \o [k \in DOMAIN Pieces(Text) |-> Decode(Pieces(Text)[k])]]
    BY <1>6 DEF Include, Named, IsSetting, Settings
  <2>2. \A part \in {"sort_asc", "q", "page", "per_page"} : out'[part] = out[part]
    BY <1>1, <2>1 DEF QueryParts
  <2> QED BY <1>1, <2>1, <2>2, NoSettingPassed
<1>7. CASE Filter /\ ~OutOfMemory
  <2>1. /\ Parsing /\ Advance
        /\ \A name \in Settings : ~IsSetting(Param, name)
        /\ out' = [out EXCEPT !.filters =
                     Append(@, [field |-> Param.name, value |-> Text, op |-> NULL])]
    BY <1>7 DEF Filter, IsSetting, Settings
  <2>2. \A part \in {"sort_asc", "q", "page", "per_page"} : out'[part] = out[part]
    BY <1>1, <2>1 DEF QueryParts
  <2> QED BY <1>1, <2>1, <2>2, NoSettingPassed
<1>8. CASE Finish
  <2>1. /\ out' = [out EXCEPT !.filters =
                     [k \in DOMAIN @ |-> [field |-> @[k].field, value |-> @[k].value,
                                          op |-> LastOp(@[k].field)]]]
        /\ params' = params /\ next' = next /\ result = "running"
    BY <1>8 DEF Finish
  <2>2. /\ out'.sort_asc = out.sort_asc /\ out'.q = out.q
        /\ out'.page = out.page /\ out'.per_page = out.per_page
    BY <1>1, <2>1 DEF QueryParts
  <2> QED BY <2>1, <2>2, Zenon DEF SettingsInv
<1> QED BY <1>2, <1>3, <1>4, <1>5, <1>6, <1>7, <1>8 DEF ParseNext

(* The manifest takes the settings once, after the last included field.    *)
LEMMA ManifestSettles ==
  ASSUME ParseInv, SettingsInv, ManifestInv, ManifestSettingsInv, UNCHANGED parseVars,
         ManifestNext
  PROVE  ManifestSettingsInv'
<1> DEFINE Parts == {"sort_asc", "query", "page", "per_page"}
           Kept == \A part \in Parts : manifest'[part] = manifest[part]
<1>1. /\ params' = params /\ manifest = [part \in ManifestParts |-> manifest[part]]
      /\ stage = "none" => manifest = NoManifest
      /\ stage \in Loops => result = "ok"
  BY DEF parseVars, ManifestInv, ManifestTypes, ManifestHeldInv
<1>2. AskedSettings' = AskedSettings
  BY <1>1 DEF AskedSettings, AskedSort, Given
<1>3. ASSUME Kept,
             \/ stage' = stage
             \/ stage = "filters" /\ stage' = "include"
             \/ stage = "lookups" /\ stage' = "ok"
             \/ stage = "include" /\ stage' = "include"
      PROVE  ManifestSettingsInv'
  BY <1>2, <1>3 DEF ManifestSettingsInv
<1>4. ASSUME stage' \in {"none", "unknown", "nomem"}
      PROVE  ManifestSettingsInv'
  BY <1>4 DEF ManifestSettingsInv
<1>5. CASE \E id \in SourceIds : ManifestCall(id)
  <2>1. CASE stage' = "unknown"
    BY <1>4, <2>1
  <2>2. CASE stage' # "unknown"
    <3>1. PICK id \in SourceIds : ManifestCall(id)
      BY <1>5
    <3>2. /\ stage' = "filters" /\ stage = "none"
          /\ manifest' = [manifest EXCEPT !.base_source = id]
      BY <2>2, <3>1 DEF ManifestCall
    <3>3. manifest'.sort_asc = FALSE
      BY <1>1, <3>2 DEF NoManifest
    <3> QED BY <3>2, <3>3 DEF ManifestSettingsInv
  <2> QED BY <2>1, <2>2
<1>6. CASE ManifestFilter
  <2>1. \/ /\ stage' = stage
           /\ \E new : manifest' = [manifest EXCEPT !.filter_list = Append(@, new)]
        \/ stage' \in {"unknown", "nomem"}
    BY <1>6, Zenon DEF ManifestFilter, ManifestFail, NextName
  <2>2. (\E new : manifest' = [manifest EXCEPT !.filter_list = Append(@, new)]) => Kept
    BY <1>1 DEF ManifestParts
  <2> QED BY <1>3, <1>4, <2>1, <2>2
<1>7. CASE ManifestFiltersEnd
  BY <1>3, <1>7 DEF ManifestFiltersEnd, To
<1>8. CASE ManifestInclude
  <2>1. \/ /\ stage' = stage
           /\ \E new, targets : manifest' = [manifest EXCEPT !.select = Append(@, new),
                                                             !.inlines = targets]
        \/ stage' \in {"unknown", "nomem"}
    BY <1>8, Zenon DEF ManifestInclude, ManifestFail, NextName
  <2>2. (\E new, targets : manifest' = [manifest EXCEPT !.select = Append(@, new),
                                                        !.inlines = targets]) => Kept
    BY <1>1 DEF ManifestParts
  <2> QED BY <1>3, <1>4, <2>1, <2>2
<1>9. CASE ManifestSettings
  <2>1. CASE ManifestFail("unknown")
    BY <1>4, <2>1 DEF ManifestFail
  <2>2. CASE ~ManifestFail("unknown")
    <3>1. /\ stage = "include" /\ stage' = "lookups"
          /\ manifest' = [manifest EXCEPT
               !.sort_field = out.sort_field,
               !.sort_asc = IF out.sort_field = NULL THEN @ ELSE out.sort_asc,
               !.query = out.q, !.page = out.page, !.per_page = out.per_page]
      BY <1>9, <2>2 DEF ManifestSettings, To
    <3>2. /\ manifest'.sort_asc = IF out.sort_field = NULL THEN manifest.sort_asc
                                  ELSE out.sort_asc
          /\ manifest'.query = out.q /\ manifest'.page = out.page
          /\ manifest'.per_page = out.per_page
      BY <1>1, <3>1 DEF ManifestParts
    <3>3. result = "ok" /\ manifest.sort_asc = FALSE
      BY <1>1, <3>1 DEF Loops, ManifestSettingsInv
    <3>4. \A name : SettingsBefore(params, name, next) = Given(name)
      <4>1. next = Len(params) + 1 /\ DOMAIN params = 1 .. Len(params) /\ Len(params) \in Nat
        BY <3>3, SequenceFacts DEF ParseInv, ParseTypes, HeldInv
      <4> QED BY <4>1 DEF SettingsBefore, Given
    <3>5. out.sort_field = AskedSort
      BY <3>3, AskedByTheQuery
    <3>6. /\ out.sort_asc = LastDir(params, Given("sort"))
          /\ out.q = LastText(params, Given("q"))
          /\ out.page = LastNumber(params, Given("page"))
          /\ out.per_page = LastNumber(params, Given("per_page"))
      BY <3>3, <3>4, Zenon DEF SettingsInv
    <3>7. manifest'.sort_asc = AskedSettings.sort_asc
      <4>1. AskedSettings.sort_asc = (AskedSort # NULL /\ LastDir(params, Given("sort")))
        BY DEF AskedSettings
      <4>2. LastDir(params, Given("sort")) \in BOOLEAN
        BY Zenon DEF LastDir, Ascends
      <4>3. CASE AskedSort = NULL
        BY <3>2, <3>3, <3>5, <4>1, <4>3
      <4>4. CASE AskedSort # NULL
        <5>1. manifest'.sort_asc = LastDir(params, Given("sort"))
          BY <3>2, <3>5, <3>6, <4>4, Zenon
        <5>2. (AskedSort # NULL /\ LastDir(params, Given("sort")))
                = LastDir(params, Given("sort"))
          BY <4>2, <4>4
        <5> QED BY <4>1, <5>1, <5>2, Zenon
      <4> QED BY <4>3, <4>4
    <3>8. /\ manifest'.query = AskedSettings.query /\ manifest'.page = AskedSettings.page
          /\ manifest'.per_page = AskedSettings.per_page
      BY <3>2, <3>6 DEF AskedSettings
    <3> QED BY <1>2, <3>1, <3>7, <3>8 DEF ManifestSettingsInv
  <2> QED BY <2>1, <2>2
<1>10. CASE ManifestLookup
  <2>1. \/ /\ stage' = stage
           /\ \/ manifest' = manifest
              \/ \E targets : manifest' = [manifest EXCEPT !.lookups = targets]
        \/ stage' \in {"unknown", "nomem"}
    BY <1>10, Zenon DEF ManifestLookup, ManifestFail, NextName
  <2>2. (\E targets : manifest' = [manifest EXCEPT !.lookups = targets]) => Kept
    BY <1>1 DEF ManifestParts
  <2> QED BY <1>3, <1>4, <2>1, <2>2
<1>11. CASE ManifestReturn
  BY <1>3, <1>11 DEF ManifestReturn, To
<1>12. CASE ManifestClear
  BY <1>4, <1>12 DEF ManifestClear, To
<1> QED BY <1>5, <1>6, <1>7, <1>8, <1>9, <1>10, <1>11, <1>12 DEF ManifestNext

-----------------------------------------------------------------------------
LEMMA QueryInvariant ==
  BlueprintSpec => [](ParseInv /\ ManifestInv)
<1>1. BlueprintInit => ParseInv /\ ManifestInv
  BY ParseStarts, ManifestStarts DEF BlueprintInit
<1>2. ParseInv /\ ManifestInv /\ [BlueprintNext]_<<parseVars, manifestVars>>
        => (ParseInv /\ ManifestInv)'
  <2> SUFFICES ASSUME ParseInv, ManifestInv, [BlueprintNext]_<<parseVars, manifestVars>>
               PROVE  ParseInv' /\ ManifestInv'
    OBVIOUS
  <2>1. CASE UNCHANGED <<parseVars, manifestVars>>
    <3>1. UNCHANGED parseVars /\ UNCHANGED manifestVars
      BY <2>1
    <3>2. params' = params /\ (stage \in Loops => result' = "ok")
      BY <3>1 DEF parseVars, ManifestInv, ManifestTypes
    <3> QED BY <3>1, <3>2, ParseStays, ManifestStays
  <2>2. CASE (stage = "none" \/ Returned) /\ ParseNext /\ UNCHANGED manifestVars
    <3>1. params' = params
      BY <2>2 DEF ParseNext, Start, SkipParam, RecordOverride, Setting, Include, Filter,
                  Finish, QueryClear, Advance, OutOfMemory
    <3>2. stage \notin Loops
      BY <2>2 DEF Returned, Loops
    <3> QED BY <2>2, <3>1, <3>2, ParseKeeps, ManifestStays
  <2>3. CASE ManifestNext /\ UNCHANGED parseVars
    BY <2>3, ManifestKeeps, ParseStays
  <2> QED BY <2>1, <2>2, <2>3 DEF BlueprintNext
<1> QED BY <1>1, <1>2, PTL DEF BlueprintSpec

LEMMA SettingsInvariant ==
  BlueprintSpec => [](SettingsInv /\ ManifestSettingsInv)
<1>1. BlueprintInit => SettingsInv /\ ManifestSettingsInv
  BY DEF BlueprintInit, ParseInit, SettingsInv, ManifestSettingsInv
<1>2. ParseInv /\ ManifestInv /\ SettingsInv /\ ManifestSettingsInv
        /\ [BlueprintNext]_<<parseVars, manifestVars>>
        => (SettingsInv /\ ManifestSettingsInv)'
  <2> SUFFICES ASSUME ParseInv, ManifestInv, SettingsInv, ManifestSettingsInv,
                      [BlueprintNext]_<<parseVars, manifestVars>>
               PROVE  SettingsInv' /\ ManifestSettingsInv'
    OBVIOUS
  <2>1. ASSUME UNCHANGED parseVars
        PROVE  SettingsInv'
    <3>1. params' = params /\ next' = next /\ out' = out /\ result' = result
      BY <2>1 DEF parseVars
    <3> QED BY <3>1 DEF SettingsInv
  <2>2. ASSUME UNCHANGED manifestVars, params' = params
        PROVE  ManifestSettingsInv'
    <3>1. AskedSettings' = AskedSettings
      BY <2>2 DEF AskedSettings, AskedSort, Given
    <3>2. stage' = stage /\ manifest' = manifest
      BY <2>2 DEF manifestVars
    <3> QED BY <3>1, <3>2 DEF ManifestSettingsInv
  <2>3. CASE UNCHANGED <<parseVars, manifestVars>>
    <3>1. UNCHANGED parseVars /\ UNCHANGED manifestVars
      BY <2>3
    <3>2. params' = params
      BY <3>1 DEF parseVars
    <3> QED BY <2>1, <2>2, <3>1, <3>2
  <2>4. CASE ParseNext /\ UNCHANGED manifestVars
    <3>1. params' = params
      BY <2>4 DEF ParseNext, Start, SkipParam, RecordOverride, Setting, Include, Filter,
                  Finish, QueryClear, Advance, OutOfMemory
    <3> QED BY <2>2, <2>4, <3>1, ParseSettles
  <2>5. CASE ManifestNext /\ UNCHANGED parseVars
    BY <2>1, <2>5, ManifestSettles
  <2> QED BY <2>3, <2>4, <2>5 DEF BlueprintNext
<1> QED BY <1>1, <1>2, QueryInvariant, PTL DEF BlueprintSpec

(* Every override that there was room for reaches the filters on its field *)
(* in hyle_parse_query's result, before or after it in the query string,   *)
(* and the last one of a field counts.                                     *)
THEOREM QueryOverrides ==
  BlueprintSpec => []OverridesReachFilters
<1>1. ParseInv => OverridesReachFilters
  BY DEF ParseInv, OpsInv
<1> QED BY <1>1, QueryInvariant, PTL

(* hyle_parse_query and hyle_blueprint_manifest leave no memory but what   *)
(* their results hold, whichever allocation failed.                        *)
THEOREM QueryMemory ==
  BlueprintSpec => []OnlyResultsHoldMemory
<1>1. ParseInv /\ ManifestInv => OnlyResultsHoldMemory
  <2> SUFFICES ASSUME ParseInv, ManifestInv
               PROVE  OnlyResultsHoldMemory
    OBVIOUS
  <2>1. OnlyTheQueryHoldsMemory
    BY DEF ParseInv, HeldInv, Arrays, OnlyTheQueryHoldsMemory
  <2> QED BY <2>1 DEF ManifestInv, ManifestHeldInv, ManifestArrays, OnlyResultsHoldMemory
<1> QED BY <1>1, QueryInvariant, PTL

(* When hyle_blueprint_manifest has returned 0 the manifest has the        *)
(* filters, the included fields and the last sort, direction, page,        *)
(* per_page and q that the query string gives, and it returns 0 or lacks   *)
(* memory unless the query string names what the blueprint does not have.  *)
THEOREM QueryToManifest ==
  BlueprintSpec => []ManifestAnswersTheQueryString
<1>1. ParseInv /\ ManifestInv /\ ManifestSettingsInv => ManifestAnswersTheQueryString
  <2> SUFFICES ASSUME ParseInv, ManifestInv, ManifestSettingsInv
               PROVE  ManifestAnswersTheQueryString
    OBVIOUS
  <2>1. stage = "unknown" => SourceById(source_id) = NULL \/ ~EveryNameIsKnown
    BY DEF ManifestInv, CopiedInv
  <2>2. ASSUME stage = "ok"
        PROVE  /\ EveryNameIsKnown /\ manifest.select = AskedIncludes
               /\ \A part \in DOMAIN AskedSettings : manifest[part] = AskedSettings[part]
               /\ manifest.filter_list =
                    [n \in DOMAIN AskedFilters |->
                       [field |-> AskedFilters[n].name, value |-> Decode(AskedFilters[n].text),
                        is_reference |-> FieldByName(AskedFilters[n].name).reference]]
    <3>1. /\ FiltersCopied(manifest, source_id, AskedFilters, Len(AskedFilters))
          /\ IncludesCopied(manifest, source_id, AskedIncludes, Len(AskedIncludes))
          /\ manifest.sort_field = AskedSort
          /\ AskedSort # NULL => KnownIn(source_id, AskedSort)
      BY <2>2 DEF ManifestInv, CopiedInv
    <3>2. /\ IsSequence(AskedFilters) /\ IsSequence(AskedIncludes)
          /\ IsSequence(manifest.filter_list) /\ IsSequence(manifest.select)
      BY AskedSequences DEF ParseInv, ManifestInv, ManifestTypes, ManifestArrays
    <3>3. /\ DOMAIN AskedFilters = 1 .. Len(AskedFilters)
          /\ DOMAIN AskedIncludes = 1 .. Len(AskedIncludes)
          /\ AskedIncludes = [i \in 1 .. Len(AskedIncludes) |-> AskedIncludes[i]]
          /\ manifest.filter_list = [i \in 1 .. Len(manifest.filter_list) |-> manifest.filter_list[i]]
          /\ manifest.select = [i \in 1 .. Len(manifest.select) |-> manifest.select[i]]
      <4>1. \A s : IsSequence(s) => DOMAIN s = 1 .. Len(s) /\ s = [i \in DOMAIN s |-> s[i]]
        BY SequenceFacts
      <4> QED BY <3>2, <4>1
    <3>4. manifest.select = AskedIncludes
      BY <3>1, <3>3 DEF IncludesCopied
    <3>5. manifest.filter_list = [n \in DOMAIN AskedFilters |-> Copied(source_id, AskedFilters[n])]
      BY <3>1, <3>3 DEF FiltersCopied
    <3>6. EveryNameIsKnown
      BY <3>1, <3>3 DEF EveryNameIsKnown, Known, FieldByName, KnownIn, FiltersCopied,
                        IncludesCopied
    <3>7. \A part \in DOMAIN AskedSettings : manifest[part] = AskedSettings[part]
      <4>1. /\ AskedSettings.sort_field = AskedSort
            /\ DOMAIN AskedSettings = {"sort_field", "sort_asc", "query", "page", "per_page"}
        BY DEF AskedSettings
      <4>2. /\ manifest.sort_field = AskedSettings.sort_field
            /\ manifest.sort_asc = AskedSettings.sort_asc
            /\ manifest.query = AskedSettings.query
            /\ manifest.page = AskedSettings.page
            /\ manifest.per_page = AskedSettings.per_page
        BY <2>2, <3>1, <4>1 DEF ManifestSettingsInv
      <4> QED BY <4>1, <4>2
    <3> QED BY <3>4, <3>5, <3>6, <3>7 DEF Copied, FieldByName
  <2> QED BY <2>1, <2>2 DEF ManifestAnswersTheQueryString
<1> QED BY <1>1, QueryInvariant, SettingsInvariant, PTL

(* The manifest loads every source that a filter or an included field      *)
(* refers to, once, and no other.                                          *)
THEOREM QueryLoads ==
  BlueprintSpec => []ManifestLoadsWhatIsReferenced
<1>1. ParseInv /\ ManifestInv => ManifestLoadsWhatIsReferenced
  <2> SUFFICES ASSUME ParseInv, ManifestInv, stage = "ok"
               PROVE  /\ ToSet(manifest.lookups)
                           = Targets({ AskedFilters[n].name : n \in DOMAIN AskedFilters })
                      /\ ToSet(manifest.inlines) = Targets(ToSet(AskedIncludes))
                      /\ IsInjective(manifest.lookups) /\ IsInjective(manifest.inlines)
    BY DEF ManifestLoadsWhatIsReferenced
  <2>1. \A names : Targets(names) = TargetsIn(source_id, names)
    BY DEF Targets, TargetsIn, FieldByName
  <2>2. /\ LookupsFound(manifest, source_id, AskedFilters, Len(AskedFilters))
        /\ IncludesCopied(manifest, source_id, AskedIncludes, Len(AskedIncludes))
    BY DEF ManifestInv, CopiedInv
  <2>3. IsSequence(AskedFilters) /\ IsSequence(AskedIncludes)
    BY AskedSequences DEF ParseInv
  <2>4. /\ DOMAIN AskedFilters = 1 .. Len(AskedFilters)
        /\ ToSet(AskedIncludes) = { AskedIncludes[i] : i \in 1 .. Len(AskedIncludes) }
    BY <2>3, SequenceFacts DEF ToSet
  <2>5. /\ ToSet(manifest.lookups)
             = TargetsIn(source_id, { AskedFilters[n].name : n \in DOMAIN AskedFilters })
        /\ ToSet(manifest.inlines) = TargetsIn(source_id, ToSet(AskedIncludes))
    BY <2>2, <2>4 DEF LookupsFound, IncludesCopied
  <2> QED BY <2>1, <2>2, <2>5 DEF LookupsFound, IncludesCopied
<1> QED BY <1>1, QueryInvariant, PTL

-----------------------------------------------------------------------------
-----------------------------------------------------------------------------
(* What a pass over a row map keeps, row by row.                           *)
LEMMA KeptSteps ==
  ASSUME NEW s, IsSequence(s), NEW S
  PROVE  /\ KeptUpTo(s, S)[0] = <<>>
         /\ \A n \in 1 .. Len(s) :
              KeptUpTo(s, S)[n] = IF s[n] \in S THEN Append(KeptUpTo(s, S)[n - 1], s[n])
                                  ELSE KeptUpTo(s, S)[n - 1]
         /\ \A n \in 0 .. Len(s) : KeptUpTo(s, S)[n] \in Seq(ToSet(s))
<1> DEFINE N == Len(s)
           X == Seq(ToSet(s))
           step(n, t) == IF s[n] \in S THEN Append(t, s[n]) ELSE t
           Is(h) == h = [n \in 0 .. N |-> IF n = 0 THEN <<>>
                                          ELSE IF s[n] \in S THEN Append(h[n - 1], s[n])
                                          ELSE h[n - 1]]
           c == CHOOSE h : Is(h)
           g == [n \in 1 .. N |-> [t \in X |-> step(n, t)]]
<1>1. N \in Nat /\ \A n \in 1 .. N : s[n] \in ToSet(s)
  BY SequenceFacts
<1>2. <<>> \in X /\ \A n \in 1 .. N, t \in X : step(n, t) \in X
  BY <1>1
<1>3. g \in [1 .. N -> [X -> X]]
  <2> HIDE DEF X, step
  <2> QED BY <1>2
<1>4. PICK f \in [0 .. N -> X] : Solves(f, g, <<>>, N)
  <2> HIDE DEF g, X
  <2> QED BY <1>1, <1>2, <1>3, RecursionUpTo
<1>5. Is(f)
  <2>1. f[0] = <<>> /\ \A n \in 1 .. N : f[n] = step(n, f[n - 1])
    <3> HIDE DEF X, step
    <3>1. \A n \in 1 .. N : f[n - 1] \in X
      BY <1>1
    <3>2. \A n \in 1 .. N : f[n] = g[n][f[n - 1]]
      BY <1>4 DEF Solves
    <3> QED BY <1>4, <3>1, <3>2 DEF Solves
  <2>2. f = [n \in 0 .. N |-> f[n]]
    OBVIOUS
  <2> HIDE DEF X, g
  <2>3. \A n \in 0 .. N : n # 0 => n \in 1 .. N
    BY <1>1
  <2>4. \A n \in 0 .. N : f[n] = IF n = 0 THEN <<>>
                                 ELSE IF s[n] \in S THEN Append(f[n - 1], s[n])
                                 ELSE f[n - 1]
    BY <2>1, <2>3, Zenon
  <2> QED BY <2>2, <2>4
<1>6. Is(c)
  <2> HIDE DEF Is, g, X
  <2> QED BY <1>5
<1>7. KeptUpTo(s, S) = c
  BY DEF KeptUpTo
<1>8. c[0] = <<>> /\ \A n \in 1 .. N : c[n] = step(n, c[n - 1])
  <2> HIDE DEF c, g, X
  <2>1. 0 \in 0 .. N /\ \A n \in 1 .. N : n \in 0 .. N /\ n # 0
    BY <1>1
  <2> QED BY <1>6, <2>1, Zenon
<1>9. \A n \in 0 .. N : c[n] \in X
  <2> HIDE DEF c, step, X
  <2> DEFINE T == { n \in 0 .. N : c[n] \in X }
  <2>1. 0 \in T
    BY <1>1, <1>2, <1>8
  <2>2. \A n \in 0 .. N - 1 : n \in T => n + 1 \in T
    <3> SUFFICES ASSUME NEW n \in 0 .. N - 1, n \in T
                 PROVE  c[n + 1] \in X
      BY <1>1
    <3>1. n + 1 \in 1 .. N /\ (n + 1) - 1 = n
      BY <1>1
    <3>2. c[n + 1] = step(n + 1, c[n])
      BY <1>8, <3>1
    <3> QED BY <1>2, <3>1, <3>2
  <2>3. \A n \in 0 .. N : n \in T
    <3> HIDE DEF T
    <3> QED BY <1>1, <2>1, <2>2, InductionUpTo
  <2> QED BY <2>3
<1> HIDE DEF c
<1> QED BY <1>7, <1>8, <1>9

LEMMA KeptElements ==
  ASSUME NEW s, IsSequence(s), NEW S, NEW n \in 0 .. Len(s)
  PROVE  /\ IsSequence(KeptUpTo(s, S)[n]) /\ Len(KeptUpTo(s, S)[n]) <= n
         /\ ToSet(KeptUpTo(s, S)[n]) = { s[i] : i \in 1 .. n } \cap S
<1> DEFINE c == KeptUpTo(s, S)
           upTo(m) == { s[i] : i \in 1 .. m }
           Fine(m) == /\ IsSequence(c[m]) /\ Len(c[m]) <= m
                      /\ ToSet(c[m]) = upTo(m) \cap S
           T == { m \in 0 .. Len(s) : Fine(m) }
<1>1. /\ Len(s) \in Nat /\ c[0] = <<>>
      /\ \A m \in 1 .. Len(s) : c[m] = IF s[m] \in S THEN Append(c[m - 1], s[m]) ELSE c[m - 1]
  BY KeptSteps, SequenceFacts
<1> HIDE DEF c
<1>2. 0 \in T
  <2>1. upTo(0) = {}
    OBVIOUS
  <2>2. Fine(0)
    BY <1>1, <2>1, EmptySequence
  <2> QED BY <1>1, <2>2
<1>3. ASSUME NEW m \in 0 .. Len(s) - 1, m \in T
      PROVE  m + 1 \in T
  <2>1. m + 1 \in 1 .. Len(s) /\ (m + 1) - 1 = m /\ m \in Nat
    BY <1>1
  <2>2. c[m + 1] = IF s[m + 1] \in S THEN Append(c[m], s[m + 1]) ELSE c[m]
    BY <1>1, <2>1
  <2>3. upTo(m + 1) = upTo(m) \cup {s[m + 1]}
    <3>1. 1 .. m + 1 = (1 .. m) \cup {m + 1}
      BY <2>1
    <3> QED BY <3>1
  <2> HIDE DEF upTo
  <2>4. IsSequence(c[m]) /\ Len(c[m]) <= m /\ ToSet(c[m]) = upTo(m) \cap S /\ Len(c[m]) \in Nat
    BY <1>3, SequenceFacts
  <2>5. Fine(m + 1)
    <3>1. CASE s[m + 1] \in S
      <4>1. c[m + 1] = Append(c[m], s[m + 1])
        BY <2>2, <3>1
      <4>2. /\ IsSequence(c[m + 1]) /\ Len(c[m + 1]) = Len(c[m]) + 1
            /\ ToSet(c[m + 1]) = ToSet(c[m]) \cup {s[m + 1]}
        BY <2>4, <4>1, SequenceAppend
      <4> QED BY <2>1, <2>3, <2>4, <3>1, <4>2
    <3>2. CASE s[m + 1] \notin S
      BY <2>1, <2>2, <2>3, <2>4, <3>2
    <3> QED BY <3>1, <3>2
  <2> QED BY <2>1, <2>5
<1>4. n \in T
  <2> HIDE DEF T
  <2> QED BY <1>1, <1>2, <1>3, InductionUpTo
<1> QED BY <1>4 DEF c

LEMMA OnlyFacts ==
  ASSUME NEW s, IsSequence(s), NEW S
  PROVE  /\ IsSequence(Only(s, S)) /\ Len(Only(s, S)) <= Len(s)
         /\ ToSet(Only(s, S)) = ToSet(s) \cap S
<1>1. Len(s) \in 0 .. Len(s) /\ ToSet(s) = { s[i] : i \in 1 .. Len(s) }
  BY SequenceFacts DEF ToSet
<1>2. \A n \in 0 .. Len(s) :
        /\ IsSequence(KeptUpTo(s, S)[n]) /\ Len(KeptUpTo(s, S)[n]) <= n
        /\ ToSet(KeptUpTo(s, S)[n]) = { s[i] : i \in 1 .. n } \cap S
  BY KeptElements, Zenon
<1> QED BY <1>1, <1>2 DEF Only

(* What is kept depends on the elements of s alone, and a sequence that    *)
(* begins with s keeps what s keeps.                                       *)
LEMMA KeptAgrees ==
  ASSUME NEW s, IsSequence(s), NEW t, IsSequence(t), Len(s) <= Len(t),
         \A i \in 1 .. Len(s) : t[i] = s[i],
         NEW S, NEW T, S \cap ToSet(s) = T \cap ToSet(s)
  PROVE  KeptUpTo(t, T)[Len(s)] = Only(s, S)
<1> DEFINE c == KeptUpTo(s, S)
           d == KeptUpTo(t, T)
           U == { m \in 0 .. Len(s) : d[m] = c[m] }
<1>1. /\ Len(s) \in Nat /\ Len(t) \in Nat /\ c[0] = <<>> /\ d[0] = <<>>
      /\ \A m \in 1 .. Len(s) : c[m] = IF s[m] \in S THEN Append(c[m - 1], s[m]) ELSE c[m - 1]
      /\ \A m \in 1 .. Len(t) : d[m] = IF t[m] \in T THEN Append(d[m - 1], t[m]) ELSE d[m - 1]
  BY KeptSteps, SequenceFacts
<1>2. \A m \in 1 .. Len(s) : s[m] \in ToSet(s)
  BY SequenceFacts
<1> HIDE DEF c, d
<1>3. 0 \in U
  BY <1>1
<1>4. ASSUME NEW m \in 0 .. Len(s) - 1, m \in U
      PROVE  m + 1 \in U
  <2>1. m + 1 \in 1 .. Len(s) /\ m + 1 \in 1 .. Len(t) /\ (m + 1) - 1 = m
    BY <1>1
  <2>2. t[m + 1] = s[m + 1] /\ (s[m + 1] \in S <=> s[m + 1] \in T)
    BY <1>2, <2>1
  <2> QED BY <1>1, <1>4, <2>1, <2>2
<1>5. Len(s) \in 0 .. Len(s)
  BY <1>1
<1>6. Len(s) \in U
  <2> HIDE DEF U
  <2> QED BY <1>1, <1>3, <1>4, <1>5, InductionUpTo
<1> QED BY <1>6 DEF Only, c, d

LEMMA OnlyAgrees ==
  ASSUME NEW s, IsSequence(s), NEW S, NEW T, S \cap ToSet(s) = T \cap ToSet(s)
  PROVE  Only(s, T) = Only(s, S)
<1>1. Len(s) \in Nat
  BY SequenceFacts
<1>2. KeptUpTo(s, T)[Len(s)] = Only(s, S)
  BY <1>1, KeptAgrees
<1> QED BY <1>2 DEF Only

(* One more row is kept at the end, or not at all.                         *)
Grown(s, t, r) == t = s \/ t = Append(s, r)

LEMMA OnlyGrows ==
  ASSUME NEW s, IsSequence(s), NEW r, NEW t, Grown(s, t, r),
         NEW S, NEW T, S \cap ToSet(s) = T \cap ToSet(s)
  PROVE  Grown(Only(s, S), Only(t, T), r)
<1>1. CASE t = s
  BY <1>1, OnlyAgrees DEF Grown
<1>2. CASE t = Append(s, r)
  <2>1. /\ IsSequence(t) /\ Len(t) = Len(s) + 1 /\ t[Len(s) + 1] = r
        /\ \A i \in 1 .. Len(s) : t[i] = s[i]
    BY <1>2, SequenceAppend
  <2>2. Len(s) \in Nat
    BY SequenceFacts
  <2>3. KeptUpTo(t, T)[Len(s)] = Only(s, S)
    BY <2>1, <2>2, KeptAgrees
  <2>4. Len(s) + 1 \in 1 .. Len(t) /\ (Len(s) + 1) - 1 = Len(s)
    BY <2>1, <2>2
  <2>5. KeptUpTo(t, T)[Len(s) + 1] =
          IF r \in T THEN Append(KeptUpTo(t, T)[Len(s)], r) ELSE KeptUpTo(t, T)[Len(s)]
    BY <2>1, <2>4, KeptSteps
  <2> QED BY <2>1, <2>3, <2>5 DEF Only, Grown
<1> QED BY <1>1, <1>2 DEF Grown

-----------------------------------------------------------------------------
(* A strict total order of 1 .. n, given by the elements before each one,  *)
(* ranks every element by the number of those.                             *)
Ranks(n, before) ==
  /\ before \in [1 .. n -> SUBSET (1 .. n)]
  /\ \A i \in 1 .. n : i \notin before[i]
  /\ \A i, j \in 1 .. n : i # j => i \in before[j] \/ j \in before[i]
  /\ \A i, j \in 1 .. n : i \in before[j] => before[i] \subseteq before[j]

LEMMA RankGrows ==
  ASSUME NEW n \in Nat, NEW before, Ranks(n, before), NEW i \in 1 .. n, NEW j \in 1 .. n,
         i \in before[j]
  PROVE  Cardinality(before[i]) < Cardinality(before[j])
<1>1. /\ before[i] \in SUBSET (1 .. n) /\ before[j] \in SUBSET (1 .. n)
      /\ i \notin before[i] /\ before[i] \subseteq before[j]
  BY DEF Ranks
<1>2. IsFiniteSet(1 .. n)
  BY FS_Interval
<1>3. /\ IsFiniteSet(before[i]) /\ IsFiniteSet(before[j])
  BY <1>1, <1>2, FS_Subset
<1>4. /\ IsFiniteSet(before[i] \cup {i})
      /\ Cardinality(before[i] \cup {i}) = Cardinality(before[i]) + 1
  BY <1>1, <1>3, FS_AddElement
<1>5. before[i] \cup {i} \in SUBSET before[j]
  BY <1>1
<1>6. Cardinality(before[i] \cup {i}) <= Cardinality(before[j])
  BY <1>3, <1>5, FS_Subset
<1>7. Cardinality(before[i]) \in Nat /\ Cardinality(before[j]) \in Nat
  BY <1>3, FS_CardinalityType
<1> QED BY <1>4, <1>6, <1>7

LEMMA RankBound ==
  ASSUME NEW n \in Nat, NEW before, Ranks(n, before), NEW i \in 1 .. n
  PROVE  Cardinality(before[i]) \in 0 .. n - 1
<1>1. IsFiniteSet(1 .. n) /\ Cardinality(1 .. n) = n
  BY FS_Interval
<1>2. before[i] \in SUBSET ((1 .. n) \ {i})
  BY DEF Ranks
<1>3. IsFiniteSet((1 .. n) \ {i}) /\ Cardinality((1 .. n) \ {i}) = n - 1
  BY <1>1, FS_RemoveElement
<1>4. IsFiniteSet(before[i]) /\ Cardinality(before[i]) <= n - 1
  BY <1>2, <1>3, FS_Subset
<1>5. Cardinality(before[i]) \in Nat
  BY <1>4, FS_CardinalityType
<1> QED BY <1>4, <1>5

LEMMA RankFound ==
  ASSUME NEW n \in Nat, NEW before, Ranks(n, before), NEW k \in 0 .. n - 1
  PROVE  \E i \in 1 .. n : Cardinality(before[i]) = k
<1> DEFINE f == [i \in 1 .. n |-> Cardinality(before[i])]
<1>1. f \in [1 .. n -> 0 .. n - 1]
  BY RankBound
<1>2. ASSUME NEW i \in 1 .. n, NEW j \in 1 .. n, i # j
      PROVE  f[i] # f[j]
  <2>1. Cardinality(before[i]) \in Int /\ Cardinality(before[j]) \in Int
    BY RankBound
  <2>2. CASE i \in before[j]
    <3>1. Cardinality(before[i]) < Cardinality(before[j])
      BY <2>2, RankGrows
    <3> QED BY <2>1, <3>1
  <2>3. CASE j \in before[i]
    <3>1. Cardinality(before[j]) < Cardinality(before[i])
      BY <2>3, RankGrows
    <3> QED BY <2>1, <3>1
  <2> QED BY <1>2, <2>2, <2>3 DEF Ranks
<1>3. f \in Injection(1 .. n, 0 .. n - 1)
  <2> HIDE DEF f
  <2> QED BY <1>1, <1>2 DEF Injection, IsInjective
<1>4. /\ IsFiniteSet(1 .. n) /\ Cardinality(1 .. n) = n
      /\ IsFiniteSet(0 .. n - 1) /\ Cardinality(0 .. n - 1) = n
  BY FS_Interval
<1>5. f \in Surjection(1 .. n, 0 .. n - 1)
  <2> HIDE DEF f
  <2> QED BY <1>3, <1>4, FS_Injection
<1>6. PICK i \in 1 .. n : f[i] = k
  <2> HIDE DEF f
  <2> QED BY <1>5 DEF Surjection
<1> QED BY <1>6

-----------------------------------------------------------------------------
(* The comparison of two texts is a strict weak order.  The empty text has *)
(* a name: the SMT backend has none for the literal.                       *)
Keys == Texts \cup {NULL}
IsEmptyText(v) == v = ""
Numeric(K) == \A v \in K : v # NULL /\ ~IsEmptyText(v) => Number(v) # NULL

LEMMA CmpCases ==
  ASSUME NEW x, NEW y, NEW numeric
  PROVE  CmpBefore(x, y, numeric) <=>
           IF x = NULL \/ y = NULL THEN x = NULL /\ y # NULL
           ELSE IF numeric /\ ~IsEmptyText(x) /\ ~IsEmptyText(y) THEN Number(x) < Number(y)
           ELSE TextBefore(x, y)
BY Zenon DEF CmpBefore, IsEmptyText

LEMMA NumericMeans ==
  ASSUME NEW K
  PROVE  AllNumbers(K) <=> Numeric(K)
<1>1. \A v : v \in K \ {NULL, ""} <=> v \in K /\ v # NULL /\ ~IsEmptyText(v)
  BY Zenon DEF IsEmptyText
<1> QED BY <1>1, Zenon DEF AllNumbers, Numeric

LEMMA TextsOrdered ==
  /\ \A x, y, z \in Texts :
       /\ ~TextBefore(x, x)
       /\ TextBefore(x, y) /\ TextBefore(y, z) => TextBefore(x, z)
       /\ TextBefore(x, z) => TextBefore(x, y) \/ TextBefore(y, z)
  /\ \A x, y \in Texts : IsEmptyText(x) => (TextBefore(x, y) <=> ~IsEmptyText(y))
  /\ \A x \in Texts : Number(x) # NULL => Number(x) \in Int
<1>1. \A x, y, z \in Texts :
        /\ ~TextBefore(x, x)
        /\ TextBefore(x, y) /\ TextBefore(y, z) => TextBefore(x, z)
        /\ TextBefore(x, z) => TextBefore(x, y) \/ TextBefore(y, z)
  BY TextOrderAssumption, Zenon
<1>2. \A x \in Texts : x # "" => TextBefore("", x)
  BY TextOrderAssumption, Zenon
<1>3. \A x, y \in Texts : IsEmptyText(x) => (TextBefore(x, y) <=> ~IsEmptyText(y))
  BY <1>1, <1>2, Zenon DEF IsEmptyText
<1>4. \A x \in Texts : Number(x) # NULL => Number(x) \in Int
  BY TextOrderAssumption, Zenon
<1> QED BY <1>1, <1>3, <1>4, Zenon

LEMMA CmpOrder ==
  ASSUME NEW numeric, NEW u \in Keys, NEW v \in Keys, NEW w \in Keys,
         numeric => Numeric({u, v, w})
  PROVE  /\ ~CmpBefore(v, v, numeric)
         /\ CmpBefore(u, v, numeric) /\ CmpBefore(v, w, numeric) => CmpBefore(u, w, numeric)
         /\ CmpBefore(u, w, numeric) => CmpBefore(u, v, numeric) \/ CmpBefore(v, w, numeric)
<1>1. NULL \notin Texts /\ \A x \in Keys : x # NULL => x \in Texts
  BY DEF Texts, Keys
<1> HIDE DEF Keys
<1>2. CASE ~numeric
  <2>1. \A x, y \in Keys : CmpBefore(x, y, numeric) <=>
          IF x = NULL \/ y = NULL THEN x = NULL /\ y # NULL ELSE TextBefore(x, y)
    BY <1>2, CmpCases, Zenon
  <2> QED BY <1>1, <2>1, TextsOrdered
<1>3. CASE numeric
  <2>1. \A x \in {u, v, w} : x # NULL /\ ~IsEmptyText(x) => Number(x) \in Int
    <3> SUFFICES ASSUME NEW x \in {u, v, w}, x # NULL, ~IsEmptyText(x)
                 PROVE  Number(x) \in Int
      OBVIOUS
    <3>1. Number(x) # NULL
      BY <1>3 DEF Numeric
    <3> QED BY <1>1, <3>1, TextsOrdered
  <2>2. \A x, y \in Keys : CmpBefore(x, y, numeric) <=>
          IF x = NULL \/ y = NULL THEN x = NULL /\ y # NULL
          ELSE IF ~IsEmptyText(x) /\ ~IsEmptyText(y) THEN Number(x) < Number(y)
          ELSE TextBefore(x, y)
    BY <1>3, CmpCases, Zenon
  <2>3. \A x, y \in Texts : IsEmptyText(y) => ~TextBefore(x, y)
    BY TextsOrdered
  <2>4. ASSUME NEW x \in {u, v, w}, NEW y \in {u, v, w}
        PROVE  CmpBefore(x, y, numeric) <=>
          \/ x = NULL /\ y # NULL
          \/ IsEmptyText(x) /\ x # NULL /\ y # NULL /\ ~IsEmptyText(y)
          \/ /\ ~IsEmptyText(x) /\ x # NULL /\ y # NULL /\ ~IsEmptyText(y)
             /\ Number(x) < Number(y)
    BY <1>1, <2>2, <2>3, TextsOrdered
  <2> QED BY <2>1, <2>4
<1> QED BY <1>2, <1>3

-----------------------------------------------------------------------------
(* Rows in the order of their keys: rows that compare equal keep theirs.   *)
SortLess(key, numeric, asc, i, j) ==
  IF asc THEN CmpBefore(key[i], key[j], numeric) ELSE CmpBefore(key[j], key[i], numeric)

AheadOf(n, key, numeric, asc, i) ==
  { j \in 1 .. n : \/ SortLess(key, numeric, asc, j, i)
                   \/ ~SortLess(key, numeric, asc, i, j) /\ j < i }

AreKeys(n, key, numeric) ==
  /\ \A i \in 1 .. n : key[i] \in Keys
  /\ numeric => Numeric({ key[i] : i \in 1 .. n })

LEMMA LessOrder ==
  ASSUME NEW n \in Nat, NEW key, NEW numeric, AreKeys(n, key, numeric), NEW asc,
         NEW i \in 1 .. n, NEW j \in 1 .. n, NEW k \in 1 .. n
  PROVE  /\ ~SortLess(key, numeric, asc, j, j)
         /\ SortLess(key, numeric, asc, i, j) /\ SortLess(key, numeric, asc, j, k)
              => SortLess(key, numeric, asc, i, k)
         /\ SortLess(key, numeric, asc, i, k)
              => SortLess(key, numeric, asc, i, j) \/ SortLess(key, numeric, asc, j, k)
<1>1. key[i] \in Keys /\ key[j] \in Keys /\ key[k] \in Keys
  BY DEF AreKeys
<1>2. ASSUME numeric
      PROVE  Numeric({key[i], key[j], key[k]}) /\ Numeric({key[k], key[j], key[i]})
  BY <1>2 DEF AreKeys, Numeric
<1>3. /\ ~CmpBefore(key[j], key[j], numeric)
      /\ CmpBefore(key[i], key[j], numeric) /\ CmpBefore(key[j], key[k], numeric)
           => CmpBefore(key[i], key[k], numeric)
      /\ CmpBefore(key[i], key[k], numeric)
           => CmpBefore(key[i], key[j], numeric) \/ CmpBefore(key[j], key[k], numeric)
  BY <1>1, <1>2, CmpOrder
<1>4. /\ CmpBefore(key[k], key[j], numeric) /\ CmpBefore(key[j], key[i], numeric)
           => CmpBefore(key[k], key[i], numeric)
      /\ CmpBefore(key[k], key[i], numeric)
           => CmpBefore(key[k], key[j], numeric) \/ CmpBefore(key[j], key[i], numeric)
  BY <1>1, <1>2, CmpOrder
<1> QED BY <1>3, <1>4, Zenon DEF SortLess

LEMMA AheadRanks ==
  ASSUME NEW n \in Nat, NEW key, NEW numeric, AreKeys(n, key, numeric), NEW asc
  PROVE  Ranks(n, [i \in 1 .. n |-> AheadOf(n, key, numeric, asc, i)])
<1> DEFINE less(i, j) == SortLess(key, numeric, asc, i, j)
           before == [i \in 1 .. n |-> AheadOf(n, key, numeric, asc, i)]
<1>1. \A i, j, k \in 1 .. n :
        /\ ~less(j, j)
        /\ less(i, j) /\ less(j, k) => less(i, k)
        /\ less(i, k) => less(i, j) \/ less(j, k)
  BY LessOrder
<1>2. \A i, j \in 1 .. n : i \in before[j] <=> less(i, j) \/ (~less(j, i) /\ i < j)
  BY DEF AheadOf
<1>3. before \in [1 .. n -> SUBSET (1 .. n)]
  BY DEF AheadOf
<1> HIDE DEF less, before
<1>4. \A i \in 1 .. n : i \notin before[i]
  BY <1>1, <1>2
<1>5. \A i, j \in 1 .. n : i # j => i \in before[j] \/ j \in before[i]
  BY <1>2
<1>6. ASSUME NEW i \in 1 .. n, NEW j \in 1 .. n, NEW k \in 1 .. n, i \in before[j], k \in before[i]
      PROVE  k \in before[j]
  <2>1. less(i, j) \/ (~less(j, i) /\ i < j)
    BY <1>2, <1>6
  <2>2. less(k, i) \/ (~less(i, k) /\ k < i)
    BY <1>2, <1>6
  <2>3. less(k, j) \/ (~less(j, k) /\ k < j)
    <3>1. CASE less(k, j)
      BY <3>1
    <3>2. CASE ~less(k, j)
      <4>1. ~less(i, j)
        <5>1. SUFFICES ASSUME less(i, j) PROVE FALSE
          OBVIOUS
        <5>2. less(i, k) \/ less(k, j)
          BY <1>1, <5>1
        <5>3. less(i, k)
          BY <3>2, <5>2
        <5>4. less(k, i)
          BY <2>2, <5>3
        <5> QED BY <1>1, <5>3, <5>4
      <4>2. ~less(j, i) /\ i < j
        BY <2>1, <4>1
      <4>3. ~less(k, i)
        <5>1. SUFFICES ASSUME less(k, i) PROVE FALSE
          OBVIOUS
        <5>2. less(k, j) \/ less(j, i)
          BY <1>1, <5>1
        <5> QED BY <3>2, <4>2, <5>2
      <4>4. ~less(i, k) /\ k < i
        BY <2>2, <4>3
      <4>5. ~less(j, k)
        <5>1. SUFFICES ASSUME less(j, k) PROVE FALSE
          OBVIOUS
        <5>2. less(j, i) \/ less(i, k)
          BY <1>1, <5>1
        <5> QED BY <4>2, <4>4, <5>2
      <4>6. k < j
        BY <4>2, <4>4
      <4> QED BY <4>5, <4>6
    <3> QED BY <3>1, <3>2
  <2> QED BY <1>2, <2>3
<1>7. \A i, j \in 1 .. n : i \in before[j] => before[i] \subseteq before[j]
  <2>1. ASSUME NEW i \in 1 .. n, NEW j \in 1 .. n, i \in before[j], NEW k \in before[i]
        PROVE  k \in before[j]
    <3>1. k \in 1 .. n
      BY <1>3
    <3> QED BY <1>6, <2>1, <3>1
  <2> QED BY <2>1
<1>8. Ranks(n, before)
  BY <1>3, <1>4, <1>5, <1>7 DEF Ranks
<1> QED BY <1>8 DEF before

(* So sorting permutes the rows, and none comes after one it is less than. *)
SortsTo(s, t, c, key, numeric, asc) ==
  /\ c \in [1 .. Len(s) -> 1 .. Len(s)]
  /\ t = [k \in DOMAIN s |-> s[c[k]]]
  /\ \A i \in 1 .. Len(s) : \E k \in 1 .. Len(s) : c[k] = i
  /\ \A k, l \in 1 .. Len(s) : k < l => ~SortLess(key, numeric, asc, c[l], c[k])

SortKey(s, table, field) == [i \in DOMAIN s |-> FieldVal(table, s[i], field)]
SortNumeric(s, key) == AllNumbers({ key[i] : i \in DOMAIN s })

LEMMA SortSorts ==
  ASSUME NEW s, IsSequence(s), NEW table, NEW query, query.sort_field # NULL,
         \A i \in 1 .. Len(s) : SortKey(s, table, query.sort_field)[i] \in Keys
  PROVE  \E c : SortsTo(s, SortRows(s, table, query), c, SortKey(s, table, query.sort_field),
                        SortNumeric(s, SortKey(s, table, query.sort_field)), query.sort_asc)
<1> DEFINE n == Len(s)
           key == SortKey(s, table, query.sort_field)
           numeric == SortNumeric(s, key)
           asc == query.sort_asc
           ahead(i) == AheadOf(n, key, numeric, asc, i)
           c == [k \in 1 .. n |-> CHOOSE i \in 1 .. n : Cardinality(ahead(i)) = k - 1]
           before == [i \in 1 .. n |-> ahead(i)]
<1>1. n \in Nat /\ DOMAIN s = 1 .. n /\ DOMAIN key = 1 .. n
  BY SequenceFacts DEF SortKey
<1>2. AreKeys(n, key, numeric)
  <2>1. { key[i] : i \in DOMAIN s } = { key[i] : i \in 1 .. n }
    BY <1>1
  <2>2. numeric => Numeric({ key[i] : i \in 1 .. n })
    BY <2>1, NumericMeans DEF SortNumeric
  <2> QED BY <2>2 DEF AreKeys
<1>3. Ranks(n, before)
  <2> HIDE DEF key, numeric, asc
  <2> QED BY <1>1, <1>2, AheadRanks
<1>4. SortRows(s, table, query) = [k \in DOMAIN s |-> s[c[k]]]
  <2>2. SortRows(s, table, query) =
          [k \in DOMAIN s |->
             s[CHOOSE i \in DOMAIN s :
                 Cardinality({ j \in DOMAIN s : 
                    \/ (IF asc THEN CmpBefore(key[j], key[i], numeric) ELSE CmpBefore(key[i], key[j], numeric))
                    \/ ~(IF asc THEN CmpBefore(key[i], key[j], numeric) ELSE CmpBefore(key[j], key[i], numeric))
                       /\ j < i }) = k - 1]]
    BY Zenon DEF SortRows, SortKey, SortNumeric
  <2>3. SortRows(s, table, query) =
          [k \in DOMAIN s |-> s[CHOOSE i \in 1 .. n : Cardinality(ahead(i)) = k - 1]]
    BY <1>1, <2>2, Zenon DEF AheadOf, SortLess
  <2> QED BY <1>1, <2>3
<1>5. \A k \in 1 .. n : c[k] \in 1 .. n /\ Cardinality(before[c[k]]) = k - 1
  <2> SUFFICES ASSUME NEW k \in 1 .. n
               PROVE  c[k] \in 1 .. n /\ Cardinality(before[c[k]]) = k - 1
    OBVIOUS
  <2>1. k - 1 \in 0 .. n - 1
    BY <1>1
  <2>2. \E i \in 1 .. n : Cardinality(before[i]) = k - 1
    <3> HIDE DEF before, n
    <3> QED BY <1>1, <1>3, <2>1, RankFound
  <2>3. \E i \in 1 .. n : Cardinality(ahead(i)) = k - 1
    <3> HIDE DEF ahead
    <3> QED BY <2>2
  <2> HIDE DEF ahead
  <2>4. c[k] \in 1 .. n /\ Cardinality(ahead(c[k])) = k - 1
    BY <2>3
  <2> QED BY <2>4
<1>6. ASSUME NEW i \in 1 .. n
      PROVE  \E k \in 1 .. n : c[k] = i
  <2> HIDE DEF c, before, n
  <2> DEFINE k == Cardinality(before[i]) + 1
  <2>1. Cardinality(before[i]) \in 0 .. n - 1
    BY <1>1, <1>3, <1>6, RankBound
  <2>2. k \in 1 .. n /\ k - 1 = Cardinality(before[i])
    BY <1>1, <2>1
  <2> HIDE DEF k
  <2>3. c[k] \in 1 .. n /\ Cardinality(before[c[k]]) = Cardinality(before[i])
    BY <1>5, <2>2
  <2>4. CASE c[k] # i
    <3>1. i \in before[c[k]] \/ c[k] \in before[i]
      BY <1>3, <1>6, <2>3, <2>4 DEF Ranks
    <3>2. Cardinality(before[i]) < Cardinality(before[c[k]])
            \/ Cardinality(before[c[k]]) < Cardinality(before[i])
      BY <1>1, <1>3, <1>6, <2>3, <3>1, RankGrows
    <3> QED BY <2>1, <2>3, <3>2
  <2> QED BY <2>2, <2>4
<1>7. ASSUME NEW k \in 1 .. n, NEW l \in 1 .. n, k < l
      PROVE  ~SortLess(key, numeric, asc, c[l], c[k])
  <2>1. c[k] \in 1 .. n /\ c[l] \in 1 .. n /\ Cardinality(before[c[k]]) = k - 1
        /\ Cardinality(before[c[l]]) = l - 1
    BY <1>5
  <2>2. SUFFICES ASSUME SortLess(key, numeric, asc, c[l], c[k])
                 PROVE  FALSE
    OBVIOUS
  <2>3. c[l] \in AheadOf(n, key, numeric, asc, c[k])
    <3> HIDE DEF c, key, numeric, asc
    <3> QED BY <2>1, <2>2 DEF AheadOf
  <2>4. c[l] \in before[c[k]]
    <3> HIDE DEF c
    <3> QED BY <2>1, <2>3
  <2>5. Cardinality(before[c[l]]) < Cardinality(before[c[k]])
    <3> HIDE DEF c, before, n
    <3> QED BY <1>1, <1>3, <2>1, <2>4, RankGrows
  <2>6. k \in Int /\ l \in Int
    BY <1>1
  <2> HIDE DEF before, c, n
  <2> QED BY <1>7, <2>1, <2>5, <2>6
<1>8. c \in [1 .. n -> 1 .. n]
  <2>1. c = [k \in 1 .. n |-> c[k]]
    OBVIOUS
  <2> HIDE DEF c
  <2> QED BY <1>5, <2>1
<1>9. SortsTo(s, SortRows(s, table, query), c, key, numeric, asc)
  <2> HIDE DEF c, key, numeric, asc
  <2> QED BY <1>4, <1>6, <1>7, <1>8 DEF SortsTo
<1> QED BY <1>9

-----------------------------------------------------------------------------
(* What the stages together keep.                                          *)
StoredTexts == [RowId -> [Field -> Keys]]
AreRows(s) == IsSequence(s) /\ ToSet(s) \subseteq RowId

MeetsStages(table, r, query) ==
  /\ \A i \in FtsFilters(query) : FtsKeeps(table, r, query.filters[i])
  /\ \A f \in RefGroups(query) :
       RefKeeps(table[r][f], ValuesOf(query, Handled(query), f), Type[f], AllOf(query, f))
  /\ query.q # NULL => IF QFails(query) THEN QKeeps(table, r, query.q)
                                        ELSE RowMatchesQ(table, r, query.q)
  /\ \A i \in Residual(query) : FilterKeeps(table, r, query.filters[i])

LEMMA FieldValIsKey ==
  ASSUME NEW table \in StoredTexts, NEW r \in RowId, NEW f
  PROVE  FieldVal(table, r, f) \in Keys
BY DEF StoredTexts, FieldVal, Keys

LEMMA SortPermutes ==
  ASSUME NEW table \in StoredTexts, NEW s, AreRows(s), NEW query
  PROVE  LET t == SortRows(s, table, query)
         IN IsSequence(t) /\ Len(t) = Len(s) /\ ToSet(t) = ToSet(s)
<1> DEFINE t == SortRows(s, table, query)
           key == SortKey(s, table, query.sort_field)
<1>1. IsSequence(s) /\ Len(s) \in Nat /\ DOMAIN s = 1 .. Len(s) /\ ToSet(s) \subseteq RowId
  BY SequenceFacts DEF AreRows
<1>2. CASE query.sort_field = NULL
  BY <1>1, <1>2 DEF SortRows
<1>3. CASE query.sort_field # NULL
  <2>1. \A i \in 1 .. Len(s) : key[i] \in Keys
    <3> SUFFICES ASSUME NEW i \in 1 .. Len(s)
                 PROVE  key[i] \in Keys
      OBVIOUS
    <3>1. s[i] \in RowId
      BY <1>1 DEF ToSet
    <3> QED BY <1>1, <3>1, FieldValIsKey DEF SortKey
  <2>2. PICK c : SortsTo(s, t, c, key, SortNumeric(s, key), query.sort_asc)
    <3> HIDE DEF t
    <3> QED BY <1>1, <1>3, <2>1, SortSorts DEF t
  <2>3. /\ c \in [1 .. Len(s) -> 1 .. Len(s)] /\ t = [k \in DOMAIN s |-> s[c[k]]]
        /\ \A i \in 1 .. Len(s) : \E k \in 1 .. Len(s) : c[k] = i
    BY <2>2 DEF SortsTo
  <2> HIDE DEF t
  <2>4. DOMAIN t = DOMAIN s /\ t = [k \in DOMAIN t |-> t[k]]
    BY <2>3
  <2>5. IsSequence(t) /\ Len(t) = Len(s)
    BY <1>1, <2>4, SequenceMap
  <2>6. \A k \in 1 .. Len(s) : t[k] = s[c[k]] /\ c[k] \in 1 .. Len(s)
    BY <1>1, <2>3
  <2>7. \A x : x \in ToSet(t) <=> \E k \in 1 .. Len(s) : t[k] = x
    BY <2>5, SequenceFacts
  <2>8. \A x : x \in ToSet(s) <=> \E k \in 1 .. Len(s) : s[k] = x
    BY <1>1, SequenceFacts
  <2>9. ASSUME NEW x \in ToSet(t)
        PROVE  x \in ToSet(s)
    BY <2>6, <2>7, <2>8
  <2>10. ASSUME NEW x \in ToSet(s)
         PROVE  x \in ToSet(t)
    <3>1. PICK i \in 1 .. Len(s) : s[i] = x
      BY <2>8
    <3>2. PICK k \in 1 .. Len(s) : c[k] = i
      BY <2>3
    <3> QED BY <2>6, <2>7, <3>1, <3>2
  <2>11. ToSet(t) = ToSet(s)
    BY <2>9, <2>10
  <2> QED BY <2>5, <2>11 DEF t
<1> QED BY <1>2, <1>3

LEMMA FtsStage ==
  ASSUME NEW base, AreRows(base), NEW table, NEW query
  PROVE  LET t == PrefilterFts(base, table, query)
         IN /\ AreRows(t) /\ Len(t) <= Len(base)
            /\ \A r : r \in ToSet(t) <=>
                 /\ r \in ToSet(base)
                 /\ \A i \in FtsFilters(query) : FtsKeeps(table, r, query.filters[i])
<1> DEFINE S == { r \in ToSet(base) :
                    \A i \in FtsFilters(query) : FtsKeeps(table, r, query.filters[i]) }
           t == Only(base, S)
<1>1. /\ IsSequence(t) /\ Len(t) <= Len(base) /\ ToSet(t) = ToSet(base) \cap S
  <2> HIDE DEF S
  <2> QED BY OnlyFacts DEF AreRows
<1>2. PrefilterFts(base, table, query) = t
  BY Zenon DEF PrefilterFts
<1>3. ToSet(base) \subseteq RowId
  BY DEF AreRows
<1>4. \A r : r \in S <=> r \in ToSet(base)
                           /\ \A i \in FtsFilters(query) : FtsKeeps(table, r, query.filters[i])
  OBVIOUS
<1> HIDE DEF S, t
<1> QED BY <1>1, <1>2, <1>3, <1>4 DEF AreRows

LEMMA RefStage ==
  ASSUME NEW base, AreRows(base), NEW table, NEW query
  PROVE  LET t == PrefilterMultiRef(base, table, query)
         IN /\ AreRows(t) /\ Len(t) <= Len(base)
            /\ \A r : r \in ToSet(t) <=>
                 /\ r \in ToSet(base)
                 /\ \A f \in RefGroups(query) :
                      RefKeeps(table[r][f], ValuesOf(query, Handled(query), f),
                               Type[f], AllOf(query, f))
<1> DEFINE keeps(r) == \A f \in RefGroups(query) :
                         RefKeeps(table[r][f], ValuesOf(query, Handled(query), f),
                                  Type[f], AllOf(query, f))
           S == { r \in ToSet(base) : keeps(r) }
           t == Only(base, S)
<1>1. /\ IsSequence(t) /\ Len(t) <= Len(base) /\ ToSet(t) = ToSet(base) \cap S
  <2> HIDE DEF S
  <2> QED BY OnlyFacts DEF AreRows
<1>2. PrefilterMultiRef(base, table, query) = t
  BY Zenon DEF PrefilterMultiRef
<1>3. ToSet(base) \subseteq RowId
  BY DEF AreRows
<1> HIDE DEF keeps
<1>4. \A r : r \in S <=> r \in ToSet(base) /\ keeps(r)
  OBVIOUS
<1> HIDE DEF S, t
<1>5. /\ AreRows(t) /\ Len(t) <= Len(base)
      /\ \A r : r \in ToSet(t) <=> r \in ToSet(base) /\ keeps(r)
  BY <1>1, <1>3, <1>4 DEF AreRows
<1> QED BY <1>2, <1>5, Zenon DEF keeps

LEMMA TermStage ==
  ASSUME NEW base, AreRows(base), NEW table, NEW query
  PROVE  LET t == PrefilterQ(base, table, query)
         IN /\ AreRows(t) /\ Len(t) <= Len(base)
            /\ \A r : r \in ToSet(t) <=>
                 /\ r \in ToSet(base)
                 /\ query.q # NULL /\ ~QFails(query) => RowMatchesQ(table, r, query.q)
<1> DEFINE S == { r \in ToSet(base) : RowMatchesQ(table, r, query.q) }
           t == Only(base, S)
<1>1. /\ IsSequence(t) /\ Len(t) <= Len(base) /\ ToSet(t) = ToSet(base) \cap S
  <2> HIDE DEF S
  <2> QED BY OnlyFacts DEF AreRows
<1>2. PrefilterQ(base, table, query) = IF query.q = NULL \/ QFails(query) THEN base ELSE t
  BY Zenon DEF PrefilterQ
<1>3. ToSet(base) \subseteq RowId /\ IsSequence(base) /\ Len(base) \in Nat
  BY SequenceFacts DEF AreRows
<1>4. \A r : r \in S <=> r \in ToSet(base) /\ RowMatchesQ(table, r, query.q)
  OBVIOUS
<1> HIDE DEF S, t
<1>5. CASE query.q = NULL \/ QFails(query)
  BY <1>2, <1>3, <1>5 DEF AreRows
<1>6. CASE ~(query.q = NULL \/ QFails(query))
  BY <1>1, <1>2, <1>3, <1>4, <1>6 DEF AreRows
<1> QED BY <1>5, <1>6

LEMMA ResidualStage ==
  ASSUME NEW base, AreRows(base), NEW table, NEW query
  PROVE  LET t == FilterRows(base, table, query)
         IN /\ AreRows(t) /\ Len(t) <= Len(base)
            /\ \A r : r \in ToSet(t) <=>
                 /\ r \in ToSet(base)
                 /\ \A i \in Residual(query) : FilterKeeps(table, r, query.filters[i])
                 /\ query.q # NULL /\ QFails(query) => QKeeps(table, r, query.q)
<1> DEFINE keeps(r) == /\ \A i \in Residual(query) : FilterKeeps(table, r, query.filters[i])
                       /\ query.q # NULL /\ QFails(query) => QKeeps(table, r, query.q)
           S == { r \in ToSet(base) : keeps(r) }
           t == Only(base, S)
<1>1. /\ IsSequence(t) /\ Len(t) <= Len(base) /\ ToSet(t) = ToSet(base) \cap S
  <2> HIDE DEF S
  <2> QED BY OnlyFacts DEF AreRows
<1>2. FilterRows(base, table, query) = t
  BY Zenon DEF FilterRows
<1>3. ToSet(base) \subseteq RowId
  BY DEF AreRows
<1> HIDE DEF keeps
<1>4. \A r : r \in S <=> r \in ToSet(base) /\ keeps(r)
  OBVIOUS
<1> HIDE DEF S, t
<1>5. /\ AreRows(t) /\ Len(t) <= Len(base)
      /\ \A r : r \in ToSet(t) <=> r \in ToSet(base) /\ keeps(r)
  BY <1>1, <1>3, <1>4 DEF AreRows
<1> QED BY <1>2, <1>5, Zenon DEF keeps

LEMMA AnswerElements ==
  ASSUME NEW table \in StoredTexts, NEW s, AreRows(s), NEW query
  PROVE  LET t == Answer(s, table, query)
         IN /\ IsSequence(t) /\ Len(t) <= Len(s)
            /\ \A r : r \in ToSet(t) <=> r \in ToSet(s) /\ MeetsStages(table, r, query)
<1> DEFINE a == PrefilterFts(s, table, query)
           b == PrefilterMultiRef(a, table, query)
           c == PrefilterQ(b, table, query)
           d == FilterRows(c, table, query)
           t == SortRows(d, table, query)
           keepsF(r) == \A f \in RefGroups(query) :
                          RefKeeps(table[r][f], ValuesOf(query, Handled(query), f),
                                   Type[f], AllOf(query, f))
<1>1. /\ AreRows(a) /\ Len(a) <= Len(s)
      /\ \A r : r \in ToSet(a) <=> r \in ToSet(s)
           /\ \A i \in FtsFilters(query) : FtsKeeps(table, r, query.filters[i])
  BY FtsStage
<1> HIDE DEF a
<1>2. /\ AreRows(b) /\ Len(b) <= Len(a)
      /\ \A r : r \in ToSet(b) <=> r \in ToSet(a) /\ keepsF(r)
  BY <1>1, RefStage
<1> HIDE DEF b
<1>3. /\ AreRows(c) /\ Len(c) <= Len(b)
      /\ \A r : r \in ToSet(c) <=>
           /\ r \in ToSet(b)
           /\ query.q # NULL /\ ~QFails(query) => RowMatchesQ(table, r, query.q)
  BY <1>2, TermStage
<1> HIDE DEF c
<1>4. /\ AreRows(d) /\ Len(d) <= Len(c)
      /\ \A r : r \in ToSet(d) <=>
           /\ r \in ToSet(c)
           /\ \A i \in Residual(query) : FilterKeeps(table, r, query.filters[i])
           /\ query.q # NULL /\ QFails(query) => QKeeps(table, r, query.q)
  BY <1>3, ResidualStage
<1> HIDE DEF d
<1>5. IsSequence(t) /\ Len(t) = Len(d) /\ ToSet(t) = ToSet(d)
  BY <1>4, SortPermutes
<1>6. Answer(s, table, query) = t
  BY Zenon DEF Answer, Candidates, a, b, c, d
<1>7. Len(a) \in Nat /\ Len(b) \in Nat /\ Len(c) \in Nat /\ Len(d) \in Nat /\ Len(s) \in Nat
  BY <1>1, <1>2, <1>3, <1>4, SequenceFacts DEF AreRows
<1>8. ASSUME NEW r
      PROVE  MeetsStages(table, r, query) <=>
               /\ \A i \in FtsFilters(query) : FtsKeeps(table, r, query.filters[i])
               /\ keepsF(r)
               /\ query.q # NULL /\ ~QFails(query) => RowMatchesQ(table, r, query.q)
               /\ \A i \in Residual(query) : FilterKeeps(table, r, query.filters[i])
               /\ query.q # NULL /\ QFails(query) => QKeeps(table, r, query.q)
  BY Zenon DEF MeetsStages
<1> HIDE DEF t, keepsF
<1>9. \A r : r \in ToSet(t) <=> r \in ToSet(s) /\ MeetsStages(table, r, query)
  BY <1>1, <1>2, <1>3, <1>4, <1>5, <1>8, Zenon
<1> QED BY <1>1, <1>2, <1>3, <1>4, <1>5, <1>6, <1>7, <1>9

-----------------------------------------------------------------------------
(* The fields that prefilter_multi_ref has handled, one after the other.   *)
IsFilters(query) == IsSequence(query.filters)

LEMMA FilterPlaces ==
  ASSUME NEW query, IsFilters(query)
  PROVE  /\ DOMAIN query.filters = 1 .. Len(query.filters) /\ Len(query.filters) \in Nat
         /\ FtsFilters(query) \subseteq DOMAIN query.filters
         /\ RefFilters(query) \subseteq DOMAIN query.filters
         /\ Collected(query) \subseteq RefFilters(query)
         /\ Handled(query) \subseteq Collected(query)
<1>1. DOMAIN query.filters = 1 .. Len(query.filters) /\ Len(query.filters) \in Nat
  BY SequenceFacts DEF IsFilters
<1>2. FtsFilters(query) \subseteq DOMAIN query.filters
  BY DEF FtsFilters
<1>3. RefFilters(query) \subseteq DOMAIN query.filters
  BY DEF RefFilters
<1>4. Collected(query) \subseteq RefFilters(query)
  BY DEF Collected
<1>5. Handled(query) \subseteq Collected(query)
  BY DEF Handled
<1> QED BY <1>1, <1>2, <1>3, <1>4, <1>5

LEMMA RefOrderElements ==
  ASSUME NEW query, IsFilters(query)
  PROVE  /\ IsSequence(RefOrder(query))
         /\ ToSet(RefOrder(query)) = FieldsOf(query, Handled(query))
<1> DEFINE D == DOMAIN query.filters
           f(i) == query.filters[i].field
           H == Handled(query)
           firsts == { i \in H : \A j \in H : f(j) = f(i) => i <= j }
           id == [i \in D |-> i]
           order == Only(id, firsts)
           t == [k \in DOMAIN order |-> f(order[k])]
<1>1. D = 1 .. Len(query.filters) /\ Len(query.filters) \in Nat /\ H \subseteq D
  BY FilterPlaces
<1>2. RefOrder(query) = t
  BY DEF RefOrder
<1> HIDE DEF D, H
<1>3. IsSequence(id) /\ ToSet(id) = D
  <2>1. DOMAIN id = 1 .. Len(query.filters) /\ id = [i \in DOMAIN id |-> id[i]]
    BY <1>1
  <2>2. ToSet(id) = D
    BY DEF ToSet
  <2> HIDE DEF id
  <2>3. IsSequence(id)
    BY <1>1, <2>1, SequenceOf
  <2> QED BY <2>2, <2>3
<1>4. firsts \subseteq D
  BY <1>1
<1> HIDE DEF id, firsts
<1>5. IsSequence(order) /\ ToSet(order) = firsts
  <2>1. IsSequence(order) /\ ToSet(order) = ToSet(id) \cap firsts
    BY <1>3, OnlyFacts
  <2> QED BY <1>3, <1>4, <2>1
<1> HIDE DEF order
<1>6. IsSequence(t)
  <2>1. DOMAIN t = DOMAIN order /\ t = [i \in DOMAIN t |-> t[i]]
    OBVIOUS
  <2> HIDE DEF t
  <2> QED BY <1>5, <2>1, SequenceMap
<1>7. ToSet(t) = { f(i) : i \in firsts }
  <2>1. firsts = { order[k] : k \in DOMAIN order }
    BY <1>5 DEF ToSet
  <2>2. DOMAIN t = DOMAIN order /\ \A k \in DOMAIN order : t[k] = f(order[k])
    OBVIOUS
  <2> HIDE DEF t
  <2> QED BY <2>1, <2>2 DEF ToSet
<1>8. ASSUME NEW i \in H
      PROVE  \E j \in firsts : f(j) = f(i)
  <2> DEFINE T == { j \in H : f(j) = f(i) }
  <2>1. T \in SUBSET Nat /\ i \in T
    <3>1. T \subseteq H /\ i \in T
      BY <1>8, Zenon
    <3>2. H \subseteq Nat
      BY <1>1
    <3> HIDE DEF T
    <3> QED BY <3>1, <3>2
  <2>2. Min(T) \in T /\ \A j \in T : Min(T) <= j
    <3> HIDE DEF T
    <3> QED BY <2>1, FirstExists
  <2>3. PICK m \in T : \A j \in T : m <= j
    <3> HIDE DEF T
    <3> QED BY <2>2
  <2>4. m \in H /\ f(m) = f(i) /\ \A j \in H : f(j) = f(m) => m <= j
    BY <2>3
  <2>5. m \in firsts
    BY <2>4 DEF firsts
  <2> QED BY <2>4, <2>5
<1>9. FieldsOf(query, H) = { f(i) : i \in H }
  BY DEF FieldsOf
<1>10. firsts \subseteq H
  BY DEF firsts
<1>11. { f(i) : i \in firsts } = { f(i) : i \in H }
  BY <1>8, <1>10
<1> QED BY <1>2, <1>6, <1>7, <1>9, <1>11 DEF H

LEMMA GroupsSteps ==
  ASSUME NEW order, IsSequence(order), NEW failed
  PROVE  LET c == GroupsUpTo(order, failed)
         IN /\ c[0] = {}
            /\ \A n \in 1 .. Len(order) :
                 c[n] = IF <<"set", order[n]>> \in failed THEN c[n - 1]
                        ELSE IF c[n - 1] # {} /\ <<"meet", order[n]>> \in failed THEN {}
                        ELSE c[n - 1] \cup {order[n]}
            /\ \A n \in 0 .. Len(order) : c[n] \subseteq ToSet(order)
<1> DEFINE N == Len(order)
           X == SUBSET ToSet(order)
           step(n, t) == IF <<"set", order[n]>> \in failed THEN t
                         ELSE IF t # {} /\ <<"meet", order[n]>> \in failed THEN {}
                         ELSE t \cup {order[n]}
           Is(h) == h = [n \in 0 .. N |-> IF n = 0 THEN {}
                           ELSE IF <<"set", order[n]>> \in failed THEN h[n - 1]
                           ELSE IF h[n - 1] # {} /\ <<"meet", order[n]>> \in failed THEN {}
                           ELSE h[n - 1] \cup {order[n]}]
           c == CHOOSE h : Is(h)
           g == [n \in 1 .. N |-> [t \in X |-> step(n, t)]]
<1>1. N \in Nat /\ \A n \in 1 .. N : order[n] \in ToSet(order)
  BY SequenceFacts
<1>2. {} \in X /\ \A n \in 1 .. N, t \in X : step(n, t) \in X
  BY <1>1
<1>3. g \in [1 .. N -> [X -> X]]
  <2> HIDE DEF X, step
  <2> QED BY <1>2
<1>4. PICK f \in [0 .. N -> X] : Solves(f, g, {}, N)
  <2> HIDE DEF g, X
  <2> QED BY <1>1, <1>2, <1>3, RecursionUpTo
<1>5. Is(f)
  <2>1. f[0] = {} /\ \A n \in 1 .. N : f[n] = step(n, f[n - 1])
    <3> HIDE DEF X, step
    <3>1. \A n \in 1 .. N : f[n - 1] \in X
      BY <1>1
    <3>2. \A n \in 1 .. N : f[n] = g[n][f[n - 1]]
      BY <1>4 DEF Solves
    <3> QED BY <1>4, <3>1, <3>2 DEF Solves
  <2>2. f = [n \in 0 .. N |-> f[n]]
    OBVIOUS
  <2> HIDE DEF X, g
  <2>3. \A n \in 0 .. N : n # 0 => n \in 1 .. N
    BY <1>1
  <2>4. \A n \in 0 .. N : f[n] =
          IF n = 0 THEN {}
          ELSE IF <<"set", order[n]>> \in failed THEN f[n - 1]
          ELSE IF f[n - 1] # {} /\ <<"meet", order[n]>> \in failed THEN {}
          ELSE f[n - 1] \cup {order[n]}
    BY <2>1, <2>3, Zenon
  <2> QED BY <2>2, <2>4
<1>6. Is(c)
  <2> HIDE DEF Is, g, X
  <2> QED BY <1>5
<1>7. GroupsUpTo(order, failed) = c
  BY DEF GroupsUpTo
<1>8. c[0] = {} /\ \A n \in 1 .. N : c[n] = step(n, c[n - 1])
  <2> HIDE DEF c, g, X
  <2>1. 0 \in 0 .. N /\ \A n \in 1 .. N : n \in 0 .. N /\ n # 0
    BY <1>1
  <2> QED BY <1>6, <2>1, Zenon
<1>9. \A n \in 0 .. N : c[n] \in X
  <2> HIDE DEF c, step, X
  <2> DEFINE T == { n \in 0 .. N : c[n] \in X }
  <2>1. 0 \in T
    <3>1. c[0] \in X /\ 0 \in 0 .. N
      <4>1. c[0] = {} /\ {} \in X
        BY <1>2, <1>8, Zenon
      <4> QED BY <1>1, <4>1
    <3> QED BY <3>1
  <2>2. \A n \in 0 .. N - 1 : n \in T => n + 1 \in T
    <3> SUFFICES ASSUME NEW n \in 0 .. N - 1, n \in T
                 PROVE  c[n + 1] \in X
      BY <1>1
    <3>1. n + 1 \in 1 .. N /\ (n + 1) - 1 = n
      BY <1>1
    <3>2. c[n + 1] = step(n + 1, c[n])
      BY <1>8, <3>1
    <3> QED BY <1>2, <3>1, <3>2
  <2>3. \A n \in 0 .. N : n \in T
    <3> HIDE DEF T
    <3> QED BY <1>1, <2>1, <2>2, InductionUpTo
  <2> QED BY <2>3
<1> HIDE DEF c
<1> QED BY <1>7, <1>8, <1>9

(* A field has its group as long as its set has opened, and every          *)
(* intersection from there on.                                             *)
LEMMA GroupStays ==
  ASSUME NEW order, IsSequence(order), NEW failed, NEW k \in 1 .. Len(order),
         <<"set", order[k]>> \notin failed,
         \A j \in k .. Len(order) : <<"meet", order[j]>> \notin failed
  PROVE  order[k] \in GroupsUpTo(order, failed)[Len(order)]
<1> DEFINE N == Len(order)
           c == GroupsUpTo(order, failed)
           T == { m \in 0 .. N - k : order[k] \in c[k + m] }
<1>1. N \in Nat /\ k \in Nat /\ N - k \in Nat
  BY SequenceFacts
<1>2. \A n \in 1 .. N : c[n] = IF <<"set", order[n]>> \in failed THEN c[n - 1]
                               ELSE IF c[n - 1] # {} /\ <<"meet", order[n]>> \in failed THEN {}
                               ELSE c[n - 1] \cup {order[n]}
  BY GroupsSteps, Zenon
<1> HIDE DEF c
<1>3. 0 \in T
  <2>1. k + 0 = k /\ k \in k .. N /\ 0 \in 0 .. N - k
    BY <1>1
  <2>2. c[k] = c[k - 1] \cup {order[k]}
    BY <1>2, <2>1
  <2> QED BY <2>1, <2>2
<1>4. ASSUME NEW m \in 0 .. (N - k) - 1, m \in T
      PROVE  m + 1 \in T
  <2> DEFINE n == k + (m + 1)
  <2>1. n \in 1 .. N /\ n \in k .. N /\ n - 1 = k + m /\ m + 1 \in 0 .. N - k
    BY <1>1
  <2>2. order[k] \in c[n - 1]
    BY <1>4, <2>1
  <2>3. c[n] = IF <<"set", order[n]>> \in failed THEN c[n - 1] ELSE c[n - 1] \cup {order[n]}
    <3> HIDE DEF n
    <3> QED BY <1>2, <2>1
  <2>4. order[k] \in c[n]
    BY <2>2, <2>3
  <2> QED BY <2>1, <2>4
<1>5. N - k \in 0 .. N - k /\ k + (N - k) = N
  BY <1>1
<1>6. N - k \in T
  <2> HIDE DEF T
  <2> QED BY <1>1, <1>3, <1>4, <1>5, InductionUpTo
<1> QED BY <1>5, <1>6 DEF c

LEMMA GroupsHandled ==
  ASSUME NEW query, IsFilters(query), query.failed = {}
  PROVE  RefGroups(query) = FieldsOf(query, Handled(query))
<1> DEFINE order == RefOrder(query)
<1>1. IsSequence(order) /\ ToSet(order) = FieldsOf(query, Handled(query))
  BY RefOrderElements
<1> HIDE DEF order
<1>2. \A k \in 1 .. Len(order) : order[k] \in GroupsUpTo(order, {})[Len(order)]
  BY <1>1, GroupStays
<1>3. Len(order) \in 0 .. Len(order)
  BY <1>1, SequenceFacts
<1>4. GroupsUpTo(order, {})[Len(order)] \subseteq ToSet(order)
  BY <1>1, <1>3, GroupsSteps
<1>5. ToSet(order) \subseteq GroupsUpTo(order, {})[Len(order)]
  BY <1>1, <1>2, SequenceFacts
<1>6. RefGroups(query) = GroupsUpTo(order, {})[Len(order)]
  BY Zenon DEF RefGroups, order
<1> DEFINE G == GroupsUpTo(order, {})[Len(order)]
<1>7. G \subseteq ToSet(order) /\ ToSet(order) \subseteq G
  BY <1>4, <1>5
<1> HIDE DEF G
<1>8. G = ToSet(order)
  BY <1>7
<1> QED BY <1>1, <1>6, <1>8, Zenon DEF G

-----------------------------------------------------------------------------
(* What the stages ask of one field is what its filters mean.              *)
Other(query, f) == ValuesOf(query, DOMAIN query.filters \ FtsFilters(query), f)

ByIdentity(query, f) ==
  \/ Type[f] = "multi_reference" /\ f \in HasTarget
  \/ Type[f] = "reference" /\ Cardinality(Other(query, f)) > 1

StagesOfField(table, r, query, f) ==
  /\ \A i \in FtsFilters(query) :
       query.filters[i].field = f => FtsKeeps(table, r, query.filters[i])
  /\ f \in FieldsOf(query, Handled(query)) =>
       RefKeeps(table[r][f], ValuesOf(query, Handled(query), f), Type[f], AllOf(query, f))
  /\ \A i \in Residual(query) :
       query.filters[i].field = f => FilterKeeps(table, r, query.filters[i])

LEMMA ValuesAsked ==
  ASSUME NEW query, NEW I, NEW f, NEW v
  PROVE  v \in ValuesOf(query, I, f) <=>
           \E i \in I : query.filters[i].field = f /\ query.filters[i].value = v
BY DEF ValuesOf

LEMMA ValuesFinite ==
  ASSUME NEW query, IsFilters(query), NEW I \in SUBSET (DOMAIN query.filters), NEW f
  PROVE  Cardinality(ValuesOf(query, I, f)) \in Nat
<1> DEFINE J == { i \in I : query.filters[i].field = f }
           V == ValuesOf(query, I, f)
           g == [i \in J |-> query.filters[i].value]
<1>1. IsFiniteSet(J)
  <2>1. DOMAIN query.filters = 1 .. Len(query.filters) /\ Len(query.filters) \in Nat
    BY FilterPlaces
  <2>2. IsFiniteSet(1 .. Len(query.filters))
    BY <2>1, FS_Interval
  <2>3. J \in SUBSET (1 .. Len(query.filters))
    BY <2>1
  <2> QED BY <2>2, <2>3, FS_Subset
<1>2. V = { query.filters[i].value : i \in J }
  BY DEF ValuesOf
<1>3. g \in [J -> V] /\ \A v \in V : \E i \in J : g[i] = v
  <2> HIDE DEF V, J
  <2> QED BY <1>2
<1>4. g \in Surjection(J, V)
  <2> HIDE DEF g, J, V
  <2> QED BY <1>3 DEF Surjection
<1>5. IsFiniteSet(V)
  <2> HIDE DEF g, J, V
  <2> QED BY <1>1, <1>4, FS_Surjection
<1> QED BY <1>5, FS_CardinalityType

LEMMA HandledField ==
  ASSUME NEW query, IsFilters(query), FitsTables(query),
         NEW f \in FieldsOf(query, Handled(query))
  PROVE  /\ f \in Field /\ ByIdentity(query, f)
         /\ ValuesOf(query, Handled(query), f) = Other(query, f)
         /\ Other(query, f) # {}
         /\ \A i \in DOMAIN query.filters \ FtsFilters(query) :
              query.filters[i].field = f => i \in Handled(query)
<1> DEFINE D == DOMAIN query.filters \ FtsFilters(query)
           of(i) == query.filters[i].field
<1>1. PICK h \in Handled(query) : of(h) = f
  BY DEF FieldsOf
<1>2. Collected(query) = RefFilters(query) /\ Handled(query) \subseteq RefFilters(query)
  BY FilterPlaces DEF FitsTables
<1>3. \A i : i \in RefFilters(query) <=>
        /\ i \in D /\ of(i) \in Field
        /\ Type[of(i)] = "reference" \/ (Type[of(i)] = "multi_reference" /\ of(i) \in HasTarget)
  BY DEF RefFilters
<1>4. h \in RefFilters(query) /\ f \in Field
      /\ (Type[f] = "reference" \/ (Type[f] = "multi_reference" /\ f \in HasTarget))
  BY <1>1, <1>2, <1>3
<1>5. \A i \in D : of(i) = f => i \in RefFilters(query)
  BY <1>3, <1>4
<1>6. ValuesOf(query, Collected(query), f) = Other(query, f)
  <2>1. \A v : v \in ValuesOf(query, Collected(query), f) <=> v \in Other(query, f)
    <3>1. RefFilters(query) \subseteq D
      BY <1>3
    <3> QED BY <1>2, <1>5, <3>1 DEF ValuesOf, Other
  <2> QED BY <2>1
<1>7. \A i : i \in Handled(query) <=>
        /\ i \in RefFilters(query)
        /\ \/ Type[of(i)] = "multi_reference"
           \/ Cardinality(ValuesOf(query, RefFilters(query), of(i))) >= 2
  BY <1>2 DEF Handled
<1>8. Type[f] = "multi_reference" \/ Cardinality(Other(query, f)) >= 2
  BY <1>1, <1>2, <1>6, <1>7
<1>9. \A i \in D : of(i) = f => i \in Handled(query)
  BY <1>2, <1>5, <1>6, <1>7, <1>8
<1>10. ByIdentity(query, f)
  <2>1. Cardinality(Other(query, f)) \in Nat
    BY ValuesFinite DEF Other
  <2> QED BY <1>4, <1>8, <2>1 DEF ByIdentity
<1>11. ValuesOf(query, Handled(query), f) = Other(query, f)
  <2>1. \A v : v \in ValuesOf(query, Handled(query), f) <=> v \in Other(query, f)
    <3>1. Handled(query) \subseteq D
      BY <1>2, <1>3
    <3> QED BY <1>9, <3>1 DEF ValuesOf, Other
  <2> QED BY <2>1
<1>12. Other(query, f) # {}
  <2>1. h \in D
    BY <1>2, <1>3
  <2>2. query.filters[h].value \in Other(query, f)
    BY <1>1, <2>1 DEF Other, ValuesOf
  <2> QED BY <2>2
<1> QED BY <1>4, <1>9, <1>10, <1>11, <1>12

LEMMA UnhandledField ==
  ASSUME NEW query, IsFilters(query), FitsTables(query), NEW f \in Field,
         f \notin FieldsOf(query, Handled(query))
  PROVE  /\ Other(query, f) # {} => ~ByIdentity(query, f)
         /\ \A i \in DOMAIN query.filters \ FtsFilters(query) :
              query.filters[i].field = f => i \in Residual(query)
<1> DEFINE D == DOMAIN query.filters \ FtsFilters(query)
           of(i) == query.filters[i].field
<1>1. \A i \in D : of(i) = f => i \notin Handled(query)
  BY DEF FieldsOf
<1>2. \A i \in D : of(i) = f => i \in Residual(query)
  BY <1>1 DEF Residual
<1>3. ASSUME Other(query, f) # {}, ByIdentity(query, f)
      PROVE  FALSE
  <2>1. PICK i \in D : of(i) = f
    BY <1>3, ValuesAsked DEF Other
  <2>2. Type[f] = "reference" \/ (Type[f] = "multi_reference" /\ f \in HasTarget)
    BY <1>3 DEF ByIdentity
  <2>3. \A k \in D : of(k) = f => k \in RefFilters(query)
    BY <2>2 DEF RefFilters
  <2>4. RefFilters(query) = Collected(query) /\ RefFilters(query) \subseteq D
    BY DEF FitsTables, RefFilters
  <2>5. ValuesOf(query, Collected(query), f) = Other(query, f)
    <3>1. \A v : v \in ValuesOf(query, Collected(query), f) <=> v \in Other(query, f)
      BY <2>3, <2>4 DEF ValuesOf, Other
    <3> QED BY <3>1
  <2>6. ~(Type[f] = "multi_reference" \/ Cardinality(Other(query, f)) >= 2)
    BY <1>1, <2>1, <2>3, <2>4, <2>5 DEF Handled
  <2>7. Cardinality(Other(query, f)) \in Nat
    BY ValuesFinite DEF Other
  <2> QED BY <1>3, <2>2, <2>6, <2>7 DEF ByIdentity
<1> QED BY <1>2, <1>3

IsValue(table, r, f, v) ==
  IF Type[f] = "reference" THEN table[r][f] = v ELSE Position(v) \in Tokens(table[r][f])

HasValue(table, r, f, v) ==
  IF Type[f] = "derived" THEN FALSE
  ELSE IF Type[f] = "multi_reference" THEN \E tok \in Tokens(table[r][f]) : SameText(tok, v)
  ELSE CiSubstr(table[r][f], v)

OtherMeans(table, r, query, f) ==
  IF ~ByIdentity(query, f) THEN \A v \in Other(query, f) : HasValue(table, r, f, v)
  ELSE IF AllOf(query, f) THEN \A v \in Other(query, f) : IsValue(table, r, f, v)
  ELSE \E v \in Other(query, f) : IsValue(table, r, f, v)

LEMMA FieldMeaning ==
  ASSUME NEW r, NEW query, NEW f
  PROVE  FieldMeans(r, query, f) <=>
           LET indexed == ValuesOf(query, FtsFilters(query), f)
           IN indexed \cup Other(query, f) # {} =>
                /\ stored[r][f] # NULL
                /\ \A v \in indexed : FtsFinds(stored[r][f], v)
                /\ Other(query, f) # {} => OtherMeans(stored, r, query, f)
<1>1. AllOf(query, f) <=> IF query.op[f] # NULL THEN query.op[f] = "and" ELSE f \in Combine
  BY Zenon DEF AllOf
<1> QED BY <1>1, Zenon DEF FieldMeans, OtherMeans, ByIdentity, Other, IsValue, HasValue

(* The index.                                                              *)
LEMMA IndexMeans ==
  ASSUME NEW table, NEW r, NEW query, NEW f
  PROVE  (\A i \in FtsFilters(query) :
            query.filters[i].field = f => FtsKeeps(table, r, query.filters[i]))
         <=> LET indexed == ValuesOf(query, FtsFilters(query), f)
             IN indexed # {} => /\ table[r][f] # NULL
                                /\ \A v \in indexed : FtsFinds(table[r][f], v)
<1> DEFINE indexed == ValuesOf(query, FtsFilters(query), f)
           I == { i \in FtsFilters(query) : query.filters[i].field = f }
<1>1. indexed = { query.filters[i].value : i \in I }
  BY DEF ValuesOf
<1>2. \A i \in I : FtsKeeps(table, r, query.filters[i]) <=>
        table[r][f] # NULL /\ FtsFinds(table[r][f], query.filters[i].value)
  BY DEF FtsKeeps
<1>3. (\A i \in I : FtsKeeps(table, r, query.filters[i])) <=>
        (indexed # {} => table[r][f] # NULL /\ \A v \in indexed : FtsFinds(table[r][f], v))
  <2> HIDE DEF indexed, I
  <2> QED BY <1>1, <1>2
<1> QED BY <1>3

(* A field that prefilter_multi_ref has handled: two values that a single  *)
(* reference cannot have at once leave nothing for "and".                  *)
LEMMA HandledMeans ==
  ASSUME NEW table, NEW r, NEW query, IsFilters(query), FitsTables(query),
         NEW f \in FieldsOf(query, Handled(query))
  PROVE  RefKeeps(table[r][f], ValuesOf(query, Handled(query), f), Type[f], AllOf(query, f))
         <=> table[r][f] # NULL /\ OtherMeans(table, r, query, f)
<1> DEFINE V == Other(query, f)
           value == table[r][f]
           all == AllOf(query, f)
<1>1. /\ f \in Field /\ ByIdentity(query, f) /\ ValuesOf(query, Handled(query), f) = V
      /\ V # {}
  BY HandledField
<1>2. OtherMeans(table, r, query, f) <=>
        IF all THEN \A v \in V : IsValue(table, r, f, v) ELSE \E v \in V : IsValue(table, r, f, v)
  BY <1>1 DEF OtherMeans
<1>3. RefKeeps(value, V, Type[f], all) <=>
        /\ value # NULL
        /\ IF Type[f] = "reference" THEN ~all /\ value \in V
           ELSE IF all THEN \A v \in V : Position(v) \in Tokens(value)
           ELSE \E v \in V : Position(v) \in Tokens(value)
  BY DEF RefKeeps
<1> HIDE DEF V, value, all
<1>4. CASE Type[f] = "reference"
  <2>1. \A v \in V : IsValue(table, r, f, v) <=> v = value
    BY <1>4 DEF IsValue, value
  <2>2. ~\A v \in V : v = value
    <3>1. SUFFICES ASSUME \A v \in V : v = value
                   PROVE  FALSE
      OBVIOUS
    <3>2. V = {value}
      BY <1>1, <3>1
    <3>3. Cardinality(V) = 1
      BY <3>2, FS_Singleton
    <3> QED BY <1>1, <1>4, <3>3 DEF ByIdentity, V
  <2> QED BY <1>1, <1>2, <1>3, <1>4, <2>1, <2>2 DEF value, all
<1>5. CASE Type[f] # "reference"
  <2>1. \A v \in V : IsValue(table, r, f, v) <=> Position(v) \in Tokens(value)
    BY <1>5 DEF IsValue, value
  <2> QED BY <1>1, <1>2, <1>3, <1>5, <2>1 DEF value, all
<1> QED BY <1>4, <1>5

(* A field that is left to hyle_filter_rows.                               *)
LEMMA UnhandledMeans ==
  ASSUME NEW table, NEW r, NEW query, IsFilters(query), FitsTables(query), NEW f \in Field,
         f \notin FieldsOf(query, Handled(query))
  PROVE  (\A i \in Residual(query) :
            query.filters[i].field = f => FilterKeeps(table, r, query.filters[i]))
         <=> (Other(query, f) # {} => table[r][f] # NULL /\ OtherMeans(table, r, query, f))
<1> DEFINE D == DOMAIN query.filters \ FtsFilters(query)
           I == { i \in D : query.filters[i].field = f }
           V == Other(query, f)
<1>1. /\ V # {} => ~ByIdentity(query, f)
      /\ \A i \in D : query.filters[i].field = f => i \in Residual(query)
  BY UnhandledField
<1>2. Residual(query) \subseteq D
  BY DEF Residual
<1>3. \A i : i \in I <=> i \in Residual(query) /\ query.filters[i].field = f
  BY <1>1, <1>2
<1>4. V = { query.filters[i].value : i \in I }
  BY DEF Other, ValuesOf
<1>5. ASSUME NEW i \in I
      PROVE  FilterKeeps(table, r, query.filters[i]) <=>
               table[r][f] # NULL /\ HasValue(table, r, f, query.filters[i].value)
  <2>1. query.filters[i].field = f
    OBVIOUS
  <2>2. CASE Type[f] = "derived"
    BY <2>1, <2>2, Zenon DEF FilterKeeps, FieldVal, HasValue
  <2>3. CASE Type[f] # "derived"
    <3>1. FieldVal(table, r, f) = table[r][f]
      BY <2>3 DEF FieldVal
    <3> QED BY <2>1, <2>3, <3>1, Zenon DEF FilterKeeps, HasValue
  <2> QED BY <2>2, <2>3
<1>6. V # {} => (OtherMeans(table, r, query, f) <=> \A v \in V : HasValue(table, r, f, v))
  BY <1>1 DEF OtherMeans
<1> HIDE DEF I, V
<1>7. (\A i \in I : FilterKeeps(table, r, query.filters[i])) <=>
        (V # {} => table[r][f] # NULL /\ \A v \in V : HasValue(table, r, f, v))
  BY <1>4, <1>5
<1> QED BY <1>3, <1>6, <1>7 DEF V

LEMMA FieldStages ==
  ASSUME NEW r, NEW query, IsFilters(query), FitsTables(query), NEW f \in Field
  PROVE  StagesOfField(stored, r, query, f) <=> FieldMeans(r, query, f)
<1> DEFINE V == Other(query, f)
           indexed == ValuesOf(query, FtsFilters(query), f)
           value == stored[r][f]
           means == OtherMeans(stored, r, query, f)
           finds == \A v \in indexed : FtsFinds(value, v)
           left == \A i \in Residual(query) :
                     query.filters[i].field = f => FilterKeeps(stored, r, query.filters[i])
           handled == f \in FieldsOf(query, Handled(query))
           keeps == RefKeeps(stored[r][f], ValuesOf(query, Handled(query), f), Type[f],
                             AllOf(query, f))
<1>1. FieldMeans(r, query, f) <=>
        (indexed # {} \/ V # {} => value # NULL /\ finds /\ (V # {} => means))
  <2>1. FieldMeans(r, query, f) <=>
          (indexed \cup V # {} => value # NULL /\ finds /\ (V # {} => means))
    BY FieldMeaning, Zenon
  <2> HIDE DEF V, indexed, value, means, finds
  <2> QED BY <2>1
<1>2. (\A i \in FtsFilters(query) :
         query.filters[i].field = f => FtsKeeps(stored, r, query.filters[i]))
      <=> (indexed # {} => value # NULL /\ finds)
  BY IndexMeans, Zenon
<1>3. StagesOfField(stored, r, query, f) <=>
        (indexed # {} => value # NULL /\ finds) /\ (handled => keeps) /\ left
  BY <1>2, Zenon DEF StagesOfField
<1>4. indexed = {} => finds
  OBVIOUS
<1>5. CASE handled
  <2>1. keeps <=> value # NULL /\ means
    BY <1>5, HandledMeans
  <2>2. V # {}
    BY <1>5, HandledField
  <2>3. left
    <3>1. \A i \in DOMAIN query.filters \ FtsFilters(query) :
            query.filters[i].field = f => i \in Handled(query)
      BY <1>5, HandledField
    <3> QED BY <3>1 DEF Residual
  <2> HIDE DEF V, indexed, value, means, finds, left, handled, keeps
  <2> QED BY <1>1, <1>3, <1>4, <1>5, <2>1, <2>2, <2>3, Zenon
<1>6. CASE ~handled
  <2>1. left <=> (V # {} => value # NULL /\ means)
    BY <1>6, UnhandledMeans
  <2> HIDE DEF V, indexed, value, means, finds, left, handled, keeps
  <2> QED BY <1>1, <1>3, <1>4, <1>6, <2>1, Zenon
<1> QED BY <1>5, <1>6

LEMMA StagesMean ==
  ASSUME NEW r, NEW query, IsFilters(query), query.failed = {}, FitsTables(query)
  PROVE  MeetsStages(stored, r, query) <=> Means(r, query)
<1> DEFINE of(i) == query.filters[i].field
           D == DOMAIN query.filters
           handled == FieldsOf(query, Handled(query))
           keeps(f) == RefKeeps(stored[r][f], ValuesOf(query, Handled(query), f), Type[f],
                                AllOf(query, f))
           term == query.q # NULL => RowMatchesQ(stored, r, query.q)
           inSchema == \A i \in D : of(i) \in Field
<1>1. ~QFails(query) /\ RefGroups(query) = handled
  BY GroupsHandled DEF QFails
<1>2. MeetsStages(stored, r, query) <=>
        /\ \A i \in FtsFilters(query) : FtsKeeps(stored, r, query.filters[i])
        /\ \A f \in handled : keeps(f)
        /\ term
        /\ \A i \in Residual(query) : FilterKeeps(stored, r, query.filters[i])
  BY <1>1, Zenon DEF MeetsStages
<1>3. /\ FtsFilters(query) \subseteq D /\ Residual(query) \subseteq D
      /\ \A i \in D : i \in FtsFilters(query) \/ i \in Handled(query) \/ i \in Residual(query)
  BY FilterPlaces DEF Residual
<1>4. /\ \A i \in FtsFilters(query) : of(i) \in Field
      /\ \A i \in Handled(query) : of(i) \in Field
  <2>1. \A i \in FtsFilters(query) : of(i) \in Field
    BY QueryPipelineAssumption DEF FtsFilters
  <2>2. \A i \in RefFilters(query) : of(i) \in Field
    BY DEF RefFilters
  <2>3. Handled(query) \subseteq RefFilters(query)
    BY FilterPlaces
  <2> QED BY <2>1, <2>2, <2>3
<1>5. \A i \in Residual(query) :
        FilterKeeps(stored, r, query.filters[i]) => of(i) \in Field
  BY Zenon DEF FilterKeeps, FieldVal
<1>6. handled \subseteq Field
  BY <1>4 DEF FieldsOf
<1>7. \A f \in Field : StagesOfField(stored, r, query, f) <=> FieldMeans(r, query, f)
  BY FieldStages
<1>8. \A f : StagesOfField(stored, r, query, f) <=>
        /\ \A i \in FtsFilters(query) : of(i) = f => FtsKeeps(stored, r, query.filters[i])
        /\ f \in handled => keeps(f)
        /\ \A i \in Residual(query) : of(i) = f => FilterKeeps(stored, r, query.filters[i])
  BY Zenon DEF StagesOfField
<1>9. Means(r, query) <=> (\A f \in Field : FieldMeans(r, query, f)) /\ inSchema /\ term
  BY Zenon DEF Means
<1> HIDE DEF keeps, term, handled
<1>10. ASSUME MeetsStages(stored, r, query)
       PROVE  Means(r, query)
  <2>1. \A i \in D : of(i) \in Field
    BY <1>2, <1>3, <1>4, <1>5, <1>10
  <2>2. \A f \in Field : StagesOfField(stored, r, query, f)
    BY <1>2, <1>8, <1>10, Zenon
  <2> QED BY <1>2, <1>7, <1>9, <1>10, <2>1, <2>2, Zenon
<1>11. ASSUME Means(r, query)
       PROVE  MeetsStages(stored, r, query)
  <2>1. \A f \in Field : StagesOfField(stored, r, query, f)
    BY <1>7, <1>9, <1>11, Zenon
  <2>2. \A i \in D : of(i) \in Field
    BY <1>9, <1>11, Zenon
  <2>3. \A i \in FtsFilters(query) : FtsKeeps(stored, r, query.filters[i])
    BY <1>3, <1>8, <2>1, <2>2
  <2>4. \A f \in handled : keeps(f)
    BY <1>6, <1>8, <2>1
  <2>5. \A i \in Residual(query) : FilterKeeps(stored, r, query.filters[i])
    BY <1>3, <1>8, <2>1, <2>2
  <2>6. term
    BY <1>9, <1>11
  <2> QED BY <1>2, <2>3, <2>4, <2>5, <2>6, Zenon
<1> QED BY <1>10, <1>11

-----------------------------------------------------------------------------
(* The answer is the same for every page.                                  *)
SameButPage(q1, q2) ==
  /\ q1.filters = q2.filters /\ q1.op = q2.op /\ q1.q = q2.q /\ q1.failed = q2.failed
  /\ q1.sort_field = q2.sort_field /\ q1.sort_asc = q2.sort_asc

LEMMA SameFilters ==
  ASSUME NEW q1, NEW q2, SameButPage(q1, q2)
  PROVE  /\ FtsFilters(q1) = FtsFilters(q2) /\ RefFilters(q1) = RefFilters(q2)
         /\ Collected(q1) = Collected(q2) /\ Handled(q1) = Handled(q2)
         /\ RefGroups(q1) = RefGroups(q2) /\ RefOrder(q1) = RefOrder(q2)
         /\ Residual(q1) = Residual(q2)
         /\ \A I, f : ValuesOf(q1, I, f) = ValuesOf(q2, I, f)
         /\ \A f : AllOf(q1, f) = AllOf(q2, f)
<1>1. q1.filters = q2.filters /\ q1.op = q2.op /\ q1.failed = q2.failed
  BY DEF SameButPage
<1>2. FtsFilters(q1) = FtsFilters(q2)
  BY <1>1 DEF FtsFilters
<1>3. RefFilters(q1) = RefFilters(q2)
  BY <1>1, <1>2 DEF RefFilters
<1>4. \A I : FieldsOf(q1, I) = FieldsOf(q2, I)
  BY <1>1 DEF FieldsOf
<1>5. \A I, f : ValuesOf(q1, I, f) = ValuesOf(q2, I, f)
  BY <1>1 DEF ValuesOf
<1>6. Collected(q1) = Collected(q2)
  BY <1>3, <1>4 DEF Collected
<1>7. Handled(q1) = Handled(q2)
  BY <1>1, <1>5, <1>6 DEF Handled
<1>8. \A f : AllOf(q1, f) = AllOf(q2, f)
  BY <1>1, Zenon DEF AllOf
<1>9. RefOrder(q1) = RefOrder(q2)
  BY <1>1, <1>7 DEF RefOrder
<1>10. RefGroups(q1) = RefGroups(q2)
  BY <1>1, <1>9, Zenon DEF RefGroups
<1>11. Residual(q1) = Residual(q2)
  BY <1>1, <1>2, <1>7 DEF Residual
<1> QED BY <1>2, <1>3, <1>5, <1>6, <1>7, <1>8, <1>9, <1>10, <1>11, Zenon

LEMMA AnswerIgnoresPage ==
  ASSUME NEW q1, NEW q2, SameButPage(q1, q2), NEW s, NEW table
  PROVE  Answer(s, table, q1) = Answer(s, table, q2)
<1>1. /\ q1.filters = q2.filters /\ q1.q = q2.q /\ q1.failed = q2.failed
      /\ q1.sort_field = q2.sort_field /\ q1.sort_asc = q2.sort_asc
  BY DEF SameButPage
<1>2. \A b : PrefilterFts(b, table, q1) = PrefilterFts(b, table, q2)
  BY <1>1, SameFilters DEF PrefilterFts
<1>3. \A b : PrefilterMultiRef(b, table, q1) = PrefilterMultiRef(b, table, q2)
  <2> SUFFICES ASSUME NEW b
               PROVE  PrefilterMultiRef(b, table, q1) = PrefilterMultiRef(b, table, q2)
    OBVIOUS
  <2> DEFINE keeps(r, q) == \A f \in RefGroups(q) :
                RefKeeps(table[r][f], ValuesOf(q, Handled(q), f), Type[f], AllOf(q, f))
             S(q) == { r \in ToSet(b) : keeps(r, q) }
  <2>1. \A q : PrefilterMultiRef(b, table, q) = Only(b, S(q))
    BY Zenon DEF PrefilterMultiRef
  <2>2. /\ RefGroups(q1) = RefGroups(q2) /\ Handled(q1) = Handled(q2)
        /\ \A I, f : ValuesOf(q1, I, f) = ValuesOf(q2, I, f)
        /\ \A f : AllOf(q1, f) = AllOf(q2, f)
    BY SameFilters, Zenon
  <2>3. \A r : keeps(r, q1) <=> keeps(r, q2)
    BY <2>2, Zenon
  <2> HIDE DEF keeps
  <2>4. S(q1) = S(q2)
    BY <2>3
  <2> HIDE DEF S
  <2> QED BY <2>1, <2>4, Zenon
<1>4. QFails(q1) <=> QFails(q2)
  BY <1>1 DEF QFails
<1>5. \A b : PrefilterQ(b, table, q1) = PrefilterQ(b, table, q2)
  BY <1>1, <1>4 DEF PrefilterQ
<1>6. \A b : FilterRows(b, table, q1) = FilterRows(b, table, q2)
  BY <1>1, <1>4, SameFilters DEF FilterRows
<1>7. \A b : SortRows(b, table, q1) = SortRows(b, table, q2)
  BY <1>1 DEF SortRows
<1> QED BY <1>2, <1>3, <1>5, <1>6, <1>7, Zenon DEF Answer, Candidates

-----------------------------------------------------------------------------
(* A row that is put joins an answer that is not sorted at its end.        *)
LEMMA GrownElements ==
  ASSUME NEW s, IsSequence(s), NEW t, NEW r, Grown(s, t, r)
  PROVE  IsSequence(t) /\ ToSet(s) \subseteq ToSet(t)
<1>1. CASE t = s
  BY <1>1
<1>2. CASE t = Append(s, r)
  BY <1>2, SequenceAppend
<1> QED BY <1>1, <1>2 DEF Grown

LEMMA OnlyGrowsAlike ==
  ASSUME NEW s, IsSequence(s), NEW t, NEW r, Grown(s, t, r),
         NEW S \in SUBSET ToSet(s), NEW T \in SUBSET ToSet(t),
         \A x \in ToSet(s) : x \in S <=> x \in T
  PROVE  Grown(Only(s, S), Only(t, T), r)
<1>1. S \cap ToSet(s) = T \cap ToSet(s)
  OBVIOUS
<1> QED BY <1>1, OnlyGrows

LEMMA AnswerGrows ==
  ASSUME NEW s, AreRows(s), NEW r, NEW table, NEW table2,
         \A x \in ToSet(s) : table2[x] = table[x],
         NEW query, query.sort_field = NULL
  PROVE  Grown(Answer(s, table, query), Answer(Append(s, r), table2, query), r)
<1> DEFINE t == Append(s, r)
           a == PrefilterFts(s, table, query)
           a2 == PrefilterFts(t, table2, query)
           b == PrefilterMultiRef(a, table, query)
           b2 == PrefilterMultiRef(a2, table2, query)
           c == PrefilterQ(b, table, query)
           c2 == PrefilterQ(b2, table2, query)
           d == FilterRows(c, table, query)
           d2 == FilterRows(c2, table2, query)
           handled == Handled(query)
           keepsF(x, tab) == \A i \in FtsFilters(query) : FtsKeeps(tab, x, query.filters[i])
           keepsR(x, tab) == \A f \in RefGroups(query) :
                               RefKeeps(tab[x][f], ValuesOf(query, handled, f), Type[f],
                                        AllOf(query, f))
           keepsL(x, tab) == /\ \A i \in Residual(query) : FilterKeeps(tab, x, query.filters[i])
                             /\ query.q # NULL /\ QFails(query) => QKeeps(tab, x, query.q)
           Sf(base, tab) == { x \in ToSet(base) : keepsF(x, tab) }
           Sr(base, tab) == { x \in ToSet(base) : keepsR(x, tab) }
           Sq(base, tab) == { x \in ToSet(base) : RowMatchesQ(tab, x, query.q) }
           Sl(base, tab) == { x \in ToSet(base) : keepsL(x, tab) }
<1>1. AreRows(a) /\ AreRows(b) /\ AreRows(c) /\ AreRows(d)
      /\ ToSet(a) \subseteq ToSet(s) /\ ToSet(b) \subseteq ToSet(a) /\ ToSet(c) \subseteq ToSet(b)
  <2>1. AreRows(a) /\ ToSet(a) \subseteq ToSet(s)
    BY FtsStage
  <2> HIDE DEF a
  <2>2. AreRows(b) /\ ToSet(b) \subseteq ToSet(a)
    BY <2>1, RefStage
  <2> HIDE DEF b
  <2>3. AreRows(c) /\ ToSet(c) \subseteq ToSet(b)
    BY <2>2, TermStage
  <2> HIDE DEF c
  <2>4. AreRows(d)
    BY <2>3, ResidualStage
  <2> QED BY <2>1, <2>2, <2>3, <2>4
<1>2. \A x \in ToSet(s) : keepsF(x, table) <=> keepsF(x, table2)
  BY Zenon DEF FtsKeeps
<1>3. \A x \in ToSet(s) : keepsR(x, table) <=> keepsR(x, table2)
  BY Zenon
<1>4. \A x \in ToSet(s) : RowMatchesQ(table, x, query.q) <=> RowMatchesQ(table2, x, query.q)
  BY Zenon DEF RowMatchesQ, LabelMatches
<1>5. \A x \in ToSet(s) : keepsL(x, table) <=> keepsL(x, table2)
  <2>1. \A x \in ToSet(s) : \A f : FieldVal(table, x, f) = FieldVal(table2, x, f)
    BY Zenon DEF FieldVal
  <2> QED BY <2>1, Zenon DEF FilterKeeps, QKeeps
<1>6. /\ a = Only(s, Sf(s, table)) /\ a2 = Only(t, Sf(t, table2))
      /\ b = Only(a, Sr(a, table)) /\ b2 = Only(a2, Sr(a2, table2))
      /\ d = Only(c, Sl(c, table)) /\ d2 = Only(c2, Sl(c2, table2))
  BY Zenon DEF PrefilterFts, PrefilterMultiRef, FilterRows
<1>7. IF query.q = NULL \/ QFails(query) THEN c = b /\ c2 = b2
      ELSE c = Only(b, Sq(b, table)) /\ c2 = Only(b2, Sq(b2, table2))
  BY Zenon DEF PrefilterQ
<1>8. Answer(s, table, query) = d /\ Answer(t, table2, query) = d2
  BY Zenon DEF Answer, Candidates, SortRows
<1> HIDE DEF a, a2, b, b2, c, c2, d, d2, keepsF, keepsR, keepsL
<1>9. IsSequence(s) /\ Grown(s, t, r)
  BY DEF AreRows, Grown
<1>10. Grown(a, a2, r)
  <2>1. ToSet(s) \subseteq ToSet(t)
    BY <1>9, GrownElements
  <2>2. Grown(Only(s, Sf(s, table)), Only(t, Sf(t, table2)), r)
    BY <1>2, <1>9, <2>1, OnlyGrowsAlike
  <2> QED BY <1>6, <2>2
<1>11. Grown(b, b2, r)
  <2>1. IsSequence(a) /\ ToSet(a) \subseteq ToSet(a2)
    BY <1>1, <1>10, GrownElements DEF AreRows
  <2>2. Grown(Only(a, Sr(a, table)), Only(a2, Sr(a2, table2)), r)
    BY <1>1, <1>3, <1>10, <2>1, OnlyGrowsAlike
  <2> QED BY <1>6, <2>2
<1>12. Grown(c, c2, r)
  <2>1. IsSequence(b) /\ ToSet(b) \subseteq ToSet(b2)
    BY <1>1, <1>11, GrownElements DEF AreRows
  <2>2. Grown(Only(b, Sq(b, table)), Only(b2, Sq(b2, table2)), r)
    BY <1>1, <1>4, <1>11, <2>1, OnlyGrowsAlike
  <2> QED BY <1>7, <1>11, <2>2
<1>13. Grown(d, d2, r)
  <2>1. IsSequence(c) /\ ToSet(c) \subseteq ToSet(c2)
    BY <1>1, <1>12, GrownElements DEF AreRows
  <2>2. Grown(Only(c, Sl(c, table)), Only(c2, Sl(c2, table2)), r)
    BY <1>1, <1>5, <1>12, <2>1, OnlyGrowsAlike
  <2> QED BY <1>6, <2>2
<1> QED BY <1>8, <1>13

LEMMA BeginningGrows ==
  ASSUME NEW W, IsSequence(W), NEW r, NEW W2, Grown(W, W2, r), NEW seen, IsSequence(seen),
         Beginning(seen, W)
  PROVE  Beginning(seen, W2)
<1>1. CASE W2 = W
  BY <1>1
<1>2. CASE W2 = Append(W, r)
  <2> DEFINE n == Len(seen)
  <2>1. n \in Nat /\ Len(W) \in Nat /\ n <= Len(W) /\ seen = SubSeq(W, 1, n)
    BY SequenceFacts DEF Beginning
  <2>2. /\ IsSequence(W2) /\ Len(W2) = Len(W) + 1
        /\ \A i \in 1 .. Len(W) : W2[i] = W[i]
    BY <1>2, SequenceAppend
  <2> HIDE DEF n
  <2>3. SubSeq(W, 1, n) = [i \in 1 .. n |-> W[i]]
    BY <2>1 DEF IsSequence
  <2>4. SubSeq(W2, 1, n) = [i \in 1 .. n |-> W2[i]]
    BY <2>1, <2>2 DEF IsSequence
  <2>5. [i \in 1 .. n |-> W[i]] = [i \in 1 .. n |-> W2[i]]
    BY <2>1, <2>2
  <2> QED BY <2>1, <2>2, <2>3, <2>4, <2>5 DEF Beginning, n
<1> QED BY <1>1, <1>2 DEF Grown

(* A page is a piece of the answer.                                        *)
Piece(s, first, last) == SubSeq(s, first, last)

JoinsAt(W, n, m) ==
  /\ Piece(W, 1, n) \o Piece(W, n + 1, n + m) = Piece(W, 1, n + m)
  /\ IsSequence(Piece(W, n + 1, n + m)) /\ Len(Piece(W, n + 1, n + m)) = m
  /\ ToSet(Piece(W, n + 1, n + m)) \subseteq ToSet(W)
  /\ Len(Piece(W, 1, n + m)) = n + m
  /\ n + m = Len(W) => Piece(W, 1, n + m) = W

LEMMA PiecesJoin ==
  ASSUME NEW W, IsSequence(W), NEW n \in Nat, NEW m \in Nat, n + m <= Len(W)
  PROVE  JoinsAt(W, n, m)
<1> DEFINE u == [i \in 1 .. n |-> W[i]]
           v == [i \in 1 .. m |-> W[n + i]]
           w == [i \in 1 .. n + m |-> W[i]]
<1>1. Len(W) \in Nat /\ DOMAIN W = 1 .. Len(W) /\ W = [i \in DOMAIN W |-> W[i]]
  BY SequenceFacts
<1>2. SubSeq(W, 1, n) = u /\ SubSeq(W, 1, n + m) = w /\ SubSeq(W, n + 1, n + m) = v
  BY <1>1 DEF IsSequence
<1>3. IsSequence(u) /\ Len(u) = n /\ IsSequence(v) /\ Len(v) = m
      /\ IsSequence(w) /\ Len(w) = n + m
  BY SequenceOf
<1>4. ToSet(v) \subseteq ToSet(W)
  BY <1>1 DEF ToSet
<1>5. u \o v = w
  <2>1. \A i \in 1 .. n : u[i] = W[i]
    OBVIOUS
  <2>2. \A i \in 1 .. m : v[i] = W[n + i]
    OBVIOUS
  <2> HIDE DEF u, v
  <2>3. /\ IsSequence(u \o v) /\ Len(u \o v) = n + m
        /\ \A i \in 1 .. n + m : (u \o v)[i] = IF i <= n THEN u[i] ELSE v[i - n]
    BY <1>3, SequenceConcat
  <2>4. \A i \in 1 .. n + m : (IF i <= n THEN u[i] ELSE v[i - n]) = W[i]
    <3> SUFFICES ASSUME NEW i \in 1 .. n + m
                 PROVE  (IF i <= n THEN u[i] ELSE v[i - n]) = W[i]
      OBVIOUS
    <3>1. CASE i <= n
      BY <2>1, <3>1
    <3>2. CASE i > n
      <4>1. i - n \in 1 .. m /\ n + (i - n) = i
        BY <3>2
      <4> QED BY <2>2, <3>2, <4>1
    <3> QED BY <3>1, <3>2
  <2>5. DOMAIN (u \o v) = 1 .. n + m /\ u \o v = [i \in DOMAIN (u \o v) |-> (u \o v)[i]]
    BY <2>3, SequenceFacts
  <2>6. \A i \in 1 .. n + m : (u \o v)[i] = W[i]
    BY <2>3, <2>4
  <2> QED BY <2>5, <2>6
<1>6. n + m = Len(W) => w = W
  BY <1>1
<1> HIDE DEF u, v, w
<1> QED BY <1>2, <1>3, <1>4, <1>5, <1>6 DEF Piece, JoinsAt

LEMMA PageShape ==
  ASSUME NEW W, IsSequence(W), NEW page \in Nat, NEW per_page \in Nat
  PROVE  /\ IsSequence(Paginate(W, page, per_page))
         /\ ToSet(Paginate(W, page, per_page)) \subseteq ToSet(W)
<1> DEFINE skip == ((page - 1) * per_page) % 2 ^ Width
           take == IF Len(W) - skip < per_page THEN Len(W) - skip ELSE per_page
<1>1. Len(W) \in Nat
  BY SequenceFacts
<1>2. CASE page = 0 \/ per_page = 0
  BY <1>2 DEF Paginate
<1>3. CASE ~(page = 0 \/ per_page = 0)
  <2>1. (page - 1) * per_page \in Int
    BY <1>3
  <2>2. 2 ^ Width \in Nat \ {0}
    BY QueryDataAssumption
  <2>3. skip \in Nat
    BY <2>1, <2>2
  <2>4. Paginate(W, page, per_page) =
          IF skip >= Len(W) THEN <<>> ELSE Piece(W, skip + 1, skip + take)
    BY <1>3, Zenon DEF Paginate, Piece
  <2> HIDE DEF skip
  <2>5. CASE skip >= Len(W)
    BY <2>4, <2>5, EmptySequence
  <2>6. CASE skip < Len(W)
    <3>1. take \in Nat /\ skip + take <= Len(W)
      BY <1>1, <2>3, <2>6
    <3> HIDE DEF take
    <3>2. ~(skip >= Len(W))
      BY <1>1, <2>3, <2>6
    <3>3. /\ IsSequence(Piece(W, skip + 1, skip + take))
          /\ ToSet(Piece(W, skip + 1, skip + take)) \subseteq ToSet(W)
      <4>1. JoinsAt(W, skip, take)
        BY <2>3, <3>1, PiecesJoin
      <4> QED BY <4>1 DEF JoinsAt
    <3> QED BY <2>4, <3>2, <3>3
  <2> QED BY <1>1, <2>3, <2>5, <2>6
<1> QED BY <1>2, <1>3

(* The page after the first n rows.                                        *)
TakesAt(W, n, per_page, p) ==
  /\ IsSequence(p) /\ Len(p) <= per_page
  /\ Beginning(Piece(W, 1, n) \o p, W)
  /\ Len(Piece(W, 1, n) \o p) = n + Len(p)
  /\ Len(p) # per_page => Piece(W, 1, n) \o p = W

LEMMA TakeJoins ==
  ASSUME NEW W, IsSequence(W), NEW per_page \in Nat, NEW n \in Nat, n <= Len(W),
         NEW take, take = IF Len(W) - n < per_page THEN Len(W) - n ELSE per_page,
         NEW p, p = Piece(W, n + 1, n + take)
  PROVE  TakesAt(W, n, per_page, p) /\ (n >= Len(W) => p = <<>>)
<1>1. Len(W) \in Nat
  BY SequenceFacts
<1>2. take \in Nat /\ n + take <= Len(W) /\ take <= per_page
  BY <1>1
<1>3. take # per_page => n + take = Len(W)
  BY <1>1
<1>4. n >= Len(W) => take = 0
  BY <1>1
<1>5. JoinsAt(W, n, take)
  BY <1>2, PiecesJoin
<1>6. /\ Piece(W, 1, n) \o p = Piece(W, 1, n + take)
      /\ IsSequence(p) /\ Len(p) = take
      /\ Len(Piece(W, 1, n + take)) = n + take
      /\ n + take = Len(W) => Piece(W, 1, n + take) = W
  BY <1>5, Zenon DEF JoinsAt
<1>7. Beginning(Piece(W, 1, n + take), W)
  BY <1>2, <1>6, Zenon DEF Beginning, Piece
<1>8. n >= Len(W) => p = <<>>
  BY <1>4, <1>6, SequenceFacts
<1>9. Beginning(Piece(W, 1, n) \o p, W)
  BY <1>6, <1>7, Zenon
<1> DEFINE head == Piece(W, 1, n) \o p
<1>10. Len(head) = n + Len(p) /\ (Len(p) # per_page => head = W)
  <2>1. head = Piece(W, 1, n + take)
    BY <1>6, Zenon
  <2> HIDE DEF head
  <2> QED BY <1>3, <1>6, <2>1
<1> QED BY <1>2, <1>6, <1>8, <1>9, <1>10 DEF TakesAt

LEMMA NextPageJoins ==
  ASSUME NEW W, IsSequence(W), Len(W) < 2 ^ Width, NEW page \in Nat \ {0},
         NEW per_page \in Nat \ {0}, NEW n \in Nat, (page - 1) * per_page = n, n <= Len(W)
  PROVE  TakesAt(W, n, per_page, Paginate(W, page, per_page))
<1> DEFINE take == IF Len(W) - n < per_page THEN Len(W) - n ELSE per_page
           p == Piece(W, n + 1, n + take)
<1>1. n % 2 ^ Width = n
  <2>1. 2 ^ Width \in Nat \ {0} /\ Len(W) \in Nat
    BY QueryDataAssumption, SequenceFacts
  <2>2. n < 2 ^ Width
    BY <2>1
  <2> QED BY <2>1, <2>2
<1>2. Paginate(W, page, per_page) = IF n >= Len(W) THEN <<>> ELSE p
  BY <1>1, Zenon DEF Paginate, Piece
<1>3. TakesAt(W, n, per_page, p) /\ (n >= Len(W) => p = <<>>)
  <2>1. per_page \in Nat
    OBVIOUS
  <2>2. p = Piece(W, n + 1, n + take)
    OBVIOUS
  <2>3. take = IF Len(W) - n < per_page THEN Len(W) - n ELSE per_page
    OBVIOUS
  <2> HIDE DEF take, p
  <2> QED BY <2>1, <2>2, <2>3, TakeJoins, Zenon
<1> HIDE DEF p
<1>4. Paginate(W, page, per_page) = p
  BY <1>2, <1>3, Zenon
<1> QED BY <1>3, <1>4, Zenon

Follows(W, page, per_page, seen, p) ==
  /\ IsSequence(seen \o p)
  /\ per_page > 0 /\ Len(p) = per_page => Len(seen \o p) = page * per_page
  /\ Beginning(seen, W) =>
       /\ Beginning(seen \o p, W)
       /\ ~(per_page > 0 /\ Len(p) = per_page) => seen \o p = W

LEMMA PageFollows ==
  ASSUME NEW W, IsSequence(W), Len(W) < 2 ^ Width, NEW page \in Nat \ {0},
         NEW per_page \in Nat, NEW seen, IsSequence(seen), Len(seen) = (page - 1) * per_page,
         NEW p, p = Paginate(W, page, per_page)
  PROVE  Follows(W, page, per_page, seen, p)
<1>1. IsSequence(p)
  BY PageShape
<1>2. IsSequence(seen \o p) /\ Len(seen \o p) = Len(seen) + Len(p)
  BY <1>1, SequenceConcat
<1>3. Len(seen) \in Nat /\ Len(p) \in Nat /\ Len(W) \in Nat
  BY <1>1, SequenceFacts
<1>4. (page - 1) * per_page + per_page = page * per_page
  OBVIOUS
<1>5. Len(p) = per_page => Len(seen \o p) = page * per_page
  BY <1>2, <1>3, <1>4
<1>6. ASSUME Beginning(seen, W)
      PROVE  /\ Beginning(seen \o p, W)
             /\ ~(per_page > 0 /\ Len(p) = per_page) => seen \o p = W
  <2> DEFINE n == Len(seen)
  <2>1. n <= Len(W) /\ seen = Piece(W, 1, n)
    BY <1>6, Zenon DEF Beginning, Piece
  <2>2. CASE per_page # 0
    <3>1. per_page \in Nat \ {0} /\ (page - 1) * per_page = n
      BY <2>2
    <3>2. TakesAt(W, n, per_page, p)
      <4> HIDE DEF n
      <4> QED BY <1>3, <2>1, <3>1, NextPageJoins DEF n
    <3>3. /\ Len(p) <= per_page /\ Beginning(seen \o p, W)
          /\ Len(p) # per_page => seen \o p = W
      BY <2>1, <3>2, Zenon DEF TakesAt
    <3>4. per_page > 0
      BY <2>2
    <3> QED BY <3>3, <3>4, Zenon
  <2>3. CASE per_page = 0
    <3>1. p = W
      BY <2>3, Zenon DEF Paginate
    <3>2. Len(seen) = 0
      BY <2>3
    <3>3. seen = <<>>
      BY <3>2, SequenceFacts
    <3>4. seen \o p = W
      BY <3>1, <3>3 DEF IsSequence
    <3>5. Beginning(W, W)
      <4>1. W = [i \in 1 .. Len(W) |-> W[i]]
        BY SequenceFacts
      <4>2. SubSeq(W, 1, Len(W)) = [i \in 1 .. Len(W) |-> W[i]]
        BY <1>3 DEF IsSequence
      <4> QED BY <1>3, <4>1, <4>2 DEF Beginning
    <3> QED BY <3>4, <3>5, Zenon
  <2> QED BY <2>2, <2>3
<1> QED BY <1>2, <1>5, <1>6 DEF Follows

-----------------------------------------------------------------------------
(* Init and every step keep SourceInv.                                     *)
QueryFields == {"filters", "op", "q", "sort_field", "sort_asc", "page", "per_page", "failed"}
WalkParts == {"state", "query", "seen", "total", "writes"}

SourceTypes == AreRows(rows) /\ IsInjective(rows) /\ stored \in StoredTexts

AsksFor(query, base) ==
  /\ DOMAIN query = QueryFields /\ SameButPage(query, base)
  /\ query.page \in Nat \ {0} /\ query.per_page = base.per_page

WalkTypes ==
  /\ walk.state \in {"none", "more", "ended", "faulty"}
  /\ walk.state # "none" => DOMAIN walk = WalkParts
  /\ Walking => /\ IsSequence(walk.seen)
                /\ \E base \in Queries : AsksFor(walk.query, base)

Calm == walk.writes = {} \/ (walk.writes = {"new"} /\ walk.query.sort_field = NULL)

PagesInv ==
  Walking =>
    LET answer == Answer(rows, stored, walk.query)
    IN /\ walk.state = "more" => /\ walk.query.per_page > 0
                                 /\ Len(walk.seen) = walk.query.page * walk.query.per_page
       /\ Calm => Beginning(walk.seen, answer)
       /\ walk.state = "ended" /\ walk.writes = {} =>
            walk.seen = answer /\ walk.total = Len(answer)

FaultyInv ==
  walk.state = "faulty" =>
    /\ walk.query \in FaultyQueries
    /\ ToSet(walk.seen) \subseteq ToSet(Answer(rows, stored, walk.query))

SourceInv == SourceTypes /\ WalkTypes /\ PagesInv /\ FaultyInv

LEMMA NoWalkHolds ==
  ASSUME walk = NoWalk
  PROVE  WalkTypes /\ PagesInv /\ FaultyInv
<1>1. walk.state = "none"
  BY DEF NoWalk
<1> QED BY <1>1 DEF WalkTypes, PagesInv, FaultyInv, Walking

LEMMA SourceStarts ==
  ASSUME Init
  PROVE  SourceInv
<1>1. AreRows(rows) /\ IsInjective(rows)
  BY EmptySequence DEF Init, AreRows
<1>2. stored \in StoredTexts
  BY DEF Init, StoredTexts, Keys
<1>3. WalkTypes /\ PagesInv /\ FaultyInv
  BY NoWalkHolds DEF Init
<1> QED BY <1>1, <1>2, <1>3 DEF SourceInv, SourceTypes

(* There are fewer rows in an answer than a page number's type counts.     *)
LEMMA AnswerFits ==
  ASSUME SourceTypes, NEW query
  PROVE  LET W == Answer(rows, stored, query) IN IsSequence(W) /\ Len(W) < 2 ^ Width
<1> DEFINE W == Answer(rows, stored, query)
           n == Len(rows)
<1>1. /\ IsSequence(rows) /\ ToSet(rows) \subseteq RowId /\ IsInjective(rows)
      /\ n \in Nat /\ DOMAIN rows = 1 .. n /\ rows = [i \in 1 .. n |-> rows[i]]
  BY SequenceFacts DEF SourceTypes, AreRows
<1>2. rows \in Injection(1 .. n, RowId)
  <2>1. rows \in [1 .. n -> RowId]
    BY <1>1 DEF ToSet
  <2> QED BY <1>1, <2>1 DEF Injection
<1>3. Cardinality(1 .. n) = n /\ IsFiniteSet(RowId) /\ Cardinality(RowId) < 2 ^ Width
  <2>1. IsFiniteSet(RowId) /\ Cardinality(RowId) < 2 ^ Width
    BY SourceQueryAssumption
  <2> HIDE DEF n
  <2>2. Cardinality(1 .. n) = n
    BY <1>1, FS_Interval
  <2> QED BY <2>1, <2>2
<1>4. Cardinality(1 .. n) <= Cardinality(RowId)
  <2> HIDE DEF n
  <2> QED BY <1>2, <1>3, FS_Injection
<1>5. Cardinality(RowId) \in Nat /\ 2 ^ Width \in Nat
  BY <1>3, FS_CardinalityType, QueryDataAssumption
<1>6. IsSequence(W) /\ Len(W) <= n
  BY AnswerElements DEF SourceTypes
<1> HIDE DEF W, n
<1>7. Len(W) \in Nat
  BY <1>6, SequenceFacts
<1>8. IsSequence(W) /\ Len(W) < 2 ^ Width
  BY <1>1, <1>3, <1>4, <1>5, <1>6, <1>7
<1> QED BY <1>8 DEF W

(* One page more.                                                          *)
CalmFor(query, writes) == writes = {} \/ (writes = {"new"} /\ query.sort_field = NULL)

LEMMA FetchKeeps ==
  ASSUME SourceTypes, NEW query, NEW base \in Queries, AsksFor(query, base),
         NEW seen, IsSequence(seen), Len(seen) = (query.page - 1) * query.per_page,
         NEW writes,
         CalmFor(query, writes) => Beginning(seen, Answer(rows, stored, query)),
         walk' = Fetched(query, seen, writes), UNCHANGED <<rows, stored>>
  PROVE  WalkTypes' /\ PagesInv' /\ FaultyInv'
<1> DEFINE W == Answer(rows, stored, query)
           p == Paginate(W, query.page, query.per_page)
           more == query.per_page > 0 /\ Len(p) = query.per_page
<1>1. IsSequence(W) /\ Len(W) < 2 ^ Width
  BY AnswerFits
<1>2. query.page \in Nat \ {0} /\ query.per_page \in Nat /\ query.page > 0
  BY SourceQueryAssumption DEF AsksFor, IsQuery
<1>3. walk' = [state  |-> IF more THEN "more" ELSE "ended",
               query  |-> query,
               seen   |-> seen \o p,
               total  |-> Len(W),
               writes |-> writes]
  BY <1>2, Zenon DEF Fetched, RegistryQuery
<1> HIDE DEF W, more
<1>4. /\ IsSequence(seen \o p)
      /\ more => Len(seen \o p) = query.page * query.per_page
      /\ Beginning(seen, W) => /\ Beginning(seen \o p, W)
                               /\ ~more => seen \o p = W
  <2> HIDE DEF p
  <2>1. Follows(W, query.page, query.per_page, seen, p)
    BY <1>1, <1>2, PageFollows DEF p
  <2> QED BY <2>1, Zenon DEF Follows, more
<1> HIDE DEF p, more
<1>5. /\ walk'.state = IF more THEN "more" ELSE "ended"
      /\ walk'.query = query /\ walk'.seen = seen \o p /\ walk'.total = Len(W)
      /\ walk'.writes = writes /\ DOMAIN walk' = WalkParts
  BY <1>3 DEF WalkParts
<1>6. Answer(rows, stored, walk.query)' = W
  BY <1>5 DEF W
<1>7. WalkTypes'
  <2>1. walk'.state \in {"none", "more", "ended", "faulty"}
    BY <1>5
  <2> QED BY <1>4, <1>5, <2>1 DEF WalkTypes
<1>8. Calm' <=> CalmFor(query, writes)
  BY <1>5 DEF Calm, CalmFor
<1>9. PagesInv'
  <2>1. walk'.state = "more" => more
    BY <1>5
  <2>2. more => query.per_page > 0
    BY DEF more
  <2>3. walk'.state = "ended" => ~more
    BY <1>5
  <2>4. Calm' => Beginning(seen, W)
    BY <1>8 DEF W
  <2>5. walk'.writes = {} => Calm'
    BY <1>5, <1>8 DEF CalmFor
  <2> QED BY <1>4, <1>5, <1>6, <2>1, <2>2, <2>3, <2>4, <2>5 DEF PagesInv
<1>10. FaultyInv'
  BY <1>5 DEF FaultyInv
<1> QED BY <1>7, <1>9, <1>10

LEMMA FirstPageKeeps ==
  ASSUME SourceInv, NEW query \in Queries, FirstPage(query)
  PROVE  WalkTypes' /\ PagesInv' /\ FaultyInv'
<1>1. walk' = Fetched(query, <<>>, {}) /\ UNCHANGED <<rows, stored>> /\ SourceTypes
  BY DEF FirstPage, SourceInv
<1>2. AsksFor(query, query)
  <2>1. IsQuery(query)
    BY SourceQueryAssumption
  <2> QED BY <2>1 DEF IsQuery, AsksFor, SameButPage, QueryFields
<1>3. query.page = 1 /\ query.per_page \in Nat
  BY SourceQueryAssumption DEF IsQuery
<1>4. Len(<<>>) = (query.page - 1) * query.per_page
  BY <1>3, EmptySequence
<1>5. Beginning(<<>>, Answer(rows, stored, query))
  <2> DEFINE W == Answer(rows, stored, query)
  <2>1. IsSequence(W) /\ Len(W) \in Nat
    BY <1>1, AnswerFits, SequenceFacts
  <2> HIDE DEF W
  <2>2. <<>> = SubSeq(W, 1, Len(<<>>))
    BY <2>1, EmptySequence DEF IsSequence
  <2>3. Len(<<>>) <= Len(W)
    BY <2>1, EmptySequence
  <2>4. Beginning(<<>>, W)
    BY <2>2, <2>3, Zenon DEF Beginning
  <2> QED BY <2>4 DEF W
<1> QED BY <1>1, <1>2, <1>4, <1>5, EmptySequence, FetchKeeps

LEMMA NextPageKeeps ==
  ASSUME SourceInv, NextPage
  PROVE  WalkTypes' /\ PagesInv' /\ FaultyInv'
<1> DEFINE query == [walk.query EXCEPT !.page = @ + 1]
<1>1. /\ walk.state = "more" /\ walk' = Fetched(query, walk.seen, walk.writes)
      /\ UNCHANGED <<rows, stored>> /\ SourceTypes /\ Walking
  BY DEF NextPage, SourceInv, Walking
<1>2. PICK base \in Queries : AsksFor(walk.query, base)
  BY <1>1 DEF SourceInv, WalkTypes
<1>3. /\ query.page = walk.query.page + 1 /\ query.per_page = walk.query.per_page
      /\ DOMAIN query = QueryFields /\ SameButPage(query, walk.query)
  BY <1>2 DEF AsksFor, QueryFields, SameButPage
<1> HIDE DEF query
<1>4. walk.query.page \in Nat \ {0}
  BY <1>2 DEF AsksFor
<1>5. AsksFor(query, base)
  BY <1>2, <1>3, <1>4 DEF AsksFor, SameButPage
<1>6. Answer(rows, stored, query) = Answer(rows, stored, walk.query)
  BY <1>3, AnswerIgnoresPage
<1>7. /\ Len(walk.seen) = walk.query.page * walk.query.per_page
      /\ Calm => Beginning(walk.seen, Answer(rows, stored, walk.query))
      /\ IsSequence(walk.seen)
  BY <1>1 DEF SourceInv, PagesInv, WalkTypes
<1>8. query.page - 1 = walk.query.page
  BY <1>3, <1>4
<1>9. Len(walk.seen) = (query.page - 1) * query.per_page
  BY <1>3, <1>7, <1>8
<1>10. CalmFor(query, walk.writes) => Calm
  BY <1>3 DEF CalmFor, Calm, SameButPage
<1>11. CalmFor(query, walk.writes) => Beginning(walk.seen, Answer(rows, stored, query))
  BY <1>6, <1>7, <1>10
<1> QED BY <1>1, <1>5, <1>7, <1>9, <1>11, FetchKeeps

LEMMA FaultyQueryKeeps ==
  ASSUME SourceInv, NEW query \in FaultyQueries, FaultyQuery(query)
  PROVE  WalkTypes' /\ PagesInv' /\ FaultyInv'
<1> DEFINE W == Answer(rows, stored, query)
           p == Paginate(W, query.page, query.per_page)
           more == query.page > 0 /\ query.per_page > 0 /\ Len(p) = query.per_page
<1>1. /\ walk' = [Fetched(query, <<>>, {}) EXCEPT !.state = "faulty"]
      /\ UNCHANGED <<rows, stored>> /\ SourceTypes
  BY DEF FaultyQuery, SourceInv
<1>2. Fetched(query, <<>>, {}) =
        [state  |-> IF more THEN "more" ELSE "ended",
         query  |-> query,
         seen   |-> <<>> \o p,
         total  |-> Len(W),
         writes |-> {}]
  BY Zenon DEF Fetched, RegistryQuery
<1>3. IsSequence(p) /\ ToSet(p) \subseteq ToSet(W)
  <2>1. IsSequence(W)
    BY <1>1, AnswerFits
  <2>2. query.page \in Nat /\ query.per_page \in Nat
    BY SourceQueryAssumption DEF IsQuery
  <2> HIDE DEF W
  <2> QED BY <2>1, <2>2, PageShape
<1> HIDE DEF W, p, more
<1>4. <<>> \o p = p
  BY <1>3 DEF IsSequence
<1>5. /\ walk'.state = "faulty" /\ walk'.query = query /\ walk'.seen = p
      /\ DOMAIN walk' = WalkParts
  BY <1>1, <1>2, <1>4 DEF WalkParts
<1>6. Answer(rows, stored, walk.query)' = W
  BY <1>1, <1>5 DEF W
<1> QED BY <1>3, <1>5, <1>6 DEF WalkTypes, PagesInv, FaultyInv, Walking

LEMMA RowStored ==
  ASSUME stored \in StoredTexts, NEW r \in RowId, NEW row \in Rows
  PROVE  [stored EXCEPT ![r] = row] \in StoredTexts
<1>1. row = [f \in Field |-> row[f]]
  BY SourceQueryAssumption
<1>2. \A f \in Field : row[f] \in Keys
  BY DEF Keys, Texts
<1>3. row \in [Field -> Keys]
  <2> HIDE DEF Keys
  <2> QED BY <1>1, <1>2
<1> QED BY <1>3 DEF StoredTexts

(* A write is noted in a walk that goes on.                                *)
LEMMA NotedInWalk ==
  ASSUME WalkTypes, NEW change, walk' = Noted(change)
  PROVE  /\ WalkTypes'
         /\ walk'.state = "more" \/ walk' = NoWalk
         /\ walk'.state = "more" =>
              /\ walk.state = "more" /\ walk'.query = walk.query /\ walk'.seen = walk.seen
              /\ walk'.writes = walk.writes \cup {change}
<1>1. CASE walk.state = "more"
  <2>1. walk' = [walk EXCEPT !.writes = walk.writes \cup {change}] /\ DOMAIN walk = WalkParts
    BY <1>1 DEF Noted, WalkTypes
  <2>2. /\ walk'.state = "more" /\ walk'.query = walk.query /\ walk'.seen = walk.seen
        /\ walk'.writes = walk.writes \cup {change} /\ DOMAIN walk' = WalkParts
    BY <1>1, <2>1 DEF WalkParts
  <2> QED BY <1>1, <2>2 DEF WalkTypes, Walking
<1>2. CASE walk.state # "more"
  <2>1. walk' = NoWalk
    BY <1>2 DEF Noted
  <2>2. walk'.state = "none"
    BY <2>1 DEF NoWalk
  <2> QED BY <2>1, <2>2 DEF WalkTypes, Walking
<1> QED BY <1>1, <1>2

LEMMA PutNewKeeps ==
  ASSUME SourceInv, NEW r \in RowId, NEW row \in Rows, PutNew(r, row)
  PROVE  SourceInv'
<1>1. /\ rows' = Append(rows, r) /\ stored' = [stored EXCEPT ![r] = row]
      /\ walk' = Noted("new") /\ ~InRows(r)
  BY DEF PutNew
<1>2. /\ SourceTypes /\ WalkTypes /\ IsSequence(rows) /\ ToSet(rows) \subseteq RowId
      /\ stored \in StoredTexts
  BY DEF SourceInv, SourceTypes, AreRows
<1>3. r \notin ToSet(rows)
  BY <1>1 DEF InRows, ToSet
<1>4. SourceTypes'
  <2>1. IsJsSet(rows')
    BY <1>1, <1>2, <1>3, JsSetAdd DEF IsJsSet, SourceTypes
  <2>2. ToSet(rows') = ToSet(rows) \cup {r}
    BY <1>1, <1>2, SequenceAppend
  <2>3. stored' \in StoredTexts
    BY <1>1, <1>2, RowStored
  <2> QED BY <1>2, <2>1, <2>2, <2>3 DEF SourceTypes, AreRows, IsJsSet
<1>5. /\ WalkTypes' /\ (walk'.state = "more" \/ walk' = NoWalk)
      /\ walk'.state = "more" =>
           /\ walk.state = "more" /\ walk'.query = walk.query /\ walk'.seen = walk.seen
           /\ walk'.writes = walk.writes \cup {"new"}
  BY <1>1, <1>2, NotedInWalk
<1>6. CASE walk' = NoWalk
  <2>1. walk'.state = "none"
    BY <1>6 DEF NoWalk
  <2> QED BY <1>4, <1>5, <2>1 DEF SourceInv, PagesInv, FaultyInv, Walking
<1>7. CASE walk'.state = "more"
  <2> DEFINE query == walk.query
             W == Answer(rows, stored, query)
             W2 == Answer(rows', stored', query)
  <2>1. /\ walk.state = "more" /\ walk'.query = query /\ walk'.seen = walk.seen
        /\ walk'.writes = walk.writes \cup {"new"}
    BY <1>5, <1>7
  <2>2. /\ query.per_page > 0 /\ Len(walk.seen) = query.page * query.per_page
        /\ Calm => Beginning(walk.seen, W)
        /\ IsSequence(walk.seen)
    BY <2>1 DEF SourceInv, PagesInv, WalkTypes, Walking
  <2>3. Calm' => Calm /\ query.sort_field = NULL
    BY <2>1 DEF Calm
  <2>4. \A x \in ToSet(rows) : stored'[x] = stored[x]
    BY <1>1, <1>2, <1>3 DEF StoredTexts
  <2>5. query.sort_field = NULL => Grown(W, W2, r)
    BY <1>1, <1>2, <2>4, AnswerGrows DEF AreRows
  <2>6. IsSequence(W)
    BY <1>2, AnswerFits
  <2>7. Answer(rows, stored, walk.query)' = W2
    BY <2>1
  <2> HIDE DEF W, W2
  <2>8. Calm' => Beginning(walk.seen, W2)
    BY <2>2, <2>3, <2>5, <2>6, BeginningGrows
  <2>9. PagesInv'
    BY <1>7, <2>1, <2>2, <2>7, <2>8 DEF PagesInv
  <2>10. FaultyInv'
    BY <1>7 DEF FaultyInv
  <2> QED BY <1>4, <1>5, <2>9, <2>10 DEF SourceInv
<1> QED BY <1>5, <1>6, <1>7

LEMMA PutAgainKeeps ==
  ASSUME SourceInv, NEW r \in RowId, NEW row \in Rows, PutAgain(r, row)
  PROVE  SourceInv'
<1>1. /\ rows' = rows /\ stored' = [stored EXCEPT ![r] = row] /\ walk' = Noted("changed")
  BY DEF PutAgain
<1>2. SourceTypes /\ WalkTypes
  BY DEF SourceInv
<1>3. SourceTypes'
  BY <1>1, <1>2, RowStored DEF SourceTypes, AreRows
<1>4. /\ WalkTypes' /\ (walk'.state = "more" \/ walk' = NoWalk)
      /\ walk'.state = "more" =>
           /\ walk.state = "more" /\ walk'.query = walk.query /\ walk'.seen = walk.seen
           /\ walk'.writes = walk.writes \cup {"changed"}
  BY <1>1, <1>2, NotedInWalk
<1>5. CASE walk' = NoWalk
  <2>1. walk'.state = "none"
    BY <1>5 DEF NoWalk
  <2> QED BY <1>3, <1>4, <2>1 DEF SourceInv, PagesInv, FaultyInv, Walking
<1>6. CASE walk'.state = "more"
  <2>1. /\ walk.state = "more" /\ walk'.query = walk.query /\ walk'.seen = walk.seen
        /\ walk'.writes = walk.writes \cup {"changed"}
    BY <1>4, <1>6
  <2>2. walk.query.per_page > 0 /\ Len(walk.seen) = walk.query.page * walk.query.per_page
    BY <2>1 DEF SourceInv, PagesInv, Walking
  <2>3. ~Calm'
    BY <2>1 DEF Calm
  <2>4. PagesInv'
    BY <1>6, <2>1, <2>2, <2>3 DEF PagesInv
  <2>5. FaultyInv'
    BY <1>6 DEF FaultyInv
  <2> QED BY <1>3, <1>4, <2>4, <2>5 DEF SourceInv
<1> QED BY <1>4, <1>5, <1>6

LEMMA SourceKeeps ==
  ASSUME SourceInv, [Next]_queryVars
  PROVE  SourceInv'
<1>1. SourceTypes
  BY DEF SourceInv
<1>2. ASSUME NEW r \in RowId, NEW row \in Rows, PutNew(r, row) \/ PutAgain(r, row)
      PROVE  SourceInv'
  BY <1>2, PutNewKeeps, PutAgainKeeps
<1>3. ASSUME NEW query \in Queries, FirstPage(query)
      PROVE  SourceInv'
  <2>1. rows' = rows /\ stored' = stored
    BY <1>3 DEF FirstPage
  <2>2. SourceTypes'
    BY <1>1, <2>1 DEF SourceTypes, AreRows
  <2> QED BY <1>3, <2>2, FirstPageKeeps DEF SourceInv
<1>4. ASSUME NEW query \in FaultyQueries, FaultyQuery(query)
      PROVE  SourceInv'
  <2>1. rows' = rows /\ stored' = stored
    BY <1>4 DEF FaultyQuery
  <2>2. SourceTypes'
    BY <1>1, <2>1 DEF SourceTypes, AreRows
  <2> QED BY <1>4, <2>2, FaultyQueryKeeps DEF SourceInv
<1>5. ASSUME NextPage
      PROVE  SourceInv'
  <2>1. rows' = rows /\ stored' = stored
    BY <1>5 DEF NextPage
  <2>2. SourceTypes'
    BY <1>1, <2>1 DEF SourceTypes, AreRows
  <2> QED BY <1>5, <2>2, NextPageKeeps DEF SourceInv
<1>6. ASSUME EndWalk
      PROVE  SourceInv'
  <2>1. rows' = rows /\ stored' = stored /\ walk' = NoWalk /\ walk'.state = "none"
    BY <1>6 DEF EndWalk, NoWalk
  <2> QED BY <1>1, <2>1 DEF SourceInv, SourceTypes, AreRows, WalkTypes, PagesInv, FaultyInv, Walking
<1>7. ASSUME UNCHANGED queryVars
      PROVE  SourceInv'
  <2>1. rows' = rows /\ stored' = stored /\ walk' = walk
    BY <1>7 DEF queryVars
  <2> QED BY <2>1 DEF SourceInv, SourceTypes, AreRows, WalkTypes, PagesInv, FaultyInv, Walking, Calm
<1> QED BY <1>2, <1>3, <1>4, <1>5, <1>6, <1>7 DEF Next

LEMMA SourceInvariant == Spec => []SourceInv
<1>1. Init => SourceInv
  BY SourceStarts
<1>2. SourceInv /\ [Next]_queryVars => SourceInv'
  BY SourceKeeps
<1> QED BY <1>1, <1>2, PTL DEF Spec

(* What is asked for.                                                      *)
LEMMA WalkAsks ==
  ASSUME SourceInv, Walking
  PROVE  /\ IsFilters(walk.query) /\ walk.query.failed = {}
         /\ SameButPage(Unpaged, walk.query)
         /\ WholeAnswer = Answer(rows, stored, walk.query)
<1>1. PICK base \in Queries : AsksFor(walk.query, base)
  BY DEF SourceInv, WalkTypes
<1>2. base.filters \in Seq(ToSet(base.filters)) /\ base.failed = {}
  BY SourceQueryAssumption DEF IsQuery
<1>3. IsFilters(walk.query) /\ walk.query.failed = {}
  BY <1>1, <1>2 DEF AsksFor, SameButPage, IsFilters, IsSequence
<1>4. SameButPage(Unpaged, walk.query)
  BY <1>1 DEF AsksFor, QueryFields, Unpaged, SameButPage
<1>5. WholeAnswer = Answer(rows, stored, walk.query)
  BY <1>4, AnswerIgnoresPage, Zenon DEF WholeAnswer
<1> QED BY <1>3, <1>4, <1>5

(* The stages of hyle_registry_query together keep the rows that meet      *)
(* every filter and the free-text term, for every schema, index and query  *)
(* whose reference filters fit the tables of prefilter_multi_ref.          *)
THEOREM QueryMeans == Spec => []AnswerIsWhatFiltersMean
<1>1. ASSUME SourceInv
      PROVE  AnswerIsWhatFiltersMean
  <2>1. SUFFICES ASSUME Walking, FitsTables(walk.query)
                 PROVE  ToSet(WholeAnswer) = { r \in ToSet(rows) : Means(r, walk.query) }
    BY DEF AnswerIsWhatFiltersMean
  <2> DEFINE W == Answer(rows, stored, walk.query)
  <2>2. IsFilters(walk.query) /\ walk.query.failed = {} /\ WholeAnswer = W
    BY <1>1, <2>1, WalkAsks
  <2>3. \A r : r \in ToSet(W) <=> r \in ToSet(rows) /\ MeetsStages(stored, r, walk.query)
    BY <1>1, AnswerElements DEF SourceInv, SourceTypes
  <2>4. \A r : MeetsStages(stored, r, walk.query) <=> Means(r, walk.query)
    BY <2>1, <2>2, StagesMean
  <2> HIDE DEF W
  <2> QED BY <2>2, <2>3, <2>4
<1>2. Spec => []SourceInv
  BY SourceInvariant
<1> QED BY <1>1, <1>2, PTL

(* A query whose maps do not all open gives no row that misses a filter,   *)
(* other than those on reference fields whose set, or a later intersection *)
(* of whose sets, did not open.                                            *)
THEOREM QueryLosesReferences == Spec => []OnlyReferencesAreLost
<1>1. ASSUME SourceInv
      PROVE  OnlyReferencesAreLost
  <2> DEFINE query == walk.query
             order == RefOrder(query)
             lost(f) == \E i \in DOMAIN order :
                          /\ order[i] = f
                          /\ \/ <<"set", f>> \in query.failed
                             \/ \E j \in i .. Len(order) : <<"meet", order[j]>> \in query.failed
  <2>1. SUFFICES ASSUME walk.state = "faulty", FitsTables(query), NEW r \in ToSet(walk.seen)
                 PROVE  /\ \A i \in DOMAIN query.filters :
                             LET flt == query.filters[i] IN
                               IF flt.field \in ToSet(order)
                               THEN lost(flt.field) \/ FieldMeans(r, query, flt.field)
                               ELSE \/ FilterKeeps(stored, r, flt)
                                    \/ flt.field \in Searchable /\ FtsKeeps(stored, r, flt)
                        /\ query.q # NULL => RowMatchesQ(stored, r, query.q)
    BY Zenon DEF OnlyReferencesAreLost
  <2>2. query \in FaultyQueries /\ r \in ToSet(Answer(rows, stored, query))
    BY <1>1, <2>1 DEF SourceInv, FaultyInv
  <2>3. IsFilters(query)
    BY <2>2, SourceQueryAssumption DEF IsQuery, IsFilters, IsSequence
  <2>4. MeetsStages(stored, r, query)
    BY <1>1, <2>2, AnswerElements DEF SourceInv, SourceTypes
  <2> HIDE DEF query
  <2>5. IsSequence(order) /\ ToSet(order) = FieldsOf(query, Handled(query))
    BY <2>3, RefOrderElements
  <2> HIDE DEF order
  <2>6. ASSUME NEW f \in ToSet(order), ~lost(f)
        PROVE  f \in RefGroups(query)
    <3>1. PICK k \in 1 .. Len(order) : order[k] = f
      BY <2>5, SequenceFacts
    <3>2. k \in DOMAIN order
      BY <2>5, <3>1, SequenceFacts
    <3>3. /\ <<"set", order[k]>> \notin query.failed
          /\ \A j \in k .. Len(order) : <<"meet", order[j]>> \notin query.failed
      BY <2>6, <3>1, <3>2, Zenon
    <3>4. order[k] \in GroupsUpTo(order, query.failed)[Len(order)]
      BY <2>5, <3>3, GroupStays
    <3> QED BY <3>1, <3>4, Zenon DEF RefGroups, order
  <2>7. ASSUME NEW f \in ToSet(order), ~lost(f)
        PROVE  FieldMeans(r, query, f)
    <3>1. f \in FieldsOf(query, Handled(query)) /\ f \in RefGroups(query)
      BY <2>5, <2>6, <2>7
    <3>2. f \in Field
      BY <2>1, <2>3, <3>1, HandledField
    <3>3. StagesOfField(stored, r, query, f)
      BY <2>4, <3>1, Zenon DEF MeetsStages, StagesOfField
    <3> QED BY <2>1, <2>3, <3>2, <3>3, FieldStages
  <2>8. ASSUME NEW i \in DOMAIN query.filters, query.filters[i].field \notin ToSet(order)
        PROVE  \/ FilterKeeps(stored, r, query.filters[i])
               \/ /\ query.filters[i].field \in Searchable
                  /\ FtsKeeps(stored, r, query.filters[i])
    <3>1. i \notin Handled(query)
      BY <2>5, <2>8 DEF FieldsOf
    <3>2. CASE i \in FtsFilters(query)
      <4>1. query.filters[i].field \in Searchable
        BY <3>2 DEF FtsFilters
      <4>2. FtsKeeps(stored, r, query.filters[i])
        BY <2>4, <3>2, Zenon DEF MeetsStages
      <4> QED BY <4>1, <4>2
    <3>3. CASE i \notin FtsFilters(query)
      <4>1. i \in Residual(query)
        BY <3>1, <3>3 DEF Residual
      <4>2. FilterKeeps(stored, r, query.filters[i])
        BY <2>4, <4>1, Zenon DEF MeetsStages
      <4> QED BY <4>2
    <3> QED BY <3>2, <3>3
  <2>9. query.q # NULL => RowMatchesQ(stored, r, query.q)
    <3>1. query.q # NULL => IF QFails(query) THEN QKeeps(stored, r, query.q)
                                             ELSE RowMatchesQ(stored, r, query.q)
      BY <2>4, Zenon DEF MeetsStages
    <3>2. QKeeps(stored, r, query.q) => RowMatchesQ(stored, r, query.q)
      BY Zenon DEF QKeeps, RowMatchesQ, FieldVal
    <3> QED BY <3>1, <3>2
  <2> HIDE DEF lost
  <2> QED BY <2>7, <2>8, <2>9, Zenon
<1>2. Spec => []SourceInv
  BY SourceInvariant
<1> QED BY <1>1, <1>2, PTL

(* Page after page is the whole answer cut in pieces.                      *)
THEOREM QueryPages == Spec => []PagesFollowTheAnswer
<1>1. ASSUME SourceInv
      PROVE  PagesFollowTheAnswer
  <2>1. CASE Walking
    <3>1. WholeAnswer = Answer(rows, stored, walk.query)
      BY <1>1, <2>1, WalkAsks
    <3>2. /\ Calm => Beginning(walk.seen, WholeAnswer)
          /\ walk.state = "ended" /\ walk.writes = {} =>
               walk.seen = WholeAnswer /\ walk.total = Len(WholeAnswer)
      BY <1>1, <2>1, <3>1, Zenon DEF SourceInv, PagesInv
    <3> QED BY <3>2, Zenon DEF PagesFollowTheAnswer, Calm
  <2>2. CASE ~Walking
    BY <2>2, Zenon DEF PagesFollowTheAnswer
  <2> QED BY <2>1, <2>2
<1>2. Spec => []SourceInv
  BY SourceInvariant
<1> QED BY <1>1, <1>2, PTL

(* The sorted answer, for every order of texts that strcasecmp can be.     *)
LEMMA SortedAnswer ==
  ASSUME SourceTypes, NEW query, query.sort_field # NULL, query.sort_asc \in BOOLEAN
  PROVE  LET W == Answer(rows, stored, query)
             val == [i \in DOMAIN W |-> FieldVal(stored, W[i], query.sort_field)]
             numeric == Numeric({ val[i] : i \in DOMAIN W })
         IN /\ \A i \in DOMAIN W : val[i] \in Keys
            /\ \A i, j \in DOMAIN W :
                 (IF query.sort_asc THEN i < j ELSE j < i) => ~CmpBefore(val[j], val[i], numeric)
<1> DEFINE F == FilterRows(Candidates(rows, stored, query), stored, query)
           W == Answer(rows, stored, query)
           key == SortKey(F, stored, query.sort_field)
           n == Len(F)
           val == [i \in DOMAIN W |-> FieldVal(stored, W[i], query.sort_field)]
<1>1. AreRows(F)
  <2>1. AreRows(PrefilterFts(rows, stored, query))
    BY FtsStage DEF SourceTypes
  <2>2. AreRows(PrefilterMultiRef(PrefilterFts(rows, stored, query), stored, query))
    BY <2>1, RefStage
  <2>3. AreRows(Candidates(rows, stored, query))
    BY <2>2, TermStage DEF Candidates
  <2> QED BY <2>3, ResidualStage
<1>2. W = SortRows(F, stored, query)
  BY Zenon DEF Answer
<1> HIDE DEF F
<1>3. /\ IsSequence(F) /\ n \in Nat /\ DOMAIN F = 1 .. n
      /\ \A i \in 1 .. n : F[i] \in RowId
  BY <1>1, SequenceFacts DEF AreRows
<1>4. DOMAIN key = 1 .. n /\ \A i \in 1 .. n : key[i] = FieldVal(stored, F[i], query.sort_field)
  BY <1>3 DEF SortKey
<1>5. \A i \in 1 .. n : key[i] \in Keys
  BY <1>3, <1>4, FieldValIsKey DEF SourceTypes
<1>6. PICK c : SortsTo(F, W, c, key, SortNumeric(F, key), query.sort_asc)
  <2> HIDE DEF W, n
  <2> QED BY <1>2, <1>3, <1>5, SortSorts DEF n
<1> HIDE DEF W, key
<1>7. /\ c \in [1 .. n -> 1 .. n] /\ W = [k \in DOMAIN F |-> F[c[k]]]
      /\ \A i \in 1 .. n : \E k \in 1 .. n : c[k] = i
      /\ \A k, l \in 1 .. n : k < l => ~SortLess(key, SortNumeric(F, key), query.sort_asc, c[l], c[k])
  BY <1>6 DEF SortsTo
<1>8. DOMAIN W = 1 .. n /\ \A k \in 1 .. n : c[k] \in 1 .. n /\ val[k] = key[c[k]]
  BY <1>3, <1>4, <1>7
<1>9. \A k \in DOMAIN W : val[k] \in Keys
  BY <1>5, <1>8
<1> HIDE DEF val, n
<1>10. { val[i] : i \in DOMAIN W } = { key[i] : i \in DOMAIN F }
  <2>1. ASSUME NEW i \in DOMAIN W
        PROVE  val[i] \in { key[j] : j \in DOMAIN F }
    <3>1. i \in 1 .. n /\ c[i] \in DOMAIN F /\ val[i] = key[c[i]]
      BY <1>3, <1>8, <2>1, Zenon
    <3> QED BY <3>1, Zenon
  <2>2. ASSUME NEW i \in DOMAIN F
        PROVE  key[i] \in { val[j] : j \in DOMAIN W }
    <3>1. PICK k \in 1 .. n : c[k] = i
      BY <1>3, <1>7, <2>2, Zenon
    <3>2. k \in DOMAIN W /\ val[k] = key[i]
      BY <1>8, <3>1, Zenon
    <3> QED BY <3>2, Zenon
  <2> QED BY <2>1, <2>2
<1>11. SortNumeric(F, key) <=> Numeric({ val[i] : i \in DOMAIN W })
  BY <1>10, NumericMeans, Zenon DEF SortNumeric
<1> DEFINE numeric == Numeric({ val[i] : i \in DOMAIN W })
           sorts == SortNumeric(F, key)
<1>12. sorts = numeric
  BY <1>11, Zenon DEF SortNumeric, Numeric, AllNumbers
<1> HIDE DEF numeric, sorts
<1>13. ASSUME NEW i \in DOMAIN W, NEW j \in DOMAIN W,
              IF query.sort_asc THEN i < j ELSE j < i
       PROVE  ~CmpBefore(val[j], val[i], numeric)
  <2>1. /\ i \in 1 .. n /\ j \in 1 .. n /\ val[i] = key[c[i]] /\ val[j] = key[c[j]]
    BY <1>8
  <2>2. CASE query.sort_asc
    <3>1. ~SortLess(key, sorts, query.sort_asc, c[j], c[i])
      BY <1>7, <1>13, <2>1, <2>2 DEF sorts
    <3> QED BY <1>12, <2>1, <2>2, <3>1, Zenon DEF SortLess
  <2>3. CASE ~query.sort_asc
    <3>1. ~SortLess(key, sorts, query.sort_asc, c[i], c[j])
      BY <1>7, <1>13, <2>1, <2>3 DEF sorts
    <3> QED BY <1>12, <2>1, <2>3, <3>1, Zenon DEF SortLess
  <2> QED BY <2>2, <2>3
<1> QED BY <1>9, <1>13, Zenon DEF val, W, numeric

(* Over all its pages an answer is sorted: by number when every text of    *)
(* the field that is not empty is one, with the missing and the empty      *)
(* texts at one end, and by the order of texts otherwise.                  *)
THEOREM QuerySorted == Spec => []AnswerIsSorted
<1>1. ASSUME SourceInv
      PROVE  AnswerIsSorted
  <2> DEFINE W == WholeAnswer
             val == [i \in DOMAIN W |-> FieldVal(stored, W[i], walk.query.sort_field)]
             numbers == \A i \in DOMAIN val : val[i] \in {NULL, ""} \/ Number(val[i]) # NULL
             inOrder(i, j) == IF walk.query.sort_asc THEN i < j ELSE j < i
             numeric == Numeric({ val[i] : i \in DOMAIN W })
  <2>1. SUFFICES ASSUME Walking, walk.query.sort_field # NULL,
                        NEW i \in DOMAIN val, NEW j \in DOMAIN val, inOrder(i, j)
                 PROVE  /\ val[j] = NULL => val[i] = NULL
                        /\ numbers /\ {val[i], val[j]} \cap {NULL, ""} = {}
                             => Number(val[i]) <= Number(val[j])
                        /\ ~numbers /\ NULL \notin {val[i], val[j]} => ~TextBefore(val[j], val[i])
    BY Zenon DEF AnswerIsSorted
  <2>2. walk.query.sort_asc \in BOOLEAN
    <3>1. PICK base \in Queries : AsksFor(walk.query, base)
      BY <1>1, <2>1 DEF SourceInv, WalkTypes
    <3>2. base.sort_asc \in BOOLEAN
      BY SourceQueryAssumption, Zenon DEF IsQuery
    <3> QED BY <3>1, <3>2, Zenon DEF AsksFor, SameButPage
  <2>3. W = Answer(rows, stored, walk.query)
    BY <1>1, <2>1, WalkAsks
  <2>4. SourceTypes
    BY <1>1 DEF SourceInv
  <2>5. /\ \A k \in DOMAIN W : val[k] \in Keys
        /\ \A k, l \in DOMAIN W : inOrder(k, l) => ~CmpBefore(val[l], val[k], numeric)
    BY <2>1, <2>2, <2>3, <2>4, SortedAnswer, Zenon
  <2>6. i \in DOMAIN W /\ j \in DOMAIN W
    BY <2>1, Zenon
  <2>7. /\ val[i] \in Keys /\ val[j] \in Keys
        /\ ~CmpBefore(val[j], val[i], numeric)
    BY <2>1, <2>5, <2>6, Zenon
  <2>8. numbers <=> numeric
    <3>1. DOMAIN val = DOMAIN W
      BY Zenon
    <3> HIDE DEF val, W
    <3> QED BY <3>1, Zenon DEF Numeric, IsEmptyText
  <2>9. {val[i], val[j]} \cap {NULL, ""} = {} =>
          /\ val[i] # NULL /\ ~IsEmptyText(val[i])
          /\ val[j] # NULL /\ ~IsEmptyText(val[j])
    <3> HIDE DEF val, W
    <3> QED BY Zenon DEF IsEmptyText
  <2>10. numeric => \A k \in DOMAIN W : val[k] # NULL /\ ~IsEmptyText(val[k]) => Number(val[k]) # NULL
    <3> HIDE DEF val, W
    <3> QED BY Zenon DEF Numeric
  <2>11. ~CmpBefore(val[j], val[i], numeric) <=>
           ~(IF val[j] = NULL \/ val[i] = NULL THEN val[j] = NULL /\ val[i] # NULL
             ELSE IF numeric /\ ~IsEmptyText(val[j]) /\ ~IsEmptyText(val[i])
             THEN Number(val[j]) < Number(val[i])
             ELSE TextBefore(val[j], val[i]))
    <3> HIDE DEF val, W, numeric
    <3> QED BY CmpCases, Zenon
  <2>12. NULL \notin Texts /\ \A x \in Keys : x # NULL => x \in Texts
    BY DEF Texts, Keys
  <2> HIDE DEF val, W, numeric, numbers
  <2>13. val[j] = NULL => val[i] = NULL
    BY <2>7, <2>11
  <2>14. ASSUME numeric,
                val[i] # NULL, ~IsEmptyText(val[i]), val[j] # NULL, ~IsEmptyText(val[j])
         PROVE  Number(val[i]) <= Number(val[j])
    <3>1. Number(val[i]) \in Int /\ Number(val[j]) \in Int
      BY <2>6, <2>7, <2>10, <2>12, <2>14, TextsOrdered
    <3>2. ~(Number(val[j]) < Number(val[i]))
      BY <2>7, <2>11, <2>14, Zenon
    <3> QED BY <3>1, <3>2
  <2>15. ASSUME ~numeric, val[i] # NULL, val[j] # NULL
         PROVE  ~TextBefore(val[j], val[i])
    BY <2>7, <2>11, <2>15
  <2>16. NULL \notin {val[i], val[j]} => val[i] # NULL /\ val[j] # NULL
    OBVIOUS
  <2> QED BY <2>8, <2>9, <2>13, <2>14, <2>15, <2>16, Zenon
<1>2. Spec => []SourceInv
  BY SourceInvariant
<1> QED BY <1>1, <1>2, PTL
=============================================================================
