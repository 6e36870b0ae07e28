--------------------------- MODULE SequenceLemmas ---------------------------
(***************************************************************************)
(* Facts about sequences, the Sets of JavaScript, induction and recursion  *)
(* that the proofs of several components need.  They are stated without    *)
(* operator parameters: of sets, functions and numbers only.               *)
(***************************************************************************)
EXTENDS SequencesExt, WellFoundedInduction, TLAPS

(* A sequence, of whatever values.                                         *)
IsSequence(s) == s \in Seq(ToSet(s))

(* A function on 1 .. n is a sequence of length n.                         *)
LEMMA SequenceOf ==
  ASSUME NEW n \in Nat, NEW s, DOMAIN s = 1 .. n, s = [i \in DOMAIN s |-> s[i]]
  PROVE  IsSequence(s) /\ Len(s) = n
<1>1. \A i \in 1 .. n : s[i] \in ToSet(s)
  BY DEF ToSet
<1>2. s \in Seq(ToSet(s))
  BY <1>1
<1> QED BY <1>2 DEF IsSequence

LEMMA SequenceFacts ==
  ASSUME NEW s, IsSequence(s)
  PROVE  /\ Len(s) \in Nat /\ DOMAIN s = 1 .. Len(s)
         /\ s = [i \in DOMAIN s |-> s[i]]
         /\ s = <<>> <=> Len(s) = 0
         /\ \A x : x \in ToSet(s) <=> \E i \in 1 .. Len(s) : s[i] = x
BY DEF IsSequence, ToSet

LEMMA SequenceIn ==
  ASSUME NEW S, NEW s \in Seq(S)
  PROVE  IsSequence(s) /\ DOMAIN s = 1 .. Len(s) /\ Len(s) \in Nat /\ ToSet(s) \subseteq S
<1>1. Len(s) \in Nat /\ DOMAIN s = 1 .. Len(s) /\ s = [i \in DOMAIN s |-> s[i]]
  OBVIOUS
<1> QED BY <1>1, SequenceOf DEF ToSet

LEMMA EmptySequence ==
  /\ IsSequence(<<>>) /\ IsInjective(<<>>) /\ ToSet(<<>>) = {}
  /\ DOMAIN <<>> = {} /\ Len(<<>>) = 0
BY DEF IsSequence, IsInjective, ToSet

(* Appending to a sequence makes a sequence that is longer by one.         *)
LEMMA SequenceAppend ==
  ASSUME NEW s, NEW x, IsSequence(s)
  PROVE  /\ IsSequence(Append(s, x)) /\ Len(Append(s, x)) = Len(s) + 1
         /\ \A i \in 1 .. Len(s) : Append(s, x)[i] = s[i]
         /\ Append(s, x)[Len(s) + 1] = x
         /\ ToSet(Append(s, x)) = ToSet(s) \cup {x}
<1> DEFINE t == Append(s, x)
           S == ToSet(s) \cup {x}
<1>1. s \in Seq(S) /\ x \in S
  BY DEF IsSequence
<1>2. /\ t \in Seq(S) /\ Len(t) = Len(s) + 1
      /\ \A i \in 1 .. Len(s) : t[i] = s[i]
      /\ t[Len(s) + 1] = x
  BY <1>1
<1>3. DOMAIN t = 1 .. Len(s) + 1
  BY <1>1, <1>2
<1>4. IsSequence(t)
  BY <1>2, SequenceIn
<1>5. ToSet(t) = ToSet(s) \cup {x}
  <2>1. ASSUME NEW y, y \in ToSet(t)
        PROVE  y \in ToSet(s) \cup {x}
    BY <1>2, <2>1 DEF ToSet
  <2>2. ASSUME NEW y \in ToSet(s)
        PROVE  y \in ToSet(t)
    <3>1. PICK i \in 1 .. Len(s) : s[i] = y
      BY SequenceFacts
    <3>2. i \in DOMAIN t /\ t[i] = y
      BY <1>2, <1>3, <3>1, SequenceFacts
    <3> HIDE DEF t
    <3> QED BY <3>2 DEF ToSet
  <2>3. Len(s) + 1 \in DOMAIN t /\ t[Len(s) + 1] = x
    BY <1>2, <1>3, SequenceFacts
  <2>4. x \in ToSet(t)
    <3> HIDE DEF t
    <3> QED BY <2>3 DEF ToSet
  <2> QED BY <2>1, <2>2, <2>4
<1> QED BY <1>2, <1>4, <1>5

(* A sequence without its first element, and without its last.             *)
LEMMA SequenceTail ==
  ASSUME NEW s, IsSequence(s), s # <<>>
  PROVE  /\ IsSequence(Tail(s)) /\ Len(Tail(s)) = Len(s) - 1
         /\ \A i \in 1 .. Len(s) - 1 : Tail(s)[i] = s[i + 1]
         /\ Head(s) = s[1]
         /\ ToSet(s) = ToSet(Tail(s)) \cup {Head(s)}
<1> DEFINE t == Tail(s)
<1>1. /\ t \in Seq(ToSet(s)) /\ Len(t) = Len(s) - 1 /\ Len(s) \in Nat /\ Len(s) > 0
      /\ \A i \in 1 .. Len(s) - 1 : t[i] = s[i + 1]
      /\ Head(s) = s[1]
  BY DEF IsSequence
<1>2. DOMAIN t = 1 .. Len(t)
  BY <1>1, SequenceIn
<1>3. IsSequence(t) /\ ToSet(t) \subseteq ToSet(s)
  BY <1>1, SequenceIn
<1>4. ASSUME NEW y \in ToSet(s), y # Head(s)
      PROVE  y \in ToSet(t)
  <2>1. PICK i \in 1 .. Len(s) : s[i] = y
    BY SequenceFacts
  <2>2. i - 1 \in 1 .. Len(t) /\ t[i - 1] = y
    BY <1>1, <1>4, <2>1
  <2> HIDE DEF t
  <2> QED BY <1>2, <2>2 DEF ToSet
<1>5. Head(s) \in ToSet(s)
  BY <1>1 DEF ToSet, IsSequence
<1> QED BY <1>1, <1>3, <1>4, <1>5

LEMMA SequenceFront ==
  ASSUME NEW s, IsSequence(s), s # <<>>
  PROVE  /\ IsSequence(Front(s)) /\ Len(Front(s)) = Len(s) - 1
         /\ DOMAIN Front(s) = 1 .. Len(s) - 1
         /\ \A i \in 1 .. Len(s) - 1 : Front(s)[i] = s[i]
<1> DEFINE t == SubSeq(s, 1, Len(s) - 1)
<1>1. Len(s) \in Nat /\ Len(s) > 0 /\ DOMAIN s = 1 .. Len(s)
  BY SequenceFacts
<1>2. t = [i \in 1 .. Len(s) - 1 |-> s[i]]
  BY <1>1 DEF IsSequence
<1>3. IsSequence(t) /\ Len(t) = Len(s) - 1 /\ DOMAIN t = 1 .. Len(s) - 1
  <2> HIDE DEF t
  <2> QED BY <1>1, <1>2, SequenceOf
<1> QED BY <1>1, <1>2, <1>3 DEF Front

(* A function of each element of a sequence.                               *)
LEMMA SequenceMap ==
  ASSUME NEW s, IsSequence(s), NEW t, DOMAIN t = DOMAIN s, t = [i \in DOMAIN t |-> t[i]]
  PROVE  IsSequence(t) /\ Len(t) = Len(s)
<1>1. Len(s) \in Nat /\ DOMAIN t = 1 .. Len(s)
  BY SequenceFacts
<1> QED BY <1>1, SequenceOf

-----------------------------------------------------------------------------
(* A Set of JavaScript, in the order of insertion.                         *)
IsJsSet(s) == IsSequence(s) /\ IsInjective(s)

(* A set of numbers that is not empty has a first element.                 *)
LEMMA FirstExists ==
  ASSUME NEW T \in SUBSET Nat, T # {}
  PROVE  Min(T) \in T /\ \A j \in T : Min(T) <= j
<1>1. PICK i \in T : \A j \in T : ~ (<<j, i>> \in OpToRel(<, Nat))
  BY WFMin, NatLessThanWellFounded, Zenon
<1>2. \A j \in T : ~ (j < i)
  BY <1>1 DEF OpToRel
<1>3. \E k \in T : \A j \in T : k <= j
  BY <1>2
<1> QED BY <1>3 DEF Min

(* A member joins a Set as its last, and leaves it.                        *)
LEMMA JsSetAdd ==
  ASSUME NEW s, IsJsSet(s), NEW x, x \notin ToSet(s)
  PROVE  IsJsSet(Append(s, x))
<1> DEFINE t == Append(s, x)
<1>1. /\ IsSequence(t) /\ Len(t) = Len(s) + 1 /\ t[Len(s) + 1] = x
      /\ \A i \in 1 .. Len(s) : t[i] = s[i]
  BY SequenceAppend DEF IsJsSet
<1>2. Len(s) \in Nat /\ DOMAIN s = 1 .. Len(s) /\ DOMAIN t = 1 .. Len(s) + 1
  BY <1>1, SequenceFacts DEF IsJsSet
<1>3. \A i \in 1 .. Len(s) : s[i] # x
  BY SequenceFacts DEF IsJsSet
<1>4. \A i, k \in 1 .. Len(s) : s[i] = s[k] => i = k
  BY <1>2 DEF IsJsSet, IsInjective
<1> HIDE DEF t
<1>5. ASSUME NEW i \in DOMAIN t, NEW k \in DOMAIN t, t[i] = t[k]
      PROVE  i = k
  BY <1>1, <1>2, <1>3, <1>4, <1>5
<1> QED BY <1>1, <1>5 DEF IsJsSet, IsInjective, t

LEMMA JsSetTail ==
  ASSUME NEW s, IsJsSet(s), s # <<>>
  PROVE  IsJsSet(Tail(s))
<1> DEFINE t == Tail(s)
<1>1. /\ IsSequence(t) /\ Len(t) = Len(s) - 1 /\ Len(s) \in Nat
      /\ \A i \in 1 .. Len(s) - 1 : t[i] = s[i + 1]
  BY SequenceTail, SequenceFacts DEF IsJsSet
<1>2. DOMAIN t = 1 .. Len(s) - 1
  BY <1>1, SequenceFacts
<1>3. \A i, k \in 1 .. Len(s) : s[i] = s[k] => i = k
  BY SequenceFacts DEF IsJsSet, IsInjective
<1> HIDE DEF t
<1>4. ASSUME NEW i \in DOMAIN t, NEW k \in DOMAIN t, t[i] = t[k]
      PROVE  i = k
  <2>1. i + 1 \in 1 .. Len(s) /\ k + 1 \in 1 .. Len(s) /\ s[i + 1] = s[k + 1]
    BY <1>1, <1>2, <1>4
  <2> QED BY <1>1, <1>2, <1>3, <2>1
<1> QED BY <1>1, <1>4 DEF IsJsSet, IsInjective, t

LEMMA JsSetRemove ==
  ASSUME NEW s, IsJsSet(s), NEW x
  PROVE  /\ IsJsSet(RemoveFirst(s, x))
         /\ ToSet(RemoveFirst(s, x)) = ToSet(s) \ {x}
<1> DEFINE At == { i \in 1 .. Len(s) : s[i] = x }
           m == Min(At)
           t == SubSeq(s, 1, m - 1) \o SubSeq(s, m + 1, Len(s))
<1>1. Len(s) \in Nat /\ DOMAIN s = 1 .. Len(s) /\ s \in Seq(ToSet(s))
  BY SequenceFacts DEF IsJsSet, IsSequence
<1>2. CASE \E i \in 1 .. Len(s) : s[i] = x
  <2>1. At \in SUBSET Nat /\ At # {}
    BY <1>2
  <2>2. m \in At
    <3> HIDE DEF At
    <3> QED BY <2>1, FirstExists
  <2>3. RemoveFirst(s, x) = t
    BY <1>2, <2>1 DEF RemoveFirst, RemoveAt, SelectInSeq
  <2>4. m \in 1 .. Len(s) /\ s[m] = x
    BY <2>2
  <2> HIDE DEF m, At
  <2>5. /\ SubSeq(s, 1, m - 1) = [i \in 1 .. m - 1 |-> s[i]]
        /\ SubSeq(s, m + 1, Len(s)) = [i \in 1 .. Len(s) - m |-> s[m + i]]
    BY <1>1, <2>4
  <2>6. /\ t \in Seq(ToSet(s)) /\ Len(t) = Len(s) - 1
        /\ \A i \in 1 .. Len(s) - 1 : t[i] = IF i < m THEN s[i] ELSE s[i + 1]
    <3> DEFINE u == [i \in 1 .. m - 1 |-> s[i]]
               v == [i \in 1 .. Len(s) - m |-> s[m + i]]
    <3>1. u \in Seq(ToSet(s)) /\ Len(u) = m - 1 /\ v \in Seq(ToSet(s)) /\ Len(v) = Len(s) - m
      <4>1. m - 1 \in Nat /\ Len(s) - m \in Nat
        BY <1>1, <2>4
      <4>2. IsSequence(u) /\ Len(u) = m - 1 /\ IsSequence(v) /\ Len(v) = Len(s) - m
        BY <4>1, SequenceOf
      <4>3. ToSet(u) \subseteq ToSet(s) /\ ToSet(v) \subseteq ToSet(s)
        BY <1>1, <2>4 DEF ToSet
      <4> HIDE DEF u, v
      <4> QED BY <4>2, <4>3 DEF IsSequence
    <3>2. \A i \in 1 .. m - 1 : u[i] = s[i]
      OBVIOUS
    <3>3. \A i \in 1 .. Len(s) - m : v[i] = s[m + i]
      OBVIOUS
    <3>4. t = u \o v
      BY <2>5
    <3> HIDE DEF u, v, t
    <3>5. t \in Seq(ToSet(s)) /\ Len(t) = Len(s) - 1
      <4>1. u \o v \in Seq(ToSet(s)) /\ Len(u \o v) = Len(u) + Len(v)
        BY <3>1
      <4> QED BY <1>1, <2>4, <3>1, <3>4, <4>1
    <3>6. ASSUME NEW i \in 1 .. Len(s) - 1
          PROVE  t[i] = IF i < m THEN s[i] ELSE s[i + 1]
      <4>1. t[i] = IF i <= Len(u) THEN u[i] ELSE v[i - Len(u)]
        BY <1>1, <2>4, <3>1, <3>4
      <4> QED BY <1>1, <2>4, <3>1, <3>2, <3>3, <4>1
    <3> QED BY <3>5, <3>6
  <2> HIDE DEF t
  <2>7. IsSequence(t) /\ DOMAIN t = 1 .. Len(s) - 1
    BY <2>6, SequenceIn
  <2>8. \A i, k \in 1 .. Len(s) : s[i] = s[k] => i = k
    BY <1>1 DEF IsJsSet, IsInjective
  <2>9. IsInjective(t)
    <3>1. ASSUME NEW i \in DOMAIN t, NEW k \in DOMAIN t, t[i] = t[k]
          PROVE  i = k
      BY <1>1, <2>4, <2>6, <2>7, <2>8, <3>1
    <3> QED BY <3>1 DEF IsInjective
  <2>10. ASSUME NEW y \in ToSet(t)
         PROVE  y \in ToSet(s) \ {x}
    <3>1. PICK i \in 1 .. Len(s) - 1 : t[i] = y
      BY <2>7 DEF ToSet
    <3>2. PICK k \in 1 .. Len(s) : k # m /\ s[k] = y
      BY <1>1, <2>4, <2>6, <3>1
    <3> QED BY <1>1, <2>4, <2>8, <3>2 DEF ToSet
  <2>11. ASSUME NEW y \in ToSet(s), y # x
         PROVE  y \in ToSet(t)
    <3>1. PICK k \in 1 .. Len(s) : s[k] = y
      BY <1>1 DEF ToSet
    <3>2. PICK i \in 1 .. Len(s) - 1 : t[i] = y
      <4>1. CASE k < m
        BY <1>1, <2>4, <2>6, <3>1, <4>1
      <4>2. CASE k > m
        <5>1. k - 1 \in 1 .. Len(s) - 1 /\ t[k - 1] = y
          BY <1>1, <2>4, <2>6, <3>1, <4>2
        <5> QED BY <5>1
      <4> QED BY <1>1, <2>4, <2>11, <3>1, <4>1, <4>2
    <3> QED BY <2>7, <3>2 DEF ToSet
  <2> QED BY <2>3, <2>7, <2>9, <2>10, <2>11 DEF IsJsSet
<1>3. CASE ~ \E i \in 1 .. Len(s) : s[i] = x
  BY <1>1, <1>3 DEF RemoveFirst, ToSet
<1> QED BY <1>2, <1>3

LEMMA OneElement ==
  ASSUME NEW x
  PROVE  IsSequence(<<x>>) /\ <<x>> # <<>>
BY DEF IsSequence, ToSet

-----------------------------------------------------------------------------
(* Induction over 0 .. N, for a set of numbers.                            *)
LEMMA InductionUpTo ==
  ASSUME NEW N \in Nat, NEW T, 0 \in T, \A n \in 0 .. N - 1 : n \in T => n + 1 \in T
  PROVE  \A n \in 0 .. N : n \in T
<1> DEFINE U == { n \in 0 .. N : n \notin T }
<1>1. SUFFICES ASSUME U # {}
               PROVE  FALSE
  OBVIOUS
<1>2. U \in SUBSET Nat
  OBVIOUS
<1>3. PICK m \in U : \A k \in U : m <= k
  <2> HIDE DEF U
  <2> QED BY <1>1, <1>2, FirstExists
<1>4. m # 0 /\ m - 1 \in 0 .. N - 1 /\ m - 1 \notin U
  BY <1>3
<1>5. m - 1 \in T
  BY <1>4
<1> QED BY <1>3, <1>4, <1>5

(* A recursion over 1 .. N has a solution: the n-th step is the function   *)
(* g[n] on the values X.                                                   *)
Solves(f, g, b, m) == f[0] = b /\ \A n \in 1 .. m : f[n] = g[n][f[n - 1]]

LEMMA RecursionUpTo ==
  ASSUME NEW N \in Nat, NEW X, NEW b \in X, NEW g \in [1 .. N -> [X -> X]]
  PROVE  \E f \in [0 .. N -> X] : Solves(f, g, b, N)
<1> DEFINE T == { m \in 0 .. N : \E f \in [0 .. m -> X] : Solves(f, g, b, m) }
<1>1. 0 \in T
  <2>1. [i \in 0 .. 0 |-> b] \in [0 .. 0 -> X] /\ Solves([i \in 0 .. 0 |-> b], g, b, 0)
    BY DEF Solves
  <2> QED BY <2>1
<1>2. ASSUME NEW m \in 0 .. N - 1, m \in T
      PROVE  m + 1 \in T
  <2>1. PICK f \in [0 .. m -> X] : Solves(f, g, b, m)
    BY <1>2
  <2> DEFINE h == [i \in 0 .. m + 1 |-> IF i = m + 1 THEN g[m + 1][f[m]] ELSE f[i]]
  <2>2. g[m + 1][f[m]] \in X
    OBVIOUS
  <2>3. h \in [0 .. m + 1 -> X]
    BY <2>2
  <2>4. h[0] = b /\ \A n \in 1 .. m + 1 : h[n] = g[n][h[n - 1]]
    BY <2>1 DEF Solves
  <2> HIDE DEF h
  <2>5. \E e \in [0 .. m + 1 -> X] : Solves(e, g, b, m + 1)
    BY <2>3, <2>4 DEF Solves
  <2> QED BY <2>5
<1>3. N \in 0 .. N
  OBVIOUS
<1>4. N \in T
  <2> HIDE DEF T
  <2> QED BY <1>1, <1>2, <1>3, InductionUpTo
<1> QED BY <1>4

(* A function applied again and again, as a function of how often.         *)
Iterates(f, s, b, m) == \A n \in 0 .. m : f[n] = IF n = 0 THEN b ELSE s[f[n - 1]]

LEMMA IterationUpTo ==
  ASSUME NEW N \in Nat, NEW X, NEW b \in X, NEW s \in [X -> X]
  PROVE  \E f \in [0 .. N -> X] : Iterates(f, s, b, N)
<1> DEFINE g == [n \in 1 .. N |-> s]
<1>1. PICK f \in [0 .. N -> X] : Solves(f, g, b, N)
  <2>1. g \in [1 .. N -> [X -> X]]
    OBVIOUS
  <2> HIDE DEF g
  <2> QED BY <2>1, RecursionUpTo
<1>2. \A n \in 0 .. N : n # 0 => n \in 1 .. N /\ g[n] = s
  OBVIOUS
<1> HIDE DEF g
<1> QED BY <1>1, <1>2 DEF Solves, Iterates

LEMMA SequenceConcat ==
  ASSUME NEW s, NEW t, IsSequence(s), IsSequence(t)
  PROVE  /\ IsSequence(s \o t) /\ Len(s \o t) = Len(s) + Len(t)
         /\ ToSet(s \o t) = ToSet(s) \cup ToSet(t)
         /\ \A i \in 1 .. Len(s) + Len(t) :
              (s \o t)[i] = IF i <= Len(s) THEN s[i] ELSE t[i - Len(s)]
<1> DEFINE S == ToSet(s) \cup ToSet(t)
           u == s \o t
<1>1. s \in Seq(S) /\ t \in Seq(S)
  BY DEF IsSequence
<1>2. /\ u \in Seq(S) /\ Len(u) = Len(s) + Len(t)
      /\ \A i \in 1 .. Len(s) + Len(t) : u[i] = IF i <= Len(s) THEN s[i] ELSE t[i - Len(s)]
  <2> HIDE DEF S
  <2> QED BY <1>1
<1>3. Len(s) \in Nat /\ Len(t) \in Nat
  BY SequenceFacts
<1> HIDE DEF u
<1>4. IsSequence(u) /\ DOMAIN u = 1 .. Len(u) /\ ToSet(u) \subseteq S
  BY <1>2, SequenceIn
<1>5. ASSUME NEW x \in ToSet(s)
      PROVE  x \in ToSet(u)
  <2>1. PICK i \in 1 .. Len(s) : s[i] = x
    BY SequenceFacts
  <2>2. i \in DOMAIN u /\ u[i] = x
    BY <1>2, <1>3, <1>4, <2>1
  <2> QED BY <2>2 DEF ToSet
<1>6. ASSUME NEW x \in ToSet(t)
      PROVE  x \in ToSet(u)
  <2>1. PICK i \in 1 .. Len(t) : t[i] = x
    BY SequenceFacts
  <2>2. i + Len(s) \in DOMAIN u /\ u[i + Len(s)] = x
    BY <1>2, <1>3, <1>4, <2>1
  <2> QED BY <2>2 DEF ToSet
<1> QED BY <1>2, <1>4, <1>5, <1>6 DEF u

(* The elements of a sequence of sequences.                                *)
LEMMA FlattenElements ==
  ASSUME NEW s, IsSequence(s), \A i \in DOMAIN s : IsSequence(s[i])
  PROVE  /\ IsSequence(FlattenSeq(s))
         /\ ToSet(FlattenSeq(s)) = UNION { ToSet(s[i]) : i \in DOMAIN s }
<1> DEFINE N == Len(s)
           S == UNION { ToSet(s[i]) : i \in 1 .. N }
           step(h, i) == IF i = 1 THEN s[i] ELSE h[i - 1] \o s[i]
           Is(h) == h = [i \in 1 .. N |-> step(h, i)]
<1>1. N \in Nat /\ DOMAIN s = 1 .. N
  BY SequenceFacts
<1>2. ASSUME N # 0, NEW h, Is(h)
      PROVE  IsSequence(h[N]) /\ ToSet(h[N]) = S
  <2> DEFINE T == { m \in 0 .. N - 1 :
                      /\ IsSequence(h[m + 1])
                      /\ ToSet(h[m + 1]) = UNION { ToSet(s[i]) : i \in 1 .. m + 1 } }
  <2>1. \A i \in 1 .. N : h[i] = step(h, i)
    BY <1>2
  <2>2. 0 \in T
    <3>1. h[1] = s[1] /\ IsSequence(s[1])
      <4>1. 1 \in 1 .. N
        BY <1>1, <1>2
      <4>2. h[1] = step(h, 1)
        BY <2>1, <4>1
      <4> QED BY <1>1, <4>1, <4>2
    <3>2. UNION { ToSet(s[i]) : i \in 1 .. 1 } = ToSet(s[1])
      OBVIOUS
    <3> QED BY <1>1, <1>2, <3>1, <3>2
  <2>3. ASSUME NEW m \in 0 .. (N - 1) - 1, m \in T
        PROVE  m + 1 \in T
    <3>1. h[m + 2] = h[m + 1] \o s[m + 2] /\ IsSequence(s[m + 2])
      <4>1. m + 2 \in 1 .. N /\ m + 2 # 1 /\ (m + 2) - 1 = m + 1
        BY <1>1
      <4>2. h[m + 2] = step(h, m + 2)
        BY <2>1, <4>1
      <4> QED BY <1>1, <4>1, <4>2
    <3>2. /\ IsSequence(h[m + 2])
          /\ ToSet(h[m + 2]) = ToSet(h[m + 1]) \cup ToSet(s[m + 2])
      BY <2>3, <3>1, SequenceConcat
    <3>3. UNION { ToSet(s[i]) : i \in 1 .. m + 2 }
            = (UNION { ToSet(s[i]) : i \in 1 .. m + 1 }) \cup ToSet(s[m + 2])
      <4>1. 1 .. m + 2 = (1 .. m + 1) \cup {m + 2}
        OBVIOUS
      <4> QED BY <4>1
    <3>4. (m + 1) + 1 = m + 2 /\ m + 1 \in 0 .. N - 1
      BY <1>1
    <3> QED BY <2>3, <3>2, <3>3, <3>4
  <2>4. N - 1 \in Nat /\ N - 1 \in 0 .. N - 1 /\ (N - 1) + 1 = N
    BY <1>1, <1>2
  <2>5. N - 1 \in T
    <3> HIDE DEF T
    <3> QED BY <2>2, <2>3, <2>4, InductionUpTo
  <2> QED BY <2>4, <2>5
<1>3. ASSUME N # 0
      PROVE  \E h : Is(h)
  <2> DEFINE X == Seq(S)
             g == [i \in 1 .. N |-> [x \in X |-> IF i = 1 THEN s[i] ELSE x \o s[i]]]
  <2>1. \A i \in 1 .. N : s[i] \in X
    <3> SUFFICES ASSUME NEW i \in 1 .. N
                 PROVE  s[i] \in Seq(S)
      OBVIOUS
    <3>1. s[i] \in Seq(ToSet(s[i])) /\ ToSet(s[i]) \subseteq S
      BY <1>1 DEF IsSequence
    <3> QED BY <3>1
  <2>2. \A i \in 1 .. N, x \in X : (IF i = 1 THEN s[i] ELSE x \o s[i]) \in X
    BY <2>1
  <2>3. <<>> \in X
    OBVIOUS
  <2>4. g \in [1 .. N -> [X -> X]]
    <3> HIDE DEF X
    <3> QED BY <2>2
  <2>5. PICK f \in [0 .. N -> X] : Solves(f, g, <<>>, N)
    <3> HIDE DEF g, X
    <3> QED BY <1>1, <2>3, <2>4, RecursionUpTo
  <2> DEFINE h == [i \in 1 .. N |-> f[i]]
  <2>6. \A i \in 1 .. N : f[i] = IF i = 1 THEN s[i] ELSE f[i - 1] \o s[i]
    <3> SUFFICES ASSUME NEW i \in 1 .. N
                 PROVE  f[i] = IF i = 1 THEN s[i] ELSE f[i - 1] \o s[i]
      OBVIOUS
    <3>1. i - 1 \in 0 .. N
      BY <1>1
    <3>2. f[i] = g[i][f[i - 1]] /\ f[i - 1] \in X
      <4> HIDE DEF g, X
      <4> QED BY <2>5, <3>1 DEF Solves
    <3> HIDE DEF X
    <3> QED BY <3>2
  <2>7. \A i \in 1 .. N : h[i] = step(h, i)
    BY <1>1, <2>6
  <2>8. Is(h)
    BY <2>7
  <2> QED BY <2>8, Zenon
<1>4. CASE N = 0
  <2>1. FlattenSeq(s) = s /\ s = <<>>
    BY <1>4, SequenceFacts DEF FlattenSeq
  <2> QED BY <2>1, EmptySequence
<1>5. CASE N # 0
  <2>1. FlattenSeq(s) = (CHOOSE h : Is(h))[N]
    BY <1>5 DEF FlattenSeq
  <2> HIDE DEF Is
  <2>2. Is(CHOOSE h : Is(h))
    BY <1>3, <1>5
  <2> QED BY <1>1, <1>2, <1>5, <2>1, <2>2
<1> QED BY <1>4, <1>5

(* A sequence of members of a set, and the join of such sequences.         *)
LEMMA SequenceInto ==
  ASSUME NEW s, IsSequence(s), NEW S, ToSet(s) \subseteq S
  PROVE  s \in Seq(S)
BY DEF IsSequence

LEMMA FlattenInto ==
  ASSUME NEW s, IsSequence(s), NEW S, \A i \in DOMAIN s : s[i] \in Seq(S)
  PROVE  FlattenSeq(s) \in Seq(S)
<1>1. \A i \in DOMAIN s : IsSequence(s[i]) /\ ToSet(s[i]) \subseteq S
  BY SequenceIn
<1>2. IsSequence(FlattenSeq(s)) /\ ToSet(FlattenSeq(s)) = UNION { ToSet(s[i]) : i \in DOMAIN s }
  BY <1>1, FlattenElements
<1>3. ToSet(FlattenSeq(s)) \subseteq S
  BY <1>1, <1>2
<1> QED BY <1>2, <1>3 DEF IsSequence
=============================================================================
