------------------------- MODULE ClientSide_proofs -------------------------
(***************************************************************************)
(* What programs in other languages rely on: the module that a TypeScript  *)
(* program loads (WasmLoader), the texts a native program reads and the    *)
(* rows that are exported to it (NativeReads), and the views that are      *)
(* planned, resolved and shown (HyleClient), for any number of callers,    *)
(* buffers, providers, rows and fields and any blueprints.                 *)
(***************************************************************************)
EXTENDS NativeReads, HyleClient, RowStore_proofs, SequenceLemmas

-----------------------------------------------------------------------------
(* How the promise, the function behind it and the module go together.     *)
LoaderInv ==
  /\ loadPromise = "null" <=> loader = "none"
  /\ loadPromise = "pending" =>
       loader \in {"fetching", "initialising", "initialised", "assigned"}
  /\ loadPromise \in {"resolved", "rejected"} => loader = "over"
  /\ loader \in {"initialised", "assigned"} => initialised
  /\ loader = "assigned" \/ loadPromise = "resolved" => wasm
  /\ wasm => initialised
  /\ loadPromise \in {"null", "pending", "resolved", "rejected"}
  /\ "ready" \in heard => loadPromise = "resolved"
  /\ "failed" \in heard => loadPromise = "rejected"
  /\ \A c \in Caller : caller[c] = "ready" => loadPromise = "resolved"

LEMMA LoaderInvariant == LoaderSpec => [](LoaderTypeOK /\ LoaderInv)
<1> USE DEF LoaderTypeOK, LoaderInv
<1>1. LoaderInit => LoaderTypeOK /\ LoaderInv
  BY DEF LoaderInit
<1>2. LoaderTypeOK /\ LoaderInv /\ [LoaderNext]_loaderVars
        => LoaderTypeOK' /\ LoaderInv'
  <2> SUFFICES ASSUME LoaderTypeOK, LoaderInv, [LoaderNext]_loaderVars
               PROVE  LoaderTypeOK' /\ LoaderInv'
    OBVIOUS
  <2>1. ASSUME NEW c \in Caller, Load(c)
        PROVE  LoaderTypeOK' /\ LoaderInv'
    BY <2>1 DEF Load, Start
  <2>2. ASSUME NEW c \in Caller, LoadThrows(c)
        PROVE  LoaderTypeOK' /\ LoaderInv'
    BY <2>2 DEF LoadThrows
  <2>3. ASSUME NEW c \in Caller, Resume(c)
        PROVE  LoaderTypeOK' /\ LoaderInv'
    BY <2>3 DEF Resume
  <2>4. CASE ModuleArrives
    BY <2>4 DEF ModuleArrives
  <2>5. CASE ModuleInitialised
    BY <2>5 DEF ModuleInitialised
  <2>6. CASE AssignWasm
    BY <2>6 DEF AssignWasm
  <2>7. CASE Resolve
    BY <2>7 DEF Resolve
  <2>8. CASE Reject
    BY <2>8 DEF Reject
  <2>9. CASE UNCHANGED loaderVars
    BY <2>9 DEF loaderVars
  <2> QED BY <2>1, <2>2, <2>3, <2>4, <2>5, <2>6, <2>7, <2>8, <2>9
          DEF LoaderNext, Settle
<1> QED BY <1>1, <1>2, PTL DEF LoaderSpec

(* A method that gets past getWasm() runs on an initialised module, and a  *)
(* caller whose load() resolved gets past it, for any number of callers.   *)
THEOREM LoaderReadyMeansUsable == LoaderSpec => []ReadyMeansUsable
<1>1. LoaderTypeOK /\ LoaderInv => ReadyMeansUsable
  BY DEF LoaderTypeOK, LoaderInv, ReadyMeansUsable, IsReady
<1> QED BY <1>1, LoaderInvariant, PTL

(* No two callers of load() are answered differently.                      *)
THEOREM LoaderAnswersAlike == LoaderSpec => []EveryCallerHearsTheSame
<1>1. LoaderTypeOK /\ LoaderInv => EveryCallerHearsTheSame
  BY DEF LoaderTypeOK, LoaderInv, EveryCallerHearsTheSame
<1> QED BY <1>1, LoaderInvariant, PTL

-----------------------------------------------------------------------------
(* A client that plans, fetches and shows loads its module as WasmLoader   *)
(* does: every step of it is a step of the loader or leaves it alone.      *)
THEOREM ClientImplementsLoader == ClientSpec => LoaderSpec
<1>1. ClientInit => LoaderInit
  BY DEF ClientInit
<1>2. [ClientNext]_programVars => [LoaderNext]_loaderVars
  <2>1. UNCHANGED programVars => UNCHANGED loaderVars
    BY DEF programVars
  <2>2. \A c, s : Shows(c, s) => UNCHANGED loaderVars
    BY DEF Shows
  <2>3. ASSUME NEW c, NEW ask, Plan(c, ask)
        PROVE  UNCHANGED loaderVars
    BY <2>2, <2>3, Zenon DEF Plan
  <2>4. ASSUME NEW c, NEW m, Fetch(c, m)
        PROVE  UNCHANGED loaderVars
    BY <2>2, <2>4, Zenon DEF Fetch
  <2>5. ASSUME NEW c, Show(c)
        PROVE  UNCHANGED loaderVars
    BY <2>2, <2>5, Zenon DEF Show
  <2>6. ASSUME NEW c, Leave(c)
        PROVE  UNCHANGED loaderVars
    BY <2>2, <2>6, Zenon DEF Leave
  <2>7. Replace => UNCHANGED loaderVars
    BY DEF Replace
  <2>8. ASSUME NEW c \in Caller, LoaderStep(Load(c) \/ LoadThrows(c) \/ Resume(c))
        PROVE  LoaderNext
    BY <2>8 DEF LoaderStep, LoaderNext
  <2>9. LoaderStep(Settle) => LoaderNext
    BY DEF LoaderStep, LoaderNext
  <2> QED BY <2>1, <2>3, <2>4, <2>5, <2>6, <2>7, <2>8, <2>9 DEF ClientNext
<1> QED BY <1>1, <1>2, PTL DEF ClientSpec, LoaderSpec

(* Hence what holds of the loader holds of programs that show views, which *)
(* may replace their blueprint and rows and plan before anything is loaded.*)
THEOREM ClientReadyMeansUsable == ClientSpec => []ReadyMeansUsable
BY ClientImplementsLoader, LoaderReadyMeansUsable, PTL

(* Nor are two callers that show views ever answered differently.         *)
THEOREM ClientAnswersAlike == ClientSpec => []EveryCallerHearsTheSame
BY ClientImplementsLoader, LoaderAnswersAlike, PTL

-----------------------------------------------------------------------------
(* The blocks an export holds while it is at row at.row: those of the rows *)
(* before and, in the middle of a row, its arrays and texts.               *)
OfThisRow(b) == b \in Arrays(at.row) \/ b \in Texts(at.row, b[3])

HeldWhere ==
  /\ call \in {"idle", "rows"} => held = {}
  /\ call = "row"    => \A b \in held : b[2] \in Nat /\ b[2] < at.row
  /\ call = "fields" => \A b \in held : b[2] \in Nat /\ (b[2] < at.row \/ OfThisRow(b))
  /\ call = "full"   => \A b \in held : b[2] \in Nat /\ b[2] < at.row

ExportInv ==
  /\ call \in {"idle", "rows", "row", "fields", "full", "returned", "crashed"}
  /\ at.row \in Nat \ {0} /\ at = [row |-> at.row, field |-> at.field]
  /\ HeldWhere
  /\ call = "full" => at.row = Len(result) + 1 /\ Len(result) \in Nat
  /\ call \in {"rows", "row", "fields", "full"} =>
       result # <<>> /\ received = <<>> /\ short = 0
  /\ call = "idle" => received = <<>> /\ short = 0
  /\ ExportFreesAll

(* What a failing allocation of row i leaves after hyle_rows_free.         *)
LEMMA NothingBefore ==
  ASSUME NEW blocks, NEW count \in Nat,
         \A b \in blocks : b[2] \in Nat /\ b[2] <= count
  PROVE  RowsFree(blocks, count) = {}
BY DEF RowsFree

LEMMA ExportStepKeeps ==
  ASSUME ExportInv, ExportStep
  PROVE  ExportInv'
<1> USE DEF ExportInv, HeldWhere, ExportFreesAll, OfThisRow
<1>1. CASE AllocRows
  BY <1>1 DEF AllocRows
<1>2. CASE AllocArrays
  <2>1. CASE call' = "fields"
    BY <1>2, <2>1 DEF AllocArrays, Fail, Arrays
  <2>2. CASE Fail(RowsFree(held, at.row - 1)) /\ UNCHANGED short
    <3>1. RowsFree(held, at.row - 1) = {}
      BY <1>2, NothingBefore DEF AllocArrays
    <3> QED BY <1>2, <2>2, <3>1 DEF AllocArrays, Fail
  <2> QED BY <1>2, <2>1, <2>2 DEF AllocArrays
<1>3. CASE CannotGrow
  <2>1. \A b \in RowsFree(held \ Arrays(at.row), at.row - 1) : b \in Texts(at.row, b[3])
    BY <1>3 DEF CannotGrow, RowsFree
  <2> QED BY <1>3, <2>1 DEF CannotGrow, Fail
<1>4. ASSUME NEW nulls \in SUBSET Texts(at.row, at.field), CopyField(nulls)
      PROVE  ExportInv'
  <2>1. \A b \in Texts(at.row, at.field) : b[2] = at.row /\ b[3] = at.field
    BY DEF Texts
  <2>2. call = "fields" /\ call' = "fields" /\ at'.row = at.row
    BY <1>4 DEF CopyField
  <2>3. at' = [row |-> at'.row, field |-> at'.field]
    BY <1>4 DEF CopyField
  <2>4. \A b \in held' : b[2] \in Nat /\ (b[2] < at.row \/ OfThisRow(b))
    BY <1>4, <2>1 DEF CopyField
  <2>5. HeldWhere'
    BY <2>2, <2>4
  <2> QED BY <1>4, <2>2, <2>3, <2>5 DEF CopyField
<1>5. ASSUME NEW nulls \in SUBSET {<<"id", at.row, 0>>}, CopyId(nulls)
      PROVE  ExportInv'
  <2>1. at' = [row |-> at.row + 1, field |-> 1] /\ at'.row = at.row + 1
    BY <1>5 DEF CopyId
  <2>2. \A b \in held : b[2] \in Nat /\ b[2] < at.row + 1
    BY <1>5 DEF CopyId, Arrays, Texts
  <2>3. \A b \in held' : b[2] \in Nat /\ b[2] < at'.row
    BY <1>5, <2>1, <2>2 DEF CopyId
  <2> QED BY <1>5, <2>1, <2>3 DEF CopyId
<1>6. CASE Receive
  <2>1. call = "full" /\ RowsFree(held, Len(result)) = {}
    BY <1>6, NothingBefore DEF Receive
  <2> QED BY <1>6, <2>1 DEF Receive
<1>7. CASE ExportEnd
  BY <1>7 DEF ExportEnd, First
<1> QED BY <1>1, <1>2, <1>3, <1>4, <1>5, <1>6, <1>7 DEF ExportStep

(* Whichever allocation of an export fails: all rows or none, and nothing  *)
(* is lost but the texts of a row whose arrays could not grow.  For rows   *)
(* and fields of any number and any first capacity.                        *)
THEOREM ExportFreesEverything == Spec => []ExportFreesAll
<1>1. Init => ExportInv
  BY DEF Init, ExportInit, First, ExportInv, HeldWhere, ExportFreesAll
<1>2. ExportInv /\ [Next]_vars => ExportInv'
  <2> SUFFICES ASSUME ExportInv, [Next]_vars
               PROVE  ExportInv'
    OBVIOUS
  <2>1. CASE UNCHANGED exportVars
    BY <2>1 DEF exportVars, ExportInv, HeldWhere, OfThisRow, ExportFreesAll
  <2>2. CASE ExportStep
    BY <2>2, ExportStepKeeps
  <2>3. ASSUME NEW rows, ExportStart(rows)
        PROVE  ExportInv'
    BY <2>3 DEF ExportStart, ExportInv, HeldWhere, OfThisRow, ExportFreesAll
  <2> QED BY <2>1, <2>2, <2>3 DEF Next, Export, vars
<1>3. ExportInv => ExportFreesAll
  BY DEF ExportInv
<1> QED BY <1>1, <1>2, <1>3, PTL DEF Spec

-----------------------------------------------------------------------------
(* Counting on, the buffer goes round, also when the counter wraps.        *)
LEMMA ModIs ==
  ASSUME NEW d \in Nat \ {0}, NEW k \in Nat, NEW s \in 0 .. d - 1
  PROVE  (d * k + s) % d = s
<1> DEFINE a == d * k + s
<1>1. a \in Nat
  OBVIOUS
<1>2. PICK q \in Nat, r \in 0 .. d - 1 : a = d * q + r /\ a % d = r
  <2>1. a \div d \in Nat /\ a % d \in 0 .. d - 1 /\ a = d * (a \div d) + (a % d)
    BY <1>1
  <2> DEFINE q == a \div d
             r == a % d
  <2>2. q \in Nat /\ r \in 0 .. d - 1 /\ a = d * q + r /\ a % d = r
    BY <2>1
  <2> HIDE DEF a, q, r
  <2> QED BY <2>2
<1>3. d * (q - k) = s - r
  BY <1>2
<1>4. q = k
  <2>1. CASE q - k >= 1
    <3>1. d * (q - k) >= d
      BY <2>1
    <3> QED BY <1>3, <3>1
  <2>2. CASE k - q >= 1
    <3>1. d * (k - q) >= d
      BY <2>2
    <3>2. d * (k - q) = r - s
      BY <1>2
    <3> QED BY <3>1, <3>2
  <2> QED BY <2>1, <2>2
<1> QED BY <1>2, <1>3, <1>4

LEMMA NextOfMod ==
  ASSUME NEW n \in Nat, NEW d \in Nat \ {0}
  PROVE  (n + 1) % d = IF n % d = d - 1 THEN 0 ELSE (n % d) + 1
<1>1. PICK q \in Nat, r \in 0 .. d - 1 : n = d * q + r /\ n % d = r
  <2>1. n \div d \in Nat /\ n % d \in 0 .. d - 1 /\ n = d * (n \div d) + (n % d)
    OBVIOUS
  <2> QED BY <2>1
<1>2. CASE r = d - 1
  <2>1. n + 1 = d * (q + 1) + 0 /\ q + 1 \in Nat /\ 0 \in 0 .. d - 1
    BY <1>1, <1>2
  <2>2. (n + 1) % d = 0
    BY <2>1, ModIs
  <2> QED BY <1>1, <1>2, <2>2
<1>3. CASE r # d - 1
  <2>1. n + 1 = d * q + (r + 1) /\ r + 1 \in 0 .. d - 1
    BY <1>1, <1>3
  <2>2. (n + 1) % d = r + 1
    BY <2>1, ModIs
  <2> QED BY <1>1, <1>3, <2>2
<1> QED BY <1>2, <1>3

LEMMA NextSlotAfter ==
  ASSUME NEW n \in 0 .. IdxModulus - 1
  PROVE  /\ (n + 1) % IdxModulus \in 0 .. IdxModulus - 1
         /\ ((n + 1) % IdxModulus) % Slots
              = IF n % Slots = Slots - 1 THEN 0 ELSE (n % Slots) + 1
<1> USE TextReadsAssumption
<1>1. (n + 1) % Slots = IF n % Slots = Slots - 1 THEN 0 ELSE (n % Slots) + 1
  BY NextOfMod, n \in Nat
<1>2. CASE n + 1 < IdxModulus
  BY <1>1, <1>2
<1>3. CASE n + 1 = IdxModulus
  <2>1. (n + 1) % IdxModulus = 0 /\ (n + 1) % Slots = 0 /\ 0 % Slots = 0
    BY <1>3
  <2> QED BY <1>1, <2>1
<1> QED BY <1>2, <1>3

(* The text that is age reads old is that many buffers behind the next.    *)
Behind(slot, age) == IF age < slot THEN slot - 1 - age ELSE slot - 1 - age + Slots

DecodedText == [slot : 0 .. Slots - 1, text : Value, age : 0 .. Slots - 1]

RingInv ==
  /\ ring_idx \in 0 .. IdxModulus - 1
  /\ ring \in [0 .. Slots - 1 -> Value \cup {NULL, Garbage}]
  /\ texts \subseteq DecodedText
  /\ \A t \in texts : t.slot = Behind(NextSlot, t.age)
  /\ DecodedTextsStay

LEMMA NextSlotType ==
  ASSUME RingInv
  PROVE  NextSlot \in 0 .. Slots - 1
BY TextReadsAssumption DEF RingInv, NextSlot

LEMMA DecodedKeeps ==
  ASSUME RingInv, NEW r \in RowId, NEW f, Decoded(r, f)
  PROVE  RingInv'
<1> USE TextReadsAssumption, RowStoreAssumption
<1> DEFINE n == NextSlot
           fits == tokens_hd[r][f] \in Decodable
           text == IF fits THEN tokens_hd[r][f] ELSE Garbage
           older == { [slot |-> t.slot, text |-> t.text, age |-> t.age + 1] :
                        t \in { u \in texts : u.age + 1 < Slots } }
           new == [slot |-> n, text |-> text, age |-> 0]
<1>1. n \in 0 .. Slots - 1 /\ text \in Value \cup {Garbage} /\ (fits => text \in Value)
  BY NextSlotType
<1>2. ring_idx' \in 0 .. IdxModulus - 1 /\ n' = IF n = Slots - 1 THEN 0 ELSE n + 1
  BY NextSlotAfter DEF RingInv, Decoded, NextSlot
<1>3. ring' = [ring EXCEPT ![n] = text] /\ (\A t \in texts' : t \in older \/ (t = new /\ fits))
  BY DEF Decoded
<1>4. \A t \in older : /\ t \in DecodedText
                       /\ t.slot = Behind(n', t.age)
                       /\ ring'[t.slot] = t.text
  <2> SUFFICES ASSUME NEW u \in texts, u.age + 1 < Slots
               PROVE  LET t == [slot |-> u.slot, text |-> u.text, age |-> u.age + 1]
                      IN /\ t \in DecodedText
                         /\ t.slot = Behind(n', t.age)
                         /\ ring'[t.slot] = t.text
    OBVIOUS
  <2>1. /\ u.slot \in 0 .. Slots - 1 /\ u.age \in 0 .. Slots - 1 /\ u.text \in Value
        /\ u.slot = Behind(n, u.age) /\ ring[u.slot] = u.text
    BY DEF RingInv, DecodedTextsStay, DecodedText
  <2> HIDE DEF n, text
  <2>2. u.slot # n
    BY <2>1, <1>1 DEF Behind
  <2>3. u.slot = Behind(n', u.age + 1)
    BY <2>1, <1>1, <1>2 DEF Behind
  <2>4. ring'[u.slot] = u.text
    BY <2>1, <2>2, <1>3 DEF RingInv
  <2> QED BY <2>1, <2>3, <2>4 DEF DecodedText
<1>5. fits => /\ new \in DecodedText
              /\ new.slot = Behind(n', new.age)
              /\ ring'[new.slot] = new.text
  <2>1. fits => text \in Value /\ ring'[n] = text
    BY <1>1, <1>3 DEF RingInv
  <2>2. n = Behind(n', 0)
    <3> HIDE DEF n
    <3> QED BY <1>1, <1>2 DEF Behind
  <2> HIDE DEF n, text, fits
  <2> QED BY <1>1, <2>1, <2>2 DEF DecodedText
<1>6. ring' \in [0 .. Slots - 1 -> Value \cup {NULL, Garbage}]
  BY <1>1, <1>3 DEF RingInv
<1>7. \A t \in texts' : /\ t \in DecodedText
                        /\ t.slot = Behind(n', t.age)
                        /\ ring'[t.slot] = t.text
  <2> HIDE DEF older, new, fits, text
  <2> QED BY <1>3, <1>4, <1>5
<1> QED BY <1>2, <1>6, <1>7 DEF RingInv, DecodedTextsStay, NextSlot

LEMMA ReadTextKeeps ==
  ASSUME RingInv, NEW r \in RowId, NEW f, ReadText(r, f)
  PROVE  RingInv'
<1>1. CASE UNCHANGED readVars
  BY <1>1 DEF readVars, RingInv, DecodedTextsStay, NextSlot
<1>2. CASE Decoded(r, f)
  BY <1>2, DecodedKeeps
<1> QED BY <1>1, <1>2 DEF ReadText

(* Every step of a program either decodes one text or none.                *)
LEMMA StepReads ==
  ASSUME ReadsNext
  PROVE  UNCHANGED readVars \/ \E r \in RowId : \E g : ReadText(r, g)
<1> USE TextReadsAssumption
<1>1. ASSUME NEW f \in Derived, NEW p \in Provider \cup {NULL}, DeriveRegister(f, p)
      PROVE  UNCHANGED readVars
  BY <1>1 DEF DeriveRegister
<1>2. ASSUME NEW r \in RowId, NEW f \in Field, Read(r, f)
      PROVE  ReadText(r, f)
  BY <1>2 DEF Read
<1>3. ASSUME NEW r \in RowId, NEW item \in Items, Write(RegistryPut(r, item))
      PROVE  UNCHANGED readVars
  BY <1>3 DEF Write
<1>4. ASSUME NEW r \in RowId, NEW f \in Searchable, NEW v \in TokenTexts,
             Write(RegistryPutTokens(r, f, v))
      PROVE  UNCHANGED readVars
  BY <1>4 DEF Write
<1>5. ASSUME NEW r \in RowId, Write(RegistryDel(r))
      PROVE  UNCHANGED readVars
  BY <1>5 DEF Write
<1>6. ASSUME NEW r \in RowId, NEW f \in Searchable \cup Derived, RebuildField(r, f)
      PROVE  UNCHANGED readVars \/ \E g : ReadText(r, g)
  <2>1. CASE f \in Derived /\ ProviderOf(f) # NULL /\ CallProvider(ProviderOf(f), r, f)
    BY <2>1 DEF CallProvider
  <2> QED BY <1>6, <2>1 DEF RebuildField
<1>7. RebuildStart \/ RebuildEnd => UNCHANGED readVars
  BY DEF RebuildStart, RebuildEnd, readVars
<1> QED BY <1>1, <1>2, <1>3, <1>4, <1>5, <1>6, <1>7 DEF ReadsNext

(* A decoded text stays for Slots - 1 further reads, for any number of     *)
(* buffers and any width of the counter that is a multiple of it.          *)
THEOREM DecodedTextsStayForAWhile == Spec => []DecodedTextsStay
<1>1. Init => RingInv
  BY TextReadsAssumption DEF Init, ReadsInit, RingInv, DecodedTextsStay
<1>2. RingInv /\ [Next]_vars => RingInv'
  <2> SUFFICES ASSUME RingInv, [Next]_vars
               PROVE  RingInv'
    OBVIOUS
  <2>1. CASE UNCHANGED textVars
    BY <2>1 DEF textVars, readVars, RingInv, DecodedTextsStay, NextSlot
  <2>2. CASE UNCHANGED readVars
    BY <2>2 DEF readVars, RingInv, DecodedTextsStay, NextSlot
  <2>3. CASE ReadsNext
    BY <2>2, <2>3, StepReads, ReadTextKeeps
  <2> QED BY <2>1, <2>2, <2>3 DEF Next, vars
<1>3. RingInv => DecodedTextsStay
  BY DEF RingInv
<1> QED BY <1>1, <1>2, <1>3, PTL DEF Spec

-----------------------------------------------------------------------------
Indexable == Searchable \cup Derived

(* The shape of what the index is built from.                              *)
TextTypes ==
  /\ RowStoreTypeOK
  /\ derive_registry \in Seq([key : Derived, fn : Provider \cup {NULL}])
  /\ rebuilding \in BOOLEAN
  /\ todo \subseteq row_hd \X Indexable
  /\ ~rebuilding => todo = {}

(* The registrations of a field in a registry, and the one that is called. *)
Registry == Seq([key : Derived, fn : Provider \cup {NULL}])

ProvidersIn(reg, f) == { i \in DOMAIN reg : reg[i].key = f /\ reg[i].fn # NULL }

FirstIn(reg, f) == CHOOSE i \in ProvidersIn(reg, f) :
                     \A j \in ProvidersIn(reg, f) : i <= j

LEMMA ProviderOfFirst ==
  /\ \A f : ProviderOf(f) = IF ProvidersIn(derive_registry, f) = {} THEN NULL
                            ELSE derive_registry[FirstIn(derive_registry, f)].fn
  /\ \A f : ProviderOf(f)' = IF ProvidersIn(derive_registry', f) = {} THEN NULL
                             ELSE derive_registry'[FirstIn(derive_registry', f)].fn
BY Zenon DEF ProviderOf, ProvidersIn, FirstIn

LEMMA FirstInType ==
  ASSUME NEW reg \in Registry, NEW f, ProvidersIn(reg, f) # {}
  PROVE  /\ FirstIn(reg, f) \in ProvidersIn(reg, f)
         /\ \A j \in ProvidersIn(reg, f) : FirstIn(reg, f) <= j
         /\ reg[FirstIn(reg, f)].fn \in Provider
<1>1. ProvidersIn(reg, f) \subseteq Nat
  BY DEF Registry, ProvidersIn
<1>2. \E i \in ProvidersIn(reg, f) : \A j \in ProvidersIn(reg, f) : i <= j
  <2> HIDE DEF ProvidersIn
  <2>1. ProvidersIn(reg, f) \in SUBSET Nat /\ ProvidersIn(reg, f) # {}
    BY <1>1
  <2> QED BY <2>1, FirstExists
<1>3. /\ FirstIn(reg, f) \in ProvidersIn(reg, f)
      /\ \A j \in ProvidersIn(reg, f) : FirstIn(reg, f) <= j
  BY <1>2 DEF FirstIn
<1>4. ASSUME NEW i \in ProvidersIn(reg, f)
      PROVE  reg[i].fn \in Provider
  <2>1. i \in DOMAIN reg /\ reg[i].fn # NULL
    BY DEF ProvidersIn
  <2> DEFINE T == [key : Derived, fn : Provider \cup {NULL}]
  <2>2. reg \in Seq(T)
    BY DEF Registry
  <2> HIDE DEF T
  <2>3. reg[i] \in T
    BY <2>1, <2>2
  <2> QED BY <2>1, <2>3 DEF T
<1> QED BY <1>3, <1>4

LEMMA ProviderOfType ==
  ASSUME TextTypes, NEW f, ProviderOf(f) # NULL
  PROVE  ProviderOf(f) \in Provider
BY ProviderOfFirst, FirstInType DEF TextTypes, Registry

(* A later registration comes behind those of the field.                   *)
LEMMA FirstStays ==
  ASSUME NEW reg \in Registry, NEW e \in [key : Derived, fn : Provider \cup {NULL}],
         NEW g, ProvidersIn(reg, g) # {}
  PROVE  /\ ProvidersIn(Append(reg, e), g) # {}
         /\ Append(reg, e)[FirstIn(Append(reg, e), g)] = reg[FirstIn(reg, g)]
<1> DEFINE n == Len(reg)
           new == Append(reg, e)
           i == FirstIn(reg, g)
           k == FirstIn(new, g)
<1>1. /\ n \in Nat /\ DOMAIN reg = 1 .. n /\ DOMAIN new = 1 .. n + 1
      /\ new \in Registry
      /\ \A j \in 1 .. n : new[j] = reg[j]
  BY DEF Registry
<1>2. i \in ProvidersIn(reg, g) /\ \A j \in ProvidersIn(reg, g) : i <= j
  BY FirstInType
<1>3. i \in 1 .. n /\ i \in ProvidersIn(new, g)
  BY <1>1, <1>2 DEF ProvidersIn
<1>4. k \in ProvidersIn(new, g) /\ \A j \in ProvidersIn(new, g) : k <= j
  BY <1>1, <1>3, FirstInType
<1>5. k <= i /\ k \in 1 .. n + 1
  BY <1>1, <1>3, <1>4 DEF ProvidersIn
<1> HIDE DEF n, new, i, k
<1>6. k \in 1 .. n
  BY <1>1, <1>3, <1>5
<1>7. k \in ProvidersIn(reg, g)
  BY <1>1, <1>4, <1>6 DEF ProvidersIn
<1>8. k = i
  BY <1>1, <1>2, <1>3, <1>5, <1>7
<1> QED BY <1>1, <1>3, <1>8 DEF new, i, k

(* A provider that is found is found as long as the process runs.          *)
LEMMA ProviderStays ==
  ASSUME TextTypes, NEW f \in Derived, NEW p \in Provider \cup {NULL},
         DeriveRegister(f, p), NEW g, ProviderOf(g) # NULL
  PROVE  ProviderOf(g)' = ProviderOf(g)
<1> DEFINE e == [key |-> f, fn |-> p]
<1>1. derive_registry' = Append(derive_registry, e)
  BY DEF DeriveRegister
<1>2. derive_registry \in Registry /\ e \in [key : Derived, fn : Provider \cup {NULL}]
  BY DEF TextTypes, Registry
<1>3. ProvidersIn(derive_registry, g) # {}
  BY ProviderOfFirst
<1> HIDE DEF e
<1>4. /\ ProvidersIn(derive_registry', g) # {}
      /\ derive_registry'[FirstIn(derive_registry', g)]
           = derive_registry[FirstIn(derive_registry, g)]
  BY <1>1, <1>2, <1>3, FirstStays
<1> QED BY <1>3, <1>4, ProviderOfFirst

USE DEF StoredRow, TokenRow

(* A text that is read is a value or nothing.                              *)
LEMMA ReadType ==
  ASSUME RowStoreTypeOK, NEW r \in RowId, NEW f \in Field
  PROVE  FieldGetStr(r, f) \in Value \cup {NULL}
BY RowStoreAssumption DEF RowStoreTypeOK, FieldGetStr

(* What one step of a rebuild puts into the index.                         *)
BuiltText(r, f) ==
  IF f \in Derived /\ tokens_hd[r][f] = NULL /\ ProviderOf(f) # NULL
  THEN FieldGetStr(r, ReadsField[ProviderOf(f)])
  ELSE IF tokens_hd[r][f] # NULL THEN tokens_hd[r][f]
  ELSE IF f \in Derived THEN NULL ELSE fields_hd[r][f]

(* It is the text of the moment.                                           *)
LEMMA BuiltIsNow ==
  ASSUME TextTypes, NEW r \in RowId, NEW f \in Indexable
  PROVE  /\ BuiltText(r, f) = TextOfNow(r, f)
         /\ BuiltText(r, f) \in Value \cup {NULL}
<1> USE RowStoreAssumption, TextReadsAssumption DEF Indexable
<1>1. BuiltText(r, f) = TextOfNow(r, f)
  BY DEF BuiltText, TextOfNow
<1>2. CASE f \in Derived /\ tokens_hd[r][f] = NULL /\ ProviderOf(f) # NULL
  <2>1. ReadsField[ProviderOf(f)] \in Field
    BY <1>2, ProviderOfType
  <2> QED BY <1>1, <1>2, <2>1, ReadType DEF BuiltText, TextTypes
<1>3. CASE ~(f \in Derived /\ tokens_hd[r][f] = NULL /\ ProviderOf(f) # NULL)
  <2>1. tokens_hd[r][f] \in Value \cup {NULL}
    BY DEF TextTypes, RowStoreTypeOK
  <2>2. f \notin Derived => fields_hd[r][f] \in Value \cup {NULL}
    BY DEF TextTypes, RowStoreTypeOK
  <2> QED BY <1>1, <1>3, <2>1, <2>2 DEF BuiltText
<1> QED BY <1>1, <1>2, <1>3

(* One field is indexed, and the rows change, if at all, in that row and   *)
(* by a provider.                                                          *)
LEMMA RebuildFieldDoes ==
  ASSUME TextTypes, NEW r \in RowId, NEW f \in Indexable, RebuildField(r, f)
  PROVE  /\ lemma_index' = lemma_index \cup Indexed(r, f, BuiltText(r, f))
         /\ \/ UNCHANGED <<fields_hd, tokens_hd, lemma_dirty, wrote>>
            \/ /\ \E item \in ItemSet :
                    /\ fields_hd' = [fields_hd EXCEPT ![r] = StoreItem(@, item)]
                    /\ \E lost : tokens_hd' = [tokens_hd EXCEPT ![r] = WriteTokens(@, item, lost)]
               /\ MarkDirty /\ wrote' = wrote \cup {r}
         /\ <<r, f>> \in todo /\ todo' = todo \ {<<r, f>>}
         /\ UNCHANGED <<row_hd, derived, derive_registry, rebuilding, unknown>>
<1> DEFINE p == ProviderOf(f)
<1>1. CASE f \in Derived /\ tokens_hd[r][f] = NULL /\ p # NULL
  <2>1. CallProvider(p, r, f) /\ p \in Provider
    BY <1>1, ProviderOfType DEF RebuildField
  <2>2. PutsItem[p] \in ItemSet
    BY <2>1, TextReadsAssumption
  <2> HIDE DEF p
  <2>3. \/ UNCHANGED <<fields_hd, tokens_hd, lemma_dirty, wrote>>
        \/ /\ \E item \in ItemSet :
                /\ fields_hd' = [fields_hd EXCEPT ![r] = StoreItem(@, item)]
                /\ \E lost : tokens_hd' = [tokens_hd EXCEPT ![r] = WriteTokens(@, item, lost)]
           /\ MarkDirty /\ wrote' = wrote \cup {r}
    BY <2>1, <2>2 DEF CallProvider
  <2>4. lemma_index' = lemma_index \cup Indexed(r, f, FieldGetStr(r, ReadsField[p]))
    BY <2>1 DEF CallProvider
  <2>5. lemma_index' = lemma_index \cup Indexed(r, f, BuiltText(r, f))
    BY <1>1, <2>4 DEF BuiltText, p
  <2> QED BY <2>3, <2>5 DEF RebuildField
<1>2. CASE ~(f \in Derived /\ tokens_hd[r][f] = NULL /\ p # NULL)
  BY <1>2 DEF RebuildField, BuiltText
<1> QED BY <1>1, <1>2

LEMMA TextTypesKept ==
  ASSUME TextTypes, ReadsNext
  PROVE  TextTypes'
<1> USE RowDataAssumption, RowStoreAssumption, TextReadsAssumption
<1>1. ASSUME NEW f \in Derived, NEW p \in Provider \cup {NULL}, DeriveRegister(f, p)
      PROVE  TextTypes'
  <2> DEFINE T == [key : Derived, fn : Provider \cup {NULL}]
             e == [key |-> f, fn |-> p]
  <2>1. e \in T /\ derive_registry \in Seq(T) /\ derive_registry' = Append(derive_registry, e)
    BY <1>1 DEF DeriveRegister, TextTypes
  <2> HIDE DEF T, e
  <2>2. derive_registry' \in Seq(T)
    BY <2>1
  <2>3. UNCHANGED <<rowVars, buildVars>>
    BY <1>1 DEF DeriveRegister
  <2> QED BY <2>2, <2>3 DEF T, TextTypes, RowStoreTypeOK, rowVars, buildVars
<1>2. CASE UNCHANGED <<rowVars, derive_registry, buildVars>>
  BY <1>2 DEF TextTypes, RowStoreTypeOK, rowVars, buildVars
<1>3. ASSUME NEW r \in RowId, NEW item \in Items, Write(RegistryPut(r, item))
      PROVE  TextTypes'
  <2>1. UNCHANGED <<derive_registry, buildVars>> /\ RegistryPut(r, item)
    BY <1>3 DEF Write
  <2>2. row_hd' = row_hd \cup {r}
    BY <2>1, RegistryPutDoes
  <2> QED BY <2>1, <2>2, RegistryPutType DEF TextTypes, buildVars
<1>4. ASSUME NEW r \in RowId, NEW f \in Searchable, NEW v \in TokenTexts,
             Write(RegistryPutTokens(r, f, v))
      PROVE  TextTypes'
  <2>1. [tokens_hd[r] EXCEPT ![f] = v] \in TokenRow
    BY DEF TextTypes, RowStoreTypeOK
  <2> QED BY <1>4, <2>1
          DEF Write, RegistryPutTokens, MarkDirty, HasIndex, TextTypes, RowStoreTypeOK, buildVars
<1>5. ASSUME NEW r \in RowId, Write(RegistryDel(r))
      PROVE  TextTypes'
  BY <1>5, RegistryDelType DEF Write, RegistryDel, TextTypes, buildVars
<1>6. CASE RebuildStart
  BY <1>6 DEF RebuildStart, TextTypes, RowStoreTypeOK, Indexable
<1>7. ASSUME NEW r \in RowId, NEW f \in Indexable, RebuildField(r, f)
      PROVE  TextTypes'
  <2>1. lemma_index' \subseteq RowId \X Indexable \X Value
    <3>1. Indexed(r, f, BuiltText(r, f)) \subseteq RowId \X Indexable \X Value
      BY BuiltIsNow DEF Indexed
    <3>2. lemma_index' = lemma_index \cup Indexed(r, f, BuiltText(r, f))
      BY <1>7, RebuildFieldDoes
    <3> QED BY <3>1, <3>2 DEF TextTypes, RowStoreTypeOK, Indexable
  <2>2. fields_hd' \in [RowId -> StoredRow] /\ tokens_hd' \in [RowId -> TokenRow]
    <3>1. CASE UNCHANGED <<fields_hd, tokens_hd>>
      BY <3>1 DEF TextTypes, RowStoreTypeOK
    <3>2. ASSUME NEW item \in ItemSet,
                 fields_hd' = [fields_hd EXCEPT ![r] = StoreItem(@, item)],
                 \E lost : tokens_hd' = [tokens_hd EXCEPT ![r] = WriteTokens(@, item, lost)]
          PROVE  fields_hd' \in [RowId -> StoredRow] /\ tokens_hd' \in [RowId -> TokenRow]
      <4>1. StoreItem(fields_hd[r], item) \in StoredRow
        BY StoreItemType DEF TextTypes, RowStoreTypeOK
      <4>2. PICK lost : tokens_hd' = [tokens_hd EXCEPT ![r] = WriteTokens(@, item, lost)]
        BY <3>2
      <4>3. WriteTokens(tokens_hd[r], item, lost) \in TokenRow
        BY WriteTokensType DEF TextTypes, RowStoreTypeOK
      <4> QED BY <3>2, <4>1, <4>2, <4>3 DEF TextTypes, RowStoreTypeOK
    <3> QED BY <1>7, <3>1, <3>2, RebuildFieldDoes
  <2>3. lemma_dirty' \in BOOLEAN
    BY <1>7, RebuildFieldDoes DEF TextTypes, RowStoreTypeOK, MarkDirty, HasIndex
  <2> QED BY <1>7, <2>1, <2>2, <2>3, RebuildFieldDoes
          DEF TextTypes, RowStoreTypeOK, Indexable
<1>8. CASE RebuildEnd
  BY <1>8 DEF RebuildEnd, TextTypes, RowStoreTypeOK
<1> QED BY <1>1, <1>2, <1>3, <1>4, <1>5, <1>6, <1>7, <1>8 DEF ReadsNext, Read, Indexable, Write

-----------------------------------------------------------------------------
(* The texts the index should have for a field, in the middle of a rebuild *)
(* and after it.                                                           *)
WantedTexts(r, f) == IF r \in row_hd /\ <<r, f>> \notin todo
                THEN { TextOfNow(r, f) } \ {NULL, Empty} ELSE {}

Known(f) == f \in Derived => ProviderOf(f) # NULL

(* The index is right, as far as it is built, for all rows but those a     *)
(* provider wrote to and all fields that had a provider when it was begun. *)
IndexInv ==
  rebuilding \/ (HasIndex /\ ~lemma_dirty) =>
    /\ \A f \in Indexable \ unknown : Known(f)
    /\ \A r \in RowId \ wrote, f \in Indexable \ unknown : IndexedTexts(r, f) = WantedTexts(r, f)

LEMMA DirtyIndex ==
  ASSUME MarkDirty, ~rebuilding, UNCHANGED rebuilding
  PROVE  IndexInv'
BY DEF MarkDirty, IndexInv, HasIndex

(* One field: its text is added, the others stay, and so do the texts of   *)
(* the other rows.                                                         *)
LEMMA RebuildFieldKeeps ==
  ASSUME TextTypes, IndexInv, rebuilding,
         NEW r \in RowId, NEW f \in Indexable, RebuildField(r, f)
  PROVE  IndexInv'
<1> USE RowDataAssumption
<1>1. /\ lemma_index' = lemma_index \cup Indexed(r, f, BuiltText(r, f))
      /\ wrote \subseteq wrote'
      /\ \A q \in RowId \ wrote' : fields_hd'[q] = fields_hd[q] /\ tokens_hd'[q] = tokens_hd[q]
      /\ <<r, f>> \in todo /\ todo' = todo \ {<<r, f>>}
      /\ UNCHANGED <<row_hd, derive_registry, rebuilding, unknown>>
  BY RebuildFieldDoes DEF TextTypes, RowStoreTypeOK
<1>2. \A g : ProviderOf(g)' = ProviderOf(g)
  BY <1>1, ProviderOfFirst
<1>3. \A q \in RowId \ wrote', g \in Indexable : TextOfNow(q, g)' = TextOfNow(q, g)
  BY <1>1, <1>2, Zenon DEF TextOfNow, FieldGetStr
<1>4. \A g \in Indexable \ unknown' : Known(g)'
  BY <1>1, <1>2 DEF IndexInv, Known
<1>5. ASSUME NEW q \in RowId \ wrote', NEW g \in Indexable \ unknown', <<q, g>> # <<r, f>>
      PROVE  IndexedTexts(q, g)' = WantedTexts(q, g)'
  <2>1. \A v : <<q, g, v>> \notin Indexed(r, f, BuiltText(r, f))
    BY <1>5 DEF Indexed
  <2>2. IndexedTexts(q, g)' = IndexedTexts(q, g)
    BY <1>1, <2>1 DEF IndexedTexts
  <2>3. WantedTexts(q, g)' = WantedTexts(q, g)
    BY <1>1, <1>3, <1>5 DEF WantedTexts
  <2>4. IndexedTexts(q, g) = WantedTexts(q, g)
    BY <1>1 DEF IndexInv
  <2> QED BY <2>2, <2>3, <2>4
<1>6. ASSUME r \in RowId \ wrote', f \in Indexable \ unknown'
      PROVE  IndexedTexts(r, f)' = WantedTexts(r, f)'
  <2>1. r \in row_hd /\ WantedTexts(r, f)' = { TextOfNow(r, f) } \ {NULL, Empty}
    BY <1>1, <1>3, <1>6 DEF WantedTexts, TextTypes
  <2>2. IndexedTexts(r, f) = {}
    BY <1>1, <1>6 DEF IndexInv, WantedTexts
  <2>3. IndexedTexts(r, f)' = { v \in Value : <<r, f, v>> \in Indexed(r, f, BuiltText(r, f)) }
    BY <1>1, <2>2 DEF IndexedTexts
  <2>4. TextOfNow(r, f) = BuiltText(r, f) /\ BuiltText(r, f) \in Value \cup {NULL}
    BY BuiltIsNow
  <2>5. { v \in Value : <<r, f, v>> \in Indexed(r, f, BuiltText(r, f)) }
          = { BuiltText(r, f) } \ {NULL, Empty}
    BY <2>4 DEF Indexed
  <2> QED BY <2>1, <2>3, <2>4, <2>5
<1> QED BY <1>4, <1>5, <1>6 DEF IndexInv

LEMMA IndexInvKept ==
  ASSUME TextTypes, IndexInv, ReadsNext
  PROVE  IndexInv'
<1> USE RowStoreAssumption
<1>1. ASSUME NEW f \in Derived, NEW p \in Provider \cup {NULL}, DeriveRegister(f, p)
      PROVE  IndexInv'
  <2>1. \A g : ProviderOf(g) # NULL => ProviderOf(g)' = ProviderOf(g)
    BY <1>1, ProviderStays
  <2>2. UNCHANGED <<rowVars, buildVars>>
    BY <1>1 DEF DeriveRegister
  <2>3. \A g : Known(g) => Known(g)'
    BY <2>1 DEF Known
  <2>4. \A q, g : Known(g) => TextOfNow(q, g)' = TextOfNow(q, g)
    <3> SUFFICES ASSUME NEW q, NEW g, Known(g)
                 PROVE  TextOfNow(q, g)' = TextOfNow(q, g)
      OBVIOUS
    <3>1. CASE g \in Derived
      <4>1. ProviderOf(g)' = ProviderOf(g)
        BY <2>1, <3>1 DEF Known
      <4> QED BY <2>2, <4>1, Zenon DEF TextOfNow, FieldGetStr, rowVars
    <3>2. CASE g \notin Derived
      BY <2>2, <3>2, Zenon DEF TextOfNow, FieldGetStr, rowVars
    <3> QED BY <3>1, <3>2
  <2>5. \A q, g : Known(g) => WantedTexts(q, g)' = WantedTexts(q, g)
    BY <2>2, <2>4 DEF WantedTexts, rowVars, buildVars
  <2>6. \A q, g : IndexedTexts(q, g)' = IndexedTexts(q, g)
    BY <2>2 DEF IndexedTexts, rowVars
  <2> QED BY <2>2, <2>3, <2>5, <2>6 DEF IndexInv, HasIndex, rowVars, buildVars
<1>2. CASE UNCHANGED <<rowVars, derive_registry, buildVars>>
  <2>1. \A g : ProviderOf(g)' = ProviderOf(g)
    BY <1>2, ProviderOfFirst
  <2>2. \A q, g : TextOfNow(q, g)' = TextOfNow(q, g)
    BY <1>2, <2>1, Zenon DEF TextOfNow, FieldGetStr, rowVars
  <2>3. \A q, g : /\ WantedTexts(q, g)' = WantedTexts(q, g) /\ Known(g)' = Known(g)
                  /\ IndexedTexts(q, g)' = IndexedTexts(q, g)
    BY <1>2, <2>1, <2>2 DEF WantedTexts, Known, IndexedTexts, rowVars, buildVars
  <2> QED BY <1>2, <2>3 DEF IndexInv, HasIndex, rowVars, buildVars
<1>3. ASSUME NEW r \in RowId, NEW item \in Items, Write(RegistryPut(r, item))
      PROVE  IndexInv'
  <2>1. MarkDirty /\ UNCHANGED <<lemma_index, buildVars>>
    BY <1>3, RegistryPutDoes DEF Write
  <2> QED BY <1>3, <2>1, DirtyIndex DEF Write, buildVars
<1>4. ASSUME NEW r \in RowId, NEW f \in Searchable, NEW v \in TokenTexts,
             Write(RegistryPutTokens(r, f, v))
      PROVE  IndexInv'
  BY <1>4, DirtyIndex DEF Write, RegistryPutTokens, buildVars
<1>5. ASSUME NEW r \in RowId, Write(RegistryDel(r))
      PROVE  IndexInv'
  BY <1>5, DirtyIndex DEF Write, RegistryDel, buildVars
<1>6. CASE RebuildStart
  <2>1. \A g : ProviderOf(g)' = ProviderOf(g)
    BY <1>6, ProviderOfFirst DEF RebuildStart
  <2>2. \A f \in Indexable \ unknown' : Known(f)'
    BY <1>6, <2>1 DEF RebuildStart, Known
  <2>3. \A r \in RowId, f \in Indexable : IndexedTexts(r, f)' = {} /\ WantedTexts(r, f)' = {}
    BY <1>6 DEF RebuildStart, IndexedTexts, WantedTexts, Indexable
  <2> QED BY <2>2, <2>3 DEF IndexInv
<1>7. ASSUME NEW r \in RowId, NEW f \in Indexable, RebuildField(r, f)
      PROVE  IndexInv'
  <2>1. rebuilding
    BY <1>7 DEF RebuildField, TextTypes
  <2> QED BY <1>7, <2>1, RebuildFieldKeeps
<1>8. CASE RebuildEnd
  <2>1. \A g : ProviderOf(g)' = ProviderOf(g)
    BY <1>8, ProviderOfFirst DEF RebuildEnd
  <2>2. \A q, g : TextOfNow(q, g)' = TextOfNow(q, g)
    BY <1>8, <2>1, Zenon DEF TextOfNow, FieldGetStr, RebuildEnd
  <2>3. \A q, g : /\ WantedTexts(q, g)' = WantedTexts(q, g) /\ Known(g)' = Known(g)
                  /\ IndexedTexts(q, g)' = IndexedTexts(q, g)
    BY <1>8, <2>1, <2>2 DEF WantedTexts, Known, IndexedTexts, RebuildEnd
  <2> QED BY <1>8, <2>3 DEF IndexInv, RebuildEnd
<1> QED BY <1>1, <1>2, <1>3, <1>4, <1>5, <1>6, <1>7, <1>8 DEF ReadsNext, Read, Indexable, Write

(* An index that is not dirty shows the texts of now, for any schema, any  *)
(* providers and any items they put, but for the rows providers wrote to   *)
(* while it was built and the fields without a provider at that time.      *)
THEOREM IndexMissesOnlyThat == Spec => []IndexMissesOnlyCallbackWrites
<1>1. Init => TextTypes /\ IndexInv
  <2> SUFFICES ASSUME Init
               PROVE  TextTypes /\ IndexInv
    OBVIOUS
  <2>1. RowStoreTypeOK
    BY RowStoreInitType DEF Init, ReadsInit
  <2>2. derive_registry \in Seq([key : Derived, fn : Provider \cup {NULL}])
    BY DEF Init, ReadsInit
  <2> QED BY <2>1, <2>2 DEF Init, ReadsInit, RowStoreInit, TextTypes, IndexInv
<1>2. TextTypes /\ IndexInv /\ [Next]_vars => TextTypes' /\ IndexInv'
  <2> SUFFICES ASSUME TextTypes, IndexInv, [Next]_vars
               PROVE  TextTypes' /\ IndexInv'
    OBVIOUS
  <2>1. CASE ReadsNext
    BY <2>1, TextTypesKept, IndexInvKept
  <2>2. CASE UNCHANGED textVars
    <3>1. \A g : ProviderOf(g)' = ProviderOf(g)
      BY <2>2, ProviderOfFirst DEF textVars
    <3>2. \A q, g : TextOfNow(q, g)' = TextOfNow(q, g)
      BY <2>2, <3>1, Zenon DEF TextOfNow, FieldGetStr, textVars, rowVars
    <3>3. \A q, g : /\ WantedTexts(q, g)' = WantedTexts(q, g) /\ Known(g)' = Known(g)
                    /\ IndexedTexts(q, g)' = IndexedTexts(q, g)
      BY <2>2, <3>1, <3>2 DEF WantedTexts, Known, IndexedTexts, textVars, rowVars, buildVars
    <3> QED BY <2>2, <3>3 DEF IndexInv, TextTypes, RowStoreTypeOK, HasIndex,
                              textVars, rowVars, buildVars
  <2> QED BY <2>1, <2>2 DEF Next, vars
<1>3. TextTypes /\ IndexInv => IndexMissesOnlyCallbackWrites
  <2> SUFFICES ASSUME TextTypes, IndexInv, HasIndex, ~lemma_dirty, ~rebuilding,
                      NEW r \in RowId \ wrote, NEW f \in Indexable \ unknown
               PROVE  IndexedTexts(r, f)
                        = IF r \in row_hd THEN { TextOfNow(r, f) } \ {NULL, Empty} ELSE {}
    BY DEF IndexMissesOnlyCallbackWrites, Indexable
  <2> QED BY DEF IndexInv, WantedTexts, TextTypes
<1> QED BY <1>1, <1>2, <1>3, PTL DEF Spec

-----------------------------------------------------------------------------
(* The levels of the recursions over types: of references, texts and       *)
(* leaves.                                                                 *)
Collects(c, b) ==
  /\ CollectReferences(b) = c[MaxNesting]
  /\ \A type \in FieldTypes, need \in BOOLEAN :
       /\ c[0][type][need] = Together({})
       /\ \A n \in 1 .. MaxNesting : c[n][type][need] = ReferencesOf(b, c[n - 1], type, need)

ShowsBy(c, outcome) ==
  /\ ShowValue(outcome) = c[MaxNesting]
  /\ \A type \in FieldTypes, value \in FieldValues :
       /\ c[0][type][value] = <<>>
       /\ \A n \in 1 .. MaxNesting :
            c[n][type][value] = ShowInside(outcome, c[n - 1], type, value)

LeavesBy(c) ==
  /\ Leaves = c[MaxNesting]
  /\ \A type \in FieldTypes, value \in FieldValues :
       /\ c[0][type][value] = {}
       /\ \A n \in 1 .. MaxNesting : c[n][type][value] = LeavesInside(c[n - 1], type, value)

LEMMA InsideTypes ==
  ASSUME NEW type \in FieldTypes, NEW need \in BOOLEAN, NEW inner \in Inside(type, need)
  PROVE  inner.type \in FieldTypes /\ inner.need \in BOOLEAN
<1>1. CASE type.kind = "shape"
  <2>1. PICK i \in DOMAIN type.fields : inner = [type |-> type.fields[i].type, need |-> need]
    BY <1>1 DEF Inside
  <2>2. [type |-> type.fields[i].type, need |-> TRUE] \in Inside(type, TRUE)
    BY <1>1 DEF Inside
  <2> QED BY <2>1, <2>2, NestingAssumption
<1>2. CASE type.kind = "array"
  <2>1. Inside(type, need) = {[type |-> type.item, need |-> TRUE]}
    BY <1>2 DEF Inside
  <2>2. Inside(type, TRUE) = {[type |-> type.item, need |-> TRUE]}
    BY <1>2 DEF Inside
  <2>3. inner = [type |-> type.item, need |-> TRUE] /\ inner \in Inside(type, TRUE)
    BY <2>1, <2>2
  <2> QED BY <2>3, NestingAssumption
<1> QED BY <1>1, <1>2 DEF Inside

LEMMA ItemTypes ==
  ASSUME NEW type \in FieldTypes
  PROVE  /\ type.kind = "array" => type.item \in FieldTypes
         /\ type.kind = "shape" =>
              /\ IsSequence(type.fields)
              /\ \A i \in DOMAIN type.fields : type.fields[i].type \in FieldTypes
<1>1. CASE type.kind = "array"
  <2>1. [type |-> type.item, need |-> TRUE] \in Inside(type, TRUE)
    BY <1>1 DEF Inside
  <2> QED BY <1>1, <2>1, NestingAssumption
<1>2. CASE type.kind = "shape"
  <2>1. \A i \in DOMAIN type.fields :
          [type |-> type.fields[i].type, need |-> TRUE] \in Inside(type, TRUE)
    BY <1>2 DEF Inside
  <2>2. IsSequence(type.fields)
    BY <1>2, NestingAssumption DEF IsSequence, ToSet, Range
  <2> QED BY <1>2, <2>1, <2>2, NestingAssumption
<1> QED BY <1>1, <1>2

LEMMA CollectLevels ==
  ASSUME NEW b
  PROVE  \E c : Collects(c, b)
<1> DEFINE N == MaxNesting
           E == { type.entity : type \in FieldTypes }
           Z == [lookups : SUBSET E, inlines : SUBSET E, unknown : BOOLEAN]
           X == [FieldTypes -> [BOOLEAN -> Z]]
           z == [type \in FieldTypes |-> [need \in BOOLEAN |-> Together({})]]
           step(x) == [type \in FieldTypes |-> [need \in BOOLEAN |->
                        ReferencesOf(b, x, type, need)]]
           s == [x \in X |-> step(x)]
           Is(h) == h = [n \in 0 .. N |->
             [type \in FieldTypes |-> [need \in BOOLEAN |->
                IF n = 0 THEN Together({}) ELSE ReferencesOf(b, h[n - 1], type, need)]]]
           c == CHOOSE h : Is(h)
<1>1. N \in Nat
  BY NestingAssumption
<1>2. \A loads \in SUBSET Z : Together(loads) \in Z
  BY DEF Together, Loads
<1>3. z \in X
  <2>1. {} \in SUBSET Z
    OBVIOUS
  <2> HIDE DEF Z
  <2>2. Together({}) \in Z
    BY <1>2, <2>1
  <2> QED BY <2>2
<1>4. ASSUME NEW x \in X
      PROVE  step(x) \in X
  <2> SUFFICES ASSUME NEW type \in FieldTypes, NEW need \in BOOLEAN
               PROVE  ReferencesOf(b, x, type, need) \in Z
    <3> HIDE DEF Z
    <3> QED OBVIOUS
  <2>1. CASE type.kind # "reference"
    <3>1. { x[inner.type][inner.need] : inner \in Inside(type, need) } \in SUBSET Z
      <4> HIDE DEF Z
      <4> QED BY InsideTypes
    <3> HIDE DEF Z, X
    <3> QED BY <2>1, <3>1, <1>2 DEF ReferencesOf
  <2>2. CASE type.kind = "reference"
    <3>1. type.entity \in E
      OBVIOUS
    <3> HIDE DEF E, X
    <3> QED BY <2>2, <3>1 DEF ReferencesOf, Loads
  <2> QED BY <2>1, <2>2
<1>5. s \in [X -> X]
  <2> HIDE DEF X, step
  <2> QED BY <1>4
<1>6. PICK f \in [0 .. N -> X] : Iterates(f, s, z, N)
  <2> HIDE DEF s, X, z
  <2> QED BY <1>1, <1>3, <1>5, IterationUpTo
<1>7. Is(f)
  <2> SUFFICES ASSUME NEW n \in 0 .. N
               PROVE  f[n] = [type \in FieldTypes |-> [need \in BOOLEAN |->
                        IF n = 0 THEN Together({}) ELSE ReferencesOf(b, f[n - 1], type, need)]]
    <3> HIDE DEF X
    <3> QED OBVIOUS
  <2>1. CASE n = 0
    <3>1. f[n] = z
      <4> HIDE DEF z, s, X
      <4> QED BY <1>6, <2>1 DEF Iterates
    <3> HIDE DEF s, X, step
    <3> QED BY <2>1, <3>1
  <2>2. CASE n # 0
    <3> HIDE DEF X, step, z
    <3>1. n \in 1 .. N /\ f[n - 1] \in X
      BY <1>1, <2>2
    <3>2. f[n] = s[f[n - 1]]
      BY <1>6, <3>1 DEF Iterates
    <3>3. f[n] = step(f[n - 1])
      BY <3>1, <3>2
    <3> QED BY <2>2, <3>3 DEF step
  <2> QED BY <2>1, <2>2
<1>8. Is(c)
  <2> HIDE DEF Is, s, X
  <2> QED BY <1>7
<1>9. CollectReferences(b) = c[MaxNesting]
  BY DEF CollectReferences
<1>10. Collects(c, b)
  <2> HIDE DEF c
  <2>1. 0 \in 0 .. N /\ \A n \in 1 .. N : n \in 0 .. N /\ n # 0
    BY <1>1
  <2>2. \A n \in 0 .. N : c[n] = [type \in FieldTypes |-> [need \in BOOLEAN |->
            IF n = 0 THEN Together({}) ELSE ReferencesOf(b, c[n - 1], type, need)]]
    <3> HIDE DEF X, s, step, z
    <3> QED BY <1>8
  <2>3. ASSUME NEW n \in 0 .. N, NEW type \in FieldTypes, NEW need \in BOOLEAN
        PROVE  c[n][type][need] =
                 IF n = 0 THEN Together({}) ELSE ReferencesOf(b, c[n - 1], type, need)
    <3> HIDE DEF Is
    <3>1. c[n] = [t \in FieldTypes |-> [a \in BOOLEAN |->
                   IF n = 0 THEN Together({}) ELSE ReferencesOf(b, c[n - 1], t, a)]]
      BY <2>2
    <3> QED BY <3>1
  <2> HIDE DEF Is
  <2> QED BY <1>9, <2>1, <2>3 DEF Collects
<1> HIDE DEF c
<1> QED BY <1>10

(* Values have parts that are values, and texts.                           *)
LEMMA PartsOfValues ==
  ASSUME NEW value \in FieldValues
  PROVE  /\ IsSequence(RawTexts(value))
         /\ value.kind = "array" =>
              /\ IsSequence(value.items)
              /\ \A i \in DOMAIN value.items : value.items[i] \in FieldValues
         /\ value.kind = "map" => \A name : Entry(value, name) \in FieldValues
<1>1. IsSequence(RawTexts(value))
  BY NestingAssumption DEF IsSequence, ToSet, Range
<1>2. value.kind = "array" =>
        IsSequence(value.items) /\ \A i \in DOMAIN value.items : value.items[i] \in FieldValues
  BY NestingAssumption DEF IsSequence, ToSet, Range
<1>3. ASSUME value.kind = "map", NEW name
      PROVE  Entry(value, name) \in FieldValues
  BY <1>3, NestingAssumption DEF Entry
<1> QED BY <1>1, <1>2, <1>3

NamesOf(type) == { type.fields[i].name : i \in DOMAIN type.fields }
AllNames == UNION { NamesOf(type) : type \in FieldTypes }

LEMMA NameAmongAll ==
  ASSUME NEW type \in FieldTypes, NEW i \in DOMAIN type.fields
  PROVE  type.fields[i].name \in AllNames
<1>1. type.fields[i].name \in NamesOf(type)
  BY DEF NamesOf
<1> QED BY <1>1 DEF AllNames

(* The lookups of an outcome are rows, by id.                              *)
OutcomeValues(outcome) ==
  \A m \in DOMAIN outcome.lookups : \A k \in DOMAIN outcome.lookups[m] :
    \A f \in DOMAIN outcome.lookups[m][k] : outcome.lookups[m][k][f] \in FieldValues

LEMMA ReferenceTexts ==
  ASSUME NEW outcome, OutcomeValues(outcome), NEW type, NEW value \in FieldValues
  PROVE  \E v \in FieldValues : ShowReference(outcome, type, value) = RawTexts(v)
<1> DEFINE lookup == Get(outcome.lookups, type.entity, <<>>)
           found  == LookupKeys(value) \cap DOMAIN lookup
           key == CHOOSE k \in found : TRUE
           row == lookup[key]
<1>1. ShowReference(outcome, type, value) =
        IF found # {} /\ type.display_field \in DOMAIN row
        THEN RawTexts(row[type.display_field]) ELSE RawTexts(value)
  BY DEF ShowReference
<1>2. ASSUME found # {}, type.display_field \in DOMAIN row
      PROVE  row[type.display_field] \in FieldValues
  <2>1. key \in DOMAIN lookup
    BY <1>2
  <2>2. CASE type.entity \notin DOMAIN outcome.lookups
    <3>1. DOMAIN lookup = {}
      BY <2>2, EmptySequence DEF Get
    <3> QED BY <2>1, <3>1
  <2>3. CASE type.entity \in DOMAIN outcome.lookups
    <3>1. lookup = outcome.lookups[type.entity]
      BY <2>3 DEF Get
    <3> HIDE DEF key
    <3> QED BY <1>2, <2>1, <2>3, <3>1 DEF OutcomeValues
  <2> QED BY <2>2, <2>3
<1> HIDE DEF row
<1> QED BY <1>1, <1>2

LEMMA ShowLevels ==
  ASSUME NEW outcome, OutcomeValues(outcome)
  PROVE  \E c : ShowsBy(c, outcome)
<1> DEFINE N == MaxNesting
           R == UNION { ToSet(RawTexts(value)) : value \in FieldValues }
           T == R \cup AllNames
           Z == Seq(T)
           X == [FieldTypes -> [FieldValues -> Z]]
           z == [type \in FieldTypes |-> [value \in FieldValues |-> <<>>]]
           step(x) == [type \in FieldTypes |-> [value \in FieldValues |->
                        ShowInside(outcome, x, type, value)]]
           s == [x \in X |-> step(x)]
           Is(h) == h = [n \in 0 .. N |->
             [type \in FieldTypes |-> [value \in FieldValues |->
                IF n = 0 THEN <<>> ELSE ShowInside(outcome, h[n - 1], type, value)]]]
           c == CHOOSE h : Is(h)
<1>1. N \in Nat
  BY NestingAssumption
<1>2. \A value \in FieldValues : RawTexts(value) \in Z
  <2> SUFFICES ASSUME NEW value \in FieldValues
               PROVE  RawTexts(value) \in Z
    OBVIOUS
  <2>1. ToSet(RawTexts(value)) \subseteq T
    OBVIOUS
  <2> HIDE DEF T
  <2> QED BY <2>1, PartsOfValues, SequenceInto
<1>3. z \in X
  <2>1. <<>> \in Z
    <3> HIDE DEF T
    <3> QED OBVIOUS
  <2> HIDE DEF Z
  <2> QED BY <2>1
<1>4. ASSUME NEW x \in X
      PROVE  step(x) \in X
  <2> SUFFICES ASSUME NEW type \in FieldTypes, NEW value \in FieldValues
               PROVE  ShowInside(outcome, x, type, value) \in Z
    <3> HIDE DEF Z
    <3> QED OBVIOUS
  <2>0. \A t \in FieldTypes, v \in FieldValues : x[t][v] \in Z
    <3> HIDE DEF Z
    <3> QED OBVIOUS
  <2>1. CASE type.kind = "reference"
    <3>1. ShowReference(outcome, type, value) \in Z
      <4> HIDE DEF Z
      <4> QED BY <1>2, ReferenceTexts
    <3> HIDE DEF Z, X
    <3> QED BY <2>1, <3>1 DEF ShowInside
  <2>2. CASE type.kind = "array" /\ value.kind = "array"
    <3> DEFINE u == [i \in DOMAIN value.items |-> x[type.item][value.items[i]]]
    <3>1. ShowInside(outcome, x, type, value) = FlattenSeq(u)
      BY <2>2 DEF ShowInside
    <3>2. IsSequence(value.items) /\ \A i \in DOMAIN u : u[i] \in Z
      <4> HIDE DEF Z
      <4> QED BY <2>2, <2>0, ItemTypes, PartsOfValues
    <3>3. DOMAIN u = DOMAIN value.items /\ u = [i \in DOMAIN u |-> u[i]]
      OBVIOUS
    <3> HIDE DEF u, T
    <3> QED BY <3>1, <3>2, <3>3, FlattenInto, SequenceMap
  <2>3. CASE type.kind = "shape" /\ value.kind = "map"
    <3> DEFINE sub(i) == Entry(value, type.fields[i].name)
               u == [i \in DOMAIN type.fields |->
                       IF sub(i) = Null THEN <<>>
                       ELSE <<type.fields[i].name>> \o x[type.fields[i].type][sub(i)]]
    <3>1. ShowInside(outcome, x, type, value) = FlattenSeq(u)
      BY <2>3 DEF ShowInside
    <3>2. IsSequence(type.fields) /\ \A i \in DOMAIN type.fields :
            type.fields[i].type \in FieldTypes /\ sub(i) \in FieldValues
      BY <2>3, ItemTypes, PartsOfValues
    <3>3. ASSUME NEW i \in DOMAIN u
          PROVE  u[i] \in Z
      <4>1. type.fields[i].name \in T
        <5>1. type.fields[i].name \in AllNames
          BY NameAmongAll
        <5> HIDE DEF R
        <5> QED BY <5>1
      <4>2. x[type.fields[i].type][sub(i)] \in Z
        <5> HIDE DEF Z, sub
        <5> QED BY <2>0, <3>2
      <4> DEFINE name == type.fields[i].name
                 rest == x[type.fields[i].type][sub(i)]
      <4>3. u[i] = IF sub(i) = Null THEN <<>> ELSE <<name>> \o rest
        OBVIOUS
      <4> HIDE DEF u, T, sub, name, rest
      <4> QED BY <4>1, <4>2, <4>3 DEF name, rest
    <3>4. DOMAIN u = DOMAIN type.fields /\ u = [i \in DOMAIN u |-> u[i]]
      OBVIOUS
    <3> HIDE DEF u, T
    <3> QED BY <3>1, <3>2, <3>3, <3>4, FlattenInto, SequenceMap
  <2>4. CASE /\ type.kind # "reference" /\ ~(type.kind = "array" /\ value.kind = "array")
             /\ ~(type.kind = "shape" /\ value.kind = "map")
    <3> HIDE DEF Z, X
    <3> QED BY <2>4, <1>2 DEF ShowInside
  <2> QED BY <2>1, <2>2, <2>3, <2>4
<1>5. s \in [X -> X]
  <2> HIDE DEF X, step
  <2> QED BY <1>4
<1>6. PICK f \in [0 .. N -> X] : Iterates(f, s, z, N)
  <2> HIDE DEF s, X, z
  <2> QED BY <1>1, <1>3, <1>5, IterationUpTo
<1>7. Is(f)
  <2> SUFFICES ASSUME NEW n \in 0 .. N
               PROVE  f[n] = [type \in FieldTypes |-> [value \in FieldValues |->
                        IF n = 0 THEN <<>> ELSE ShowInside(outcome, f[n - 1], type, value)]]
    <3> HIDE DEF X
    <3> QED OBVIOUS
  <2>1. CASE n = 0
    <3>1. f[n] = z
      <4> HIDE DEF z, s, X
      <4> QED BY <1>6, <2>1 DEF Iterates
    <3> HIDE DEF s, X, step
    <3> QED BY <2>1, <3>1
  <2>2. CASE n # 0
    <3> HIDE DEF X, step, z
    <3>1. n \in 1 .. N /\ f[n - 1] \in X
      BY <1>1, <2>2
    <3>2. f[n] = s[f[n - 1]]
      BY <1>6, <3>1 DEF Iterates
    <3>3. f[n] = step(f[n - 1])
      BY <3>1, <3>2
    <3> QED BY <2>2, <3>3 DEF step
  <2> QED BY <2>1, <2>2
<1>8. Is(c)
  <2> HIDE DEF Is, s, X
  <2> QED BY <1>7
<1>9. ShowValue(outcome) = c[MaxNesting]
  BY DEF ShowValue
<1>10. ShowsBy(c, outcome)
  <2> HIDE DEF c
  <2>1. 0 \in 0 .. N /\ \A n \in 1 .. N : n \in 0 .. N /\ n # 0
    BY <1>1
  <2>2. \A n \in 0 .. N : c[n] = [type \in FieldTypes |-> [value \in FieldValues |->
            IF n = 0 THEN <<>> ELSE ShowInside(outcome, c[n - 1], type, value)]]
    <3> HIDE DEF X, s, step, z
    <3> QED BY <1>8
  <2>3. ASSUME NEW n \in 0 .. N, NEW type \in FieldTypes, NEW value \in FieldValues
        PROVE  c[n][type][value] =
                 IF n = 0 THEN <<>> ELSE ShowInside(outcome, c[n - 1], type, value)
    <3> HIDE DEF Is
    <3>1. c[n] = [t \in FieldTypes |-> [a \in FieldValues |->
                   IF n = 0 THEN <<>> ELSE ShowInside(outcome, c[n - 1], t, a)]]
      BY <2>2
    <3> QED BY <3>1
  <2> HIDE DEF Is
  <2> QED BY <1>9, <2>1, <2>3 DEF ShowsBy
<1> HIDE DEF c
<1> QED BY <1>10

LEMMA LeavesLevels ==
  \E c : LeavesBy(c)
<1> DEFINE N == MaxNesting
           L == { [type |-> type, value |-> value] : type \in FieldTypes, value \in FieldValues }
                \cup { [name |-> name] : name \in AllNames }
           Z == SUBSET L
           X == [FieldTypes -> [FieldValues -> Z]]
           z == [type \in FieldTypes |-> [value \in FieldValues |-> {}]]
           step(x) == [type \in FieldTypes |-> [value \in FieldValues |->
                        LeavesInside(x, type, value)]]
           s == [x \in X |-> step(x)]
           Is(h) == h = [n \in 0 .. N |->
             [type \in FieldTypes |-> [value \in FieldValues |->
                IF n = 0 THEN {} ELSE LeavesInside(h[n - 1], type, value)]]]
           c == CHOOSE h : Is(h)
<1>1. N \in Nat
  BY NestingAssumption
<1>2. \A type \in FieldTypes, value \in FieldValues : [type |-> type, value |-> value] \in L
  OBVIOUS
<1>3. z \in X
  <2>1. {} \in Z
    <3> HIDE DEF L
    <3> QED OBVIOUS
  <2> HIDE DEF Z
  <2> QED BY <2>1
<1>4. ASSUME NEW x \in X
      PROVE  step(x) \in X
  <2> SUFFICES ASSUME NEW type \in FieldTypes, NEW value \in FieldValues
               PROVE  LeavesInside(x, type, value) \in Z
    <3> HIDE DEF Z
    <3> QED OBVIOUS
  <2>0. \A t \in FieldTypes, v \in FieldValues : x[t][v] \in Z
    <3> HIDE DEF Z
    <3> QED OBVIOUS
  <2>1. CASE type.kind = "array" /\ value.kind = "array"
    <3>1. \A i \in DOMAIN value.items : x[type.item][value.items[i]] \in Z
      <4> HIDE DEF Z
      <4> QED BY <2>0, <2>1, ItemTypes, PartsOfValues
    <3> HIDE DEF L, X
    <3> QED BY <2>1, <3>1 DEF LeavesInside
  <2>2. CASE type.kind = "shape" /\ value.kind = "map"
    <3> DEFINE sub(i) == Entry(value, type.fields[i].name)
               part(i) == IF sub(i) = Null THEN {}
                          ELSE {[name |-> type.fields[i].name]} \cup x[type.fields[i].type][sub(i)]
    <3>1. LeavesInside(x, type, value) = UNION { part(i) : i \in DOMAIN type.fields }
      BY <2>2 DEF LeavesInside
    <3>2. ASSUME NEW i \in DOMAIN type.fields
          PROVE  part(i) \subseteq L
      <4>1. [name |-> type.fields[i].name] \in L
        <5>1. type.fields[i].name \in AllNames
          BY NameAmongAll
        <5> QED BY <5>1
      <4>2. x[type.fields[i].type][sub(i)] \in Z
        <5>1. type.fields[i].type \in FieldTypes /\ sub(i) \in FieldValues
          BY <2>2, ItemTypes, PartsOfValues
        <5> HIDE DEF Z, sub
        <5> QED BY <2>0, <5>1
      <4> HIDE DEF L, sub
      <4> QED BY <4>1, <4>2
    <3> HIDE DEF L, part
    <3> QED BY <3>1, <3>2
  <2>3. CASE /\ ~(type.kind = "array" /\ value.kind = "array")
             /\ ~(type.kind = "shape" /\ value.kind = "map")
    <3>1. LeavesInside(x, type, value) = {[type |-> type, value |-> value]}
      BY <2>3 DEF LeavesInside
    <3> HIDE DEF L
    <3> QED BY <1>2, <3>1
  <2> QED BY <2>1, <2>2, <2>3
<1>5. s \in [X -> X]
  <2> HIDE DEF X, step
  <2> QED BY <1>4
<1>6. PICK f \in [0 .. N -> X] : Iterates(f, s, z, N)
  <2> HIDE DEF s, X, z
  <2> QED BY <1>1, <1>3, <1>5, IterationUpTo
<1>7. Is(f)
  <2> SUFFICES ASSUME NEW n \in 0 .. N
               PROVE  f[n] = [type \in FieldTypes |-> [value \in FieldValues |->
                        IF n = 0 THEN {} ELSE LeavesInside(f[n - 1], type, value)]]
    <3> HIDE DEF X
    <3> QED OBVIOUS
  <2>1. CASE n = 0
    <3>1. f[n] = z
      <4> HIDE DEF z, s, X
      <4> QED BY <1>6, <2>1 DEF Iterates
    <3> HIDE DEF s, X, step
    <3> QED BY <2>1, <3>1
  <2>2. CASE n # 0
    <3> HIDE DEF X, step, z
    <3>1. n \in 1 .. N /\ f[n - 1] \in X
      BY <1>1, <2>2
    <3>2. f[n] = s[f[n - 1]]
      BY <1>6, <3>1 DEF Iterates
    <3>3. f[n] = step(f[n - 1])
      BY <3>1, <3>2
    <3> QED BY <2>2, <3>3 DEF step
  <2> QED BY <2>1, <2>2
<1>8. Is(c)
  <2> HIDE DEF Is, s, X
  <2> QED BY <1>7
<1>9. Leaves = c[MaxNesting]
  BY DEF Leaves
<1>10. LeavesBy(c)
  <2> HIDE DEF c
  <2>1. 0 \in 0 .. N /\ \A n \in 1 .. N : n \in 0 .. N /\ n # 0
    BY <1>1
  <2>2. \A n \in 0 .. N : c[n] = [type \in FieldTypes |-> [value \in FieldValues |->
            IF n = 0 THEN {} ELSE LeavesInside(c[n - 1], type, value)]]
    <3> HIDE DEF X, s, step, z
    <3> QED BY <1>8
  <2>3. ASSUME NEW n \in 0 .. N, NEW type \in FieldTypes, NEW value \in FieldValues
        PROVE  c[n][type][value] =
                 IF n = 0 THEN {} ELSE LeavesInside(c[n - 1], type, value)
    <3> HIDE DEF Is
    <3>1. c[n] = [t \in FieldTypes |-> [a \in FieldValues |->
                   IF n = 0 THEN {} ELSE LeavesInside(c[n - 1], t, a)]]
      BY <2>2
    <3> QED BY <3>1
  <2> HIDE DEF Is
  <2> QED BY <1>9, <2>1, <2>3 DEF LeavesBy
<1> HIDE DEF c
<1> QED BY <1>10

-----------------------------------------------------------------------------
(* A type from which a chain of n types leads inwards.                     *)
Deep(n, type) ==
  \E chain \in [0 .. n -> FieldTypes] :
    /\ chain[0] = type
    /\ \A m \in 1 .. n : \E inner \in Inside(chain[m - 1], TRUE) : inner.type = chain[m]

LEMMA DeepAtFirst == \A type \in FieldTypes : Deep(0, type)
<1> SUFFICES ASSUME NEW type \in FieldTypes
             PROVE  Deep(0, type)
  OBVIOUS
<1> DEFINE chain == [m \in 0 .. 0 |-> type]
<1>1. chain \in [0 .. 0 -> FieldTypes] /\ chain[0] = type /\ 1 .. 0 = {}
  OBVIOUS
<1> HIDE DEF chain
<1> QED BY <1>1 DEF Deep

LEMMA DeepInside ==
  ASSUME NEW n \in Nat, NEW type \in FieldTypes, ~Deep(n + 1, type),
         NEW inner \in Inside(type, TRUE)
  PROVE  ~Deep(n, inner.type)
<1> SUFFICES ASSUME Deep(n, inner.type)
             PROVE  Deep(n + 1, type)
  OBVIOUS
<1>1. PICK chain \in [0 .. n -> FieldTypes] :
        /\ chain[0] = inner.type
        /\ \A m \in 1 .. n : \E other \in Inside(chain[m - 1], TRUE) : other.type = chain[m]
  BY DEF Deep
<1> DEFINE longer == [m \in 0 .. n + 1 |-> IF m = 0 THEN type ELSE chain[m - 1]]
<1>2. longer \in [0 .. n + 1 -> FieldTypes] /\ longer[0] = type
        /\ \A m \in 1 .. n + 1 : longer[m] = chain[m - 1]
  OBVIOUS
<1> HIDE DEF longer
<1>3. ASSUME NEW m \in 1 .. n + 1
      PROVE  \E other \in Inside(longer[m - 1], TRUE) : other.type = longer[m]
  <2>1. CASE m = 1
    <3>1. longer[m - 1] = type /\ longer[m] = inner.type
      BY <1>1, <1>2, <2>1
    <3> QED BY <3>1
  <2>2. CASE m # 1
    <3>1. m - 1 \in 1 .. n /\ m - 1 \in 1 .. n + 1
      BY <2>2
    <3>2. longer[m] = chain[m - 1] /\ longer[m - 1] = chain[(m - 1) - 1]
      BY <1>2, <3>1
    <3> QED BY <1>1, <3>1, <3>2
  <2> QED BY <2>1, <2>2
<1> QED BY <1>2, <1>3 DEF Deep

TypesInside(type) == { inner.type : inner \in Inside(type, TRUE) }

LEMMA InsideHas ==
  ASSUME NEW type, NEW t, [type |-> t, need |-> TRUE] \in Inside(type, TRUE)
  PROVE  t \in TypesInside(type)
<1> DEFINE field == [type |-> t, need |-> TRUE]
<1>1. field \in Inside(type, TRUE) /\ field.type = t
  OBVIOUS
<1> HIDE DEF field
<1> QED BY <1>1 DEF TypesInside

LEMMA InsideAlike ==
  ASSUME NEW type, NEW need, NEW inner \in Inside(type, need)
  PROVE  inner.type \in TypesInside(type)
<1>1. CASE type.kind = "shape"
  <2>1. PICK i \in DOMAIN type.fields : inner = [type |-> type.fields[i].type, need |-> need]
    BY <1>1 DEF Inside
  <2>2. [type |-> type.fields[i].type, need |-> TRUE] \in Inside(type, TRUE)
    BY <1>1 DEF Inside
  <2>3. type.fields[i].type \in TypesInside(type)
    BY <2>2, InsideHas
  <2> QED BY <2>1, <2>3
<1>2. CASE type.kind = "array"
  <2>1. inner.type = type.item /\ [type |-> type.item, need |-> TRUE] \in Inside(type, TRUE)
    BY <1>2 DEF Inside
  <2>2. type.item \in TypesInside(type)
    BY <2>1, InsideHas
  <2> QED BY <2>1, <2>2
<1> QED BY <1>1, <1>2 DEF Inside

LEMMA InsideArray ==
  ASSUME NEW type, type.kind = "array"
  PROVE  type.item \in TypesInside(type)
<1>1. [type |-> type.item, need |-> TRUE] \in Inside(type, TRUE)
  BY DEF Inside
<1> QED BY <1>1, InsideHas

LEMMA InsideShape ==
  ASSUME NEW type, type.kind = "shape", NEW i \in DOMAIN type.fields
  PROVE  type.fields[i].type \in TypesInside(type)
<1>1. [type |-> type.fields[i].type, need |-> TRUE] \in Inside(type, TRUE)
  BY DEF Inside
<1> QED BY <1>1, InsideHas

LEMMA CollectCovers ==
  ASSUME NEW b, NEW c, Collects(c, b)
  PROVE  \A type \in FieldTypes, need \in BOOLEAN :
           CollectReferences(b)[type][need] = ReferencesOf(b, CollectReferences(b), type, need)
<1> DEFINE T == { n \in 0 .. MaxNesting :
                    \A type \in FieldTypes, need \in BOOLEAN :
                      ~Deep(n, type) => ReferencesOf(b, c[n], type, need) = c[n][type][need] }
<1>1. MaxNesting \in Nat
  BY NestingAssumption
<1>2. 0 \in T
  BY <1>1, DeepAtFirst
<1>3. ASSUME NEW n \in 0 .. MaxNesting - 1, n \in T
      PROVE  n + 1 \in T
  <2> SUFFICES ASSUME NEW type \in FieldTypes, NEW need \in BOOLEAN, ~Deep(n + 1, type)
               PROVE  ReferencesOf(b, c[n + 1], type, need) = c[n + 1][type][need]
    BY <1>1
  <2>1. n \in Nat /\ n + 1 \in 1 .. MaxNesting /\ (n + 1) - 1 = n
    BY <1>1
  <2>2. \A t \in FieldTypes, v \in BOOLEAN :
          c[n + 1][t][v] = ReferencesOf(b, c[n], t, v)
    BY <2>1 DEF Collects
  <2>3. ASSUME NEW t \in TypesInside(type), NEW v \in BOOLEAN
        PROVE  c[n + 1][t][v] = c[n][t][v]
    <3>1. t \in FieldTypes /\ ~Deep(n, t)
      BY <2>1, InsideTypes, DeepInside DEF TypesInside
    <3> QED BY <1>3, <2>2, <3>1
  <2>4. ReferencesOf(b, c[n + 1], type, need) = ReferencesOf(b, c[n], type, need)
    <3>1. CASE type.kind # "reference"
      <4> DEFINE parts(below) == { below[inner.type][inner.need] : inner \in Inside(type, need) }
      <4>1. ASSUME NEW inner \in Inside(type, need)
            PROVE  c[n + 1][inner.type][inner.need] = c[n][inner.type][inner.need]
        <5>1. inner.need \in BOOLEAN /\ inner.type \in TypesInside(type)
          BY InsideTypes, InsideAlike
        <5> QED BY <2>3, <5>1
      <4>2. parts(c[n + 1]) = parts(c[n])
        BY <4>1
      <4>3. \A below : ReferencesOf(b, below, type, need) = Together(parts(below))
        BY <3>1 DEF ReferencesOf
      <4> HIDE DEF parts
      <4> QED BY <4>2, <4>3
    <3>2. CASE type.kind = "reference"
      BY <3>2 DEF ReferencesOf
    <3> QED BY <3>1, <3>2
  <2> QED BY <2>2, <2>4
<1>4. MaxNesting \in T
  <2>1. MaxNesting \in 0 .. MaxNesting
    BY <1>1
  <2> HIDE DEF T
  <2> QED BY <1>1, <1>2, <1>3, <2>1, InductionUpTo
<1>5. \A type \in FieldTypes : ~Deep(MaxNesting, type)
  BY NestingAssumption DEF Deep
<1> QED BY <1>4, <1>5 DEF Collects

LEMMA ShowCovers ==
  ASSUME NEW outcome, NEW c, ShowsBy(c, outcome)
  PROVE  \A type \in FieldTypes, value \in FieldValues :
           ShowValue(outcome)[type][value] = ShowInside(outcome, ShowValue(outcome), type, value)
<1> DEFINE T == { n \in 0 .. MaxNesting :
                    \A type \in FieldTypes, value \in FieldValues :
                      ~Deep(n, type) => ShowInside(outcome, c[n], type, value) = c[n][type][value] }
<1>1. MaxNesting \in Nat
  BY NestingAssumption
<1>2. 0 \in T
  BY <1>1, DeepAtFirst
<1>3. ASSUME NEW n \in 0 .. MaxNesting - 1, n \in T
      PROVE  n + 1 \in T
  <2> SUFFICES ASSUME NEW type \in FieldTypes, NEW value \in FieldValues, ~Deep(n + 1, type)
               PROVE  ShowInside(outcome, c[n + 1], type, value) = c[n + 1][type][value]
    BY <1>1
  <2>1. n \in Nat /\ n + 1 \in 1 .. MaxNesting /\ (n + 1) - 1 = n
    BY <1>1
  <2>2. \A t \in FieldTypes, v \in FieldValues :
          c[n + 1][t][v] = ShowInside(outcome, c[n], t, v)
    BY <2>1 DEF ShowsBy
  <2>3. ASSUME NEW t \in TypesInside(type), NEW v \in FieldValues
        PROVE  c[n + 1][t][v] = c[n][t][v]
    <3>1. t \in FieldTypes /\ ~Deep(n, t)
      BY <2>1, InsideTypes, DeepInside DEF TypesInside
    <3> QED BY <1>3, <2>2, <3>1
  <2>4. ShowInside(outcome, c[n + 1], type, value) = ShowInside(outcome, c[n], type, value)
    <3>1. CASE type.kind = "array" /\ value.kind = "array"
      <4> DEFINE parts(below) == [i \in DOMAIN value.items |-> below[type.item][value.items[i]]]
      <4>1. \A i \in DOMAIN value.items :
              c[n + 1][type.item][value.items[i]] = c[n][type.item][value.items[i]]
        BY <2>3, <3>1, InsideArray, PartsOfValues
      <4>2. parts(c[n + 1]) = parts(c[n])
        BY <4>1
      <4>3. \A below : ShowInside(outcome, below, type, value) = FlattenSeq(parts(below))
        BY <3>1 DEF ShowInside
      <4> HIDE DEF parts
      <4> QED BY <4>2, <4>3
    <3>2. CASE type.kind = "shape" /\ value.kind = "map"
      <4> DEFINE sub(i) == Entry(value, type.fields[i].name)
                 parts(below) == [i \in DOMAIN type.fields |->
                                    IF sub(i) = Null THEN <<>>
                                    ELSE <<type.fields[i].name>>
                                           \o below[type.fields[i].type][sub(i)]]
      <4>1. \A i \in DOMAIN type.fields :
              c[n + 1][type.fields[i].type][sub(i)] = c[n][type.fields[i].type][sub(i)]
        <5>1. \A i : sub(i) \in FieldValues
          BY <3>2, PartsOfValues
        <5> HIDE DEF sub
        <5> QED BY <2>3, <3>2, <5>1, InsideShape
      <4>2. parts(c[n + 1]) = parts(c[n])
        <5> HIDE DEF sub
        <5> QED BY <4>1
      <4>3. \A below : ShowInside(outcome, below, type, value) = FlattenSeq(parts(below))
        BY <3>2 DEF ShowInside
      <4> HIDE DEF parts
      <4> QED BY <4>2, <4>3
    <3>3. CASE /\ ~(type.kind = "array" /\ value.kind = "array")
               /\ ~(type.kind = "shape" /\ value.kind = "map")
      BY <3>3 DEF ShowInside
    <3> QED BY <3>1, <3>2, <3>3
  <2> QED BY <2>2, <2>4
<1>4. MaxNesting \in T
  <2>1. MaxNesting \in 0 .. MaxNesting
    BY <1>1
  <2> HIDE DEF T
  <2> QED BY <1>1, <1>2, <1>3, <2>1, InductionUpTo
<1>5. \A type \in FieldTypes : ~Deep(MaxNesting, type)
  BY NestingAssumption DEF Deep
<1> QED BY <1>4, <1>5 DEF ShowsBy

LEMMA LeavesCover ==
  ASSUME NEW c, LeavesBy(c)
  PROVE  \A type \in FieldTypes, value \in FieldValues :
           Leaves[type][value] = LeavesInside(Leaves, type, value)
<1> DEFINE T == { n \in 0 .. MaxNesting :
                    \A type \in FieldTypes, value \in FieldValues :
                      ~Deep(n, type) => LeavesInside(c[n], type, value) = c[n][type][value] }
<1>1. MaxNesting \in Nat
  BY NestingAssumption
<1>2. 0 \in T
  BY <1>1, DeepAtFirst
<1>3. ASSUME NEW n \in 0 .. MaxNesting - 1, n \in T
      PROVE  n + 1 \in T
  <2> SUFFICES ASSUME NEW type \in FieldTypes, NEW value \in FieldValues, ~Deep(n + 1, type)
               PROVE  LeavesInside(c[n + 1], type, value) = c[n + 1][type][value]
    BY <1>1
  <2>1. n \in Nat /\ n + 1 \in 1 .. MaxNesting /\ (n + 1) - 1 = n
    BY <1>1
  <2>2. \A t \in FieldTypes, v \in FieldValues :
          c[n + 1][t][v] = LeavesInside(c[n], t, v)
    BY <2>1 DEF LeavesBy
  <2>3. ASSUME NEW t \in TypesInside(type), NEW v \in FieldValues
        PROVE  c[n + 1][t][v] = c[n][t][v]
    <3>1. t \in FieldTypes /\ ~Deep(n, t)
      BY <2>1, InsideTypes, DeepInside DEF TypesInside
    <3> QED BY <1>3, <2>2, <3>1
  <2>4. LeavesInside(c[n + 1], type, value) = LeavesInside(c[n], type, value)
    <3>1. CASE type.kind = "array" /\ value.kind = "array"
      <4> DEFINE parts(below) == UNION { below[type.item][value.items[i]] : i \in DOMAIN value.items }
      <4>1. \A i \in DOMAIN value.items :
              c[n + 1][type.item][value.items[i]] = c[n][type.item][value.items[i]]
        BY <2>3, <3>1, InsideArray, PartsOfValues
      <4>2. parts(c[n + 1]) = parts(c[n])
        BY <4>1
      <4>3. \A below : LeavesInside(below, type, value) = parts(below)
        BY <3>1 DEF LeavesInside
      <4> HIDE DEF parts
      <4> QED BY <4>2, <4>3
    <3>2. CASE type.kind = "shape" /\ value.kind = "map"
      <4> DEFINE sub(i) == Entry(value, type.fields[i].name)
                 parts(below) == UNION { IF sub(i) = Null THEN {}
                                         ELSE {[name |-> type.fields[i].name]}
                                                \cup below[type.fields[i].type][sub(i)] :
                                           i \in DOMAIN type.fields }
      <4>1. \A i \in DOMAIN type.fields :
              c[n + 1][type.fields[i].type][sub(i)] = c[n][type.fields[i].type][sub(i)]
        <5>1. \A i : sub(i) \in FieldValues
          BY <3>2, PartsOfValues
        <5> HIDE DEF sub
        <5> QED BY <2>3, <3>2, <5>1, InsideShape
      <4>2. parts(c[n + 1]) = parts(c[n])
        <5> HIDE DEF sub
        <5> QED BY <4>1
      <4>3. \A below : LeavesInside(below, type, value) = parts(below)
        BY <3>2 DEF LeavesInside
      <4> HIDE DEF parts
      <4> QED BY <4>2, <4>3
    <3>3. CASE /\ ~(type.kind = "array" /\ value.kind = "array")
               /\ ~(type.kind = "shape" /\ value.kind = "map")
      BY <3>3 DEF LeavesInside
    <3> QED BY <3>1, <3>2, <3>3
  <2> QED BY <2>2, <2>4
<1>4. MaxNesting \in T
  <2>1. MaxNesting \in 0 .. MaxNesting
    BY <1>1
  <2> HIDE DEF T
  <2> QED BY <1>1, <1>2, <1>3, <2>1, InductionUpTo
<1>5. \A type \in FieldTypes : ~Deep(MaxNesting, type)
  BY NestingAssumption DEF Deep
<1> QED BY <1>4, <1>5 DEF LeavesBy

(* The levels are enough: on types that nest no deeper than MaxNesting the *)
(* two functions are what collect_references and display_value_for_type    *)
(* compute by calling themselves, however deep the types are, and nothing  *)
(* is cut off.                                                             *)
THEOREM RecursionIsWhole ==
  /\ \A b : \A type \in FieldTypes, need \in BOOLEAN :
       CollectReferences(b)[type][need] = ReferencesOf(b, CollectReferences(b), type, need)
  /\ \A outcome : OutcomeValues(outcome) =>
       \A type \in FieldTypes, value \in FieldValues :
         ShowValue(outcome)[type][value] = ShowInside(outcome, ShowValue(outcome), type, value)
  /\ \A type \in FieldTypes, value \in FieldValues :
       Leaves[type][value] = LeavesInside(Leaves, type, value)
<1>1. ASSUME NEW b
      PROVE  \A type \in FieldTypes, need \in BOOLEAN :
               CollectReferences(b)[type][need] = ReferencesOf(b, CollectReferences(b), type, need)
  BY CollectLevels, CollectCovers
<1>2. ASSUME NEW outcome, OutcomeValues(outcome)
      PROVE  \A type \in FieldTypes, value \in FieldValues :
               ShowValue(outcome)[type][value] = ShowInside(outcome, ShowValue(outcome), type, value)
  BY <1>2, ShowLevels, ShowCovers
<1>3. \A type \in FieldTypes, value \in FieldValues :
        Leaves[type][value] = LeavesInside(Leaves, type, value)
  BY LeavesLevels, LeavesCover
<1> QED BY <1>1, <1>2, <1>3

-----------------------------------------------------------------------------
(* Every reference among the leaves of a value is of a model that the      *)
(* references of its type name.                                            *)
LEMMA LeavesAreNamed ==
  ASSUME NEW c, NEW b, Collects(c, b), NEW l, LeavesBy(l)
  PROVE  \A n \in 0 .. MaxNesting :
         \A type \in FieldTypes, need \in BOOLEAN, value \in FieldValues :
           ~c[n][type][need].unknown =>
             \A leaf \in l[n][type][value] :
               IsReference(leaf) =>
                 leaf.type.entity \in c[n][type][need].lookups \cup c[n][type][need].inlines
<1> DEFINE Named(loads, leaves) ==
             \A leaf \in leaves :
               IsReference(leaf) => leaf.type.entity \in loads.lookups \cup loads.inlines
           T == { n \in 0 .. MaxNesting :
                    \A type \in FieldTypes, need \in BOOLEAN, value \in FieldValues :
                      ~c[n][type][need].unknown => Named(c[n][type][need], l[n][type][value]) }
<1>1. MaxNesting \in Nat
  BY NestingAssumption
<1>2. 0 \in T
  <2>1. \A type \in FieldTypes, value \in FieldValues : l[0][type][value] = {}
    BY DEF LeavesBy
  <2> QED BY <1>1, <2>1
<1>3. ASSUME NEW n \in 0 .. MaxNesting - 1, n \in T
      PROVE  n + 1 \in T
  <2> SUFFICES ASSUME NEW type \in FieldTypes, NEW need \in BOOLEAN, NEW value \in FieldValues,
                      ~c[n + 1][type][need].unknown
               PROVE  Named(c[n + 1][type][need], l[n + 1][type][value])
    BY <1>1
  <2> DEFINE loads == c[n + 1][type][need]
             below == c[n]
  <2>1. n + 1 \in 1 .. MaxNesting /\ (n + 1) - 1 = n
    BY <1>1
  <2>2. loads = ReferencesOf(b, c[n], type, need) /\ ~loads.unknown
    BY <2>1 DEF Collects
  <2>3. l[n + 1][type][value] = LeavesInside(l[n], type, value)
    BY <2>1 DEF LeavesBy
  <2>4. \A t \in FieldTypes, d \in BOOLEAN, v \in FieldValues :
          ~c[n][t][d].unknown => Named(c[n][t][d], l[n][t][v])
    BY <1>3
  <2> HIDE DEF loads
  <2>5. CASE type.kind = "reference"
    <3>1. LeavesInside(l[n], type, value) = {[type |-> type, value |-> value]}
      BY <2>5 DEF LeavesInside
    <3>2. type.entity \in loads.lookups \cup loads.inlines
      BY <2>2, <2>5 DEF ReferencesOf, Loads
    <3> QED BY <2>3, <3>1, <3>2 DEF loads
  <2>6. CASE type.kind # "reference"
    <3> DEFINE parts == { c[n][inner.type][inner.need] : inner \in Inside(type, need) }
    <3>1. loads = Together(parts)
      BY <2>2, <2>6 DEF ReferencesOf
    <3> HIDE DEF parts
    <3>2. \A part \in parts : /\ part.lookups \subseteq loads.lookups
                              /\ part.inlines \subseteq loads.inlines
                              /\ ~part.unknown
      BY <2>2, <3>1 DEF Together, Loads
    <3>3. ASSUME NEW inner \in Inside(type, need), NEW v \in FieldValues
          PROVE  Named(loads, l[n][inner.type][v])
      <4>1. inner.type \in FieldTypes /\ inner.need \in BOOLEAN
        BY InsideTypes
      <4>2. c[n][inner.type][inner.need] \in parts
        BY DEF parts
      <4>3. Named(c[n][inner.type][inner.need], l[n][inner.type][v])
        <5> HIDE DEF Named
        <5> QED BY <2>4, <3>2, <4>1, <4>2
      <4> QED BY <3>2, <4>2, <4>3
    <3>4. CASE type.kind = "array" /\ value.kind = "array"
      <4>1. LeavesInside(l[n], type, value)
              = UNION { l[n][type.item][value.items[i]] : i \in DOMAIN value.items }
        BY <3>4 DEF LeavesInside
      <4>2. [type |-> type.item, need |-> TRUE] \in Inside(type, need)
        BY <3>4 DEF Inside
      <4>3. \A i \in DOMAIN value.items : value.items[i] \in FieldValues
        BY <3>4, PartsOfValues
      <4>4. \A i \in DOMAIN value.items : Named(loads, l[n][type.item][value.items[i]])
        <5> DEFINE item == [type |-> type.item, need |-> TRUE]
        <5>1. item.type = type.item /\ item \in Inside(type, need)
          BY <4>2
        <5> HIDE DEF Named, item
        <5> QED BY <3>3, <4>3, <5>1
      <4> QED BY <2>3, <4>1, <4>4 DEF loads
    <3>5. CASE type.kind = "shape" /\ value.kind = "map"
      <4> DEFINE sub(i) == Entry(value, type.fields[i].name)
                 name(i) == [name |-> type.fields[i].name]
                 part(i) == IF sub(i) = Null THEN {}
                            ELSE {name(i)} \cup l[n][type.fields[i].type][sub(i)]
      <4>1. LeavesInside(l[n], type, value) = UNION { part(i) : i \in DOMAIN type.fields }
        BY <3>5 DEF LeavesInside
      <4>2. ASSUME NEW i \in DOMAIN type.fields
            PROVE  Named(loads, part(i))
        <5> DEFINE field == [type |-> type.fields[i].type, need |-> need]
        <5>1. field.type = type.fields[i].type /\ field \in Inside(type, need)
          BY <3>5 DEF Inside
        <5>2. sub(i) \in FieldValues
          BY <3>5, PartsOfValues
        <5>3. Named(loads, l[n][type.fields[i].type][sub(i)])
          <6> HIDE DEF Named, field, sub
          <6> QED BY <3>3, <5>1, <5>2
        <5>4. ~IsReference(name(i))
          BY DEF IsReference
        <5> HIDE DEF sub, name
        <5> QED BY <5>3, <5>4
      <4> HIDE DEF part
      <4> QED BY <2>3, <4>1, <4>2 DEF loads
    <3>6. CASE /\ ~(type.kind = "array" /\ value.kind = "array")
               /\ ~(type.kind = "shape" /\ value.kind = "map")
      <4>1. LeavesInside(l[n], type, value) = {[type |-> type, value |-> value]}
        BY <3>6 DEF LeavesInside
      <4>2. ~IsReference([type |-> type, value |-> value])
        BY <2>6 DEF IsReference
      <4> QED BY <2>3, <4>1, <4>2
    <3> QED BY <3>4, <3>5, <3>6
  <2> QED BY <2>5, <2>6
<1>4. \A n \in 0 .. MaxNesting : n \in T
  <2> HIDE DEF T
  <2> QED BY <1>1, <1>2, <1>3, InductionUpTo
<1> QED BY <1>4

-----------------------------------------------------------------------------
(* The rows of a source are sequences of maps to values.                   *)
SourceRows(source) ==
  \A m \in DOMAIN source :
    /\ IsSequence(source[m].rows)
    /\ \A i \in DOMAIN source[m].rows : Range(source[m].rows[i]) \subseteq FieldValues

IdKeys(row) == LookupKeys(Get(row, "id", Null))

(* A set of places has a last one.                                         *)
LEMMA LastExists ==
  ASSUME NEW N \in Nat, NEW T \in SUBSET (1 .. N), T # {}
  PROVE  \E i \in T : \A j \in T : j <= i
<1> DEFINE U == { N - i : i \in T }
<1>1. U \in SUBSET Nat /\ U # {}
  OBVIOUS
<1>2. PICK k \in U : \A j \in U : k <= j
  <2> HIDE DEF U
  <2> QED BY <1>1, FirstExists
<1>3. PICK i \in T : k = N - i
  BY <1>2
<1>4. \A j \in T : N - i <= N - j
  BY <1>2, <1>3
<1> QED BY <1>4

(* The last row with an id is the one that rows_by_id keeps.               *)
LEMMA RowsByIdLast ==
  ASSUME NEW rows, IsSequence(rows), NEW k
  PROVE  LET last == { i \in DOMAIN rows :
                         /\ k \in IdKeys(rows[i])
                         /\ \A j \in DOMAIN rows : k \in IdKeys(rows[j]) => j <= i }
         IN /\ k \in DOMAIN RowsById(rows) <=> last # {}
            /\ \A i \in last : k \in DOMAIN RowsById(rows) /\ RowsById(rows)[k] = rows[i]
<1> DEFINE has == { i \in DOMAIN rows : k \in IdKeys(rows[i]) }
           last == { i \in DOMAIN rows :
                       /\ k \in IdKeys(rows[i])
                       /\ \A j \in DOMAIN rows : k \in IdKeys(rows[j]) => j <= i }
           lastOf(q) == CHOOSE i \in DOMAIN rows :
                          /\ q \in IdKeys(rows[i])
                          /\ \A j \in DOMAIN rows : q \in IdKeys(rows[j]) => j <= i
           ids == UNION { IdKeys(rows[i]) : i \in DOMAIN rows }
<1>1. DOMAIN rows = 1 .. Len(rows) /\ Len(rows) \in Nat
  BY SequenceFacts
<1>2. RowsById(rows) = [q \in ids |-> rows[lastOf(q)]]
  BY Zenon DEF RowsById, IdKeys
<1>3. k \in ids <=> has # {}
  OBVIOUS
<1>4. has # {} <=> last # {}
  <2>1. last \subseteq has
    OBVIOUS
  <2>2. ASSUME has # {}
        PROVE  last # {}
    <3>1. PICK i \in has : \A j \in has : j <= i
      <4>1. has \in SUBSET (1 .. Len(rows))
        BY <1>1
      <4> HIDE DEF has
      <4> QED BY <1>1, <2>2, <4>1, LastExists
    <3>2. i \in last
      BY <3>1
    <3> QED BY <3>2
  <2> QED BY <2>1, <2>2
<1>5. ASSUME NEW i \in last
      PROVE  lastOf(k) = i
  <2>1. lastOf(k) \in last
    BY <1>5
  <2> HIDE DEF lastOf
  <2>2. lastOf(k) <= i /\ i <= lastOf(k) /\ lastOf(k) \in 1 .. Len(rows) /\ i \in 1 .. Len(rows)
    BY <1>1, <1>5, <2>1
  <2> QED BY <2>2
<1>6. DOMAIN RowsById(rows) = ids /\ (k \in ids => RowsById(rows)[k] = rows[lastOf(k)])
  <2> HIDE DEF ids, lastOf
  <2> QED BY <1>2
<1> HIDE DEF ids, lastOf, has
<1> QED BY <1>3, <1>4, <1>5, <1>6

(* The lookups of an outcome are the rows of the models it names.          *)
LooksUp(outcome, source, named) ==
  outcome.lookups = [m \in named \cap DOMAIN source |-> RowsById(source[m].rows)]

LEMMA LooksUpValues ==
  ASSUME NEW source, SourceRows(source), NEW named, NEW outcome, LooksUp(outcome, source, named)
  PROVE  OutcomeValues(outcome)
<1> SUFFICES ASSUME NEW m \in named \cap DOMAIN source, NEW k \in DOMAIN RowsById(source[m].rows),
                    NEW f \in DOMAIN RowsById(source[m].rows)[k]
             PROVE  RowsById(source[m].rows)[k][f] \in FieldValues
  BY DEF LooksUp, OutcomeValues
<1> DEFINE rows == source[m].rows
           last == { i \in DOMAIN rows :
                       /\ k \in IdKeys(rows[i])
                       /\ \A j \in DOMAIN rows : k \in IdKeys(rows[j]) => j <= i }
<1>1. IsSequence(rows) /\ \A i \in DOMAIN rows : Range(rows[i]) \subseteq FieldValues
  BY DEF SourceRows
<1> HIDE DEF rows
<1>2. (k \in DOMAIN RowsById(rows) <=> last # {}) /\ \A i \in last : RowsById(rows)[k] = rows[i]
  BY <1>1, RowsByIdLast
<1>3. PICK i \in DOMAIN rows : RowsById(rows)[k] = rows[i]
  BY <1>2 DEF rows
<1>4. rows[i][f] \in Range(rows[i])
  BY <1>3 DEF Range, rows
<1> QED BY <1>1, <1>3, <1>4 DEF rows

(* A reference shows what the last row with its id displays.               *)
LEMMA ReferenceShows ==
  ASSUME NEW source, SourceRows(source), NEW named, NEW outcome, LooksUp(outcome, source, named),
         NEW type, type.kind = "reference", type.entity \in named, NEW value \in FieldValues
  PROVE  /\ IsSequence(ShowReference(outcome, type, value))
         /\ ToSet(ShowReference(outcome, type, value))
              = TextsOf(source, [type |-> type, value |-> value])
<1> DEFINE leaf == [type |-> type, value |-> value]
           df == type.display_field
           lookup == Get(outcome.lookups, type.entity, <<>>)
           found  == LookupKeys(value) \cap DOMAIN lookup
           key == CHOOSE k \in found : TRUE
           row == lookup[key]
           rows == IF type.entity \in DOMAIN source THEN source[type.entity].rows ELSE <<>>
           has == { i \in DOMAIN rows :
                      LookupKeys(value) # {} /\ IdKeys(rows[i]) = LookupKeys(value) }
           shown == { rows[i][df] :
                        i \in { j \in has : (\A k \in has : k <= j) /\ df \in DOMAIN rows[j] } }
<1>1. ShowReference(outcome, type, value) =
        IF found # {} /\ df \in DOMAIN row THEN RawTexts(row[df]) ELSE RawTexts(value)
  BY DEF ShowReference
<1>2. DisplayFields(source, leaf) = shown
  BY DEF DisplayFields, IdKeys
<1>3. TextsOf(source, leaf) = IF shown # {} THEN UNION { ToSet(RawTexts(v)) : v \in shown }
                              ELSE ToSet(RawTexts(value))
  <2>1. IsReference(leaf) /\ "name" \notin DOMAIN leaf /\ leaf.value = value
    BY DEF IsReference
  <2> HIDE DEF leaf, shown
  <2> QED BY <1>2, <2>1 DEF TextsOf, Range, ToSet
<1>4. IsSequence(ShowReference(outcome, type, value))
  BY LooksUpValues, ReferenceTexts, PartsOfValues
<1>5. SUFFICES \/ shown = {} /\ ~(found # {} /\ df \in DOMAIN row)
               \/ found # {} /\ df \in DOMAIN row /\ shown = {row[df]}
  <2> HIDE DEF leaf, shown, found, row, df
  <2>1. leaf = [type |-> type, value |-> value]
    BY DEF leaf
  <2> QED BY <1>1, <1>3, <1>4, <2>1
<1>6. CASE LookupKeys(value) = {}
  BY <1>6
<1>7. CASE type.entity \notin DOMAIN source
  <2>1. DOMAIN rows = {} /\ DOMAIN lookup = {}
    BY <1>7, EmptySequence DEF LooksUp, Get
  <2> HIDE DEF rows, lookup
  <2> QED BY <2>1
<1>8. CASE type.entity \in DOMAIN source /\ LookupKeys(value) # {}
  <2> DEFINE k == value.text
             last == { i \in DOMAIN rows :
                         /\ k \in IdKeys(rows[i])
                         /\ \A j \in DOMAIN rows : k \in IdKeys(rows[j]) => j <= i }
  <2>1. LookupKeys(value) = {k}
    BY <1>8 DEF LookupKeys
  <2>2. rows = source[type.entity].rows /\ IsSequence(rows)
    BY <1>8 DEF SourceRows
  <2>3. lookup = RowsById(rows)
    BY <1>8 DEF LooksUp, Get
  <2> HIDE DEF rows, lookup, k
  <2>4. DOMAIN rows = 1 .. Len(rows) /\ Len(rows) \in Nat
    BY <2>2, SequenceFacts
  <2>5. \A i \in DOMAIN rows : IdKeys(rows[i]) = {k} <=> k \in IdKeys(rows[i])
    BY DEF IdKeys, LookupKeys
  <2>6. has = { i \in DOMAIN rows : k \in IdKeys(rows[i]) }
    BY <2>1, <2>5
  <2>7. { j \in has : \A i \in has : i <= j } = last
    BY <2>6
  <2>8. /\ k \in DOMAIN lookup <=> last # {}
        /\ \A i \in last : lookup[k] = rows[i]
    BY <2>2, <2>3, RowsByIdLast
  <2>9. shown = { rows[i][df] : i \in { j \in last : df \in DOMAIN rows[j] } }
    <3>1. { j \in has : (\A i \in has : i <= j) /\ df \in DOMAIN rows[j] }
            = { j \in last : df \in DOMAIN rows[j] }
      <4> HIDE DEF has, last
      <4> QED BY <2>7
    <3> HIDE DEF has, last
    <3> QED BY <3>1
  <2>10. found = IF last # {} THEN {k} ELSE {}
    BY <2>1, <2>8
  <2>11. CASE last = {}
    BY <2>9, <2>10, <2>11
  <2>12. CASE last # {}
    <3>1. PICK i \in last : TRUE
      BY <2>12
    <3>2. \A j \in last : j = i
      BY <2>4, <3>1
    <3>3. key = k /\ row = rows[i]
      BY <2>8, <2>10, <2>12, <3>1
    <3> HIDE DEF key, row, last, found, df
    <3>4. CASE df \in DOMAIN rows[i]
      <4>1. { j \in last : df \in DOMAIN rows[j] } = {i}
        BY <3>1, <3>2, <3>4
      <4>2. shown = {rows[i][df]}
        BY <2>9, <4>1
      <4> QED BY <2>10, <2>12, <3>3, <3>4, <4>2
    <3>5. CASE df \notin DOMAIN rows[i]
      <4>1. { j \in last : df \in DOMAIN rows[j] } = {}
        BY <3>1, <3>2, <3>5
      <4>2. shown = {}
        BY <2>9, <4>1
      <4> QED BY <3>3, <3>5, <4>2
    <3> QED BY <3>4, <3>5
  <2> QED BY <2>11, <2>12
<1> QED BY <1>6, <1>7, <1>8

(* A value shows the texts of its leaves and nothing else, when every      *)
(* reference among them is of a model that was asked for.                  *)
LEMMA LeavesAreShown ==
  ASSUME NEW source, SourceRows(source), NEW named, NEW outcome, LooksUp(outcome, source, named),
         NEW c, ShowsBy(c, outcome), NEW l, LeavesBy(l)
  PROVE  \A n \in 0 .. MaxNesting : \A type \in FieldTypes, value \in FieldValues :
           (\A leaf \in l[n][type][value] : IsReference(leaf) => leaf.type.entity \in named) =>
             /\ IsSequence(c[n][type][value])
             /\ ToSet(c[n][type][value])
                  = UNION { TextsOf(source, leaf) : leaf \in l[n][type][value] }
<1> DEFINE Named(leaves) == \A leaf \in leaves : IsReference(leaf) => leaf.type.entity \in named
           words(leaves) == UNION { TextsOf(source, leaf) : leaf \in leaves }
           Shown(s, leaves) == IsSequence(s) /\ ToSet(s) = words(leaves)
           T == { n \in 0 .. MaxNesting :
                    \A type \in FieldTypes, value \in FieldValues :
                      Named(l[n][type][value]) => Shown(c[n][type][value], l[n][type][value]) }
<1>1. MaxNesting \in Nat
  BY NestingAssumption
<1>2. 0 \in T
  <2>1. \A type \in FieldTypes, value \in FieldValues :
          c[0][type][value] = <<>> /\ l[0][type][value] = {}
    BY DEF LeavesBy, ShowsBy
  <2>2. Shown(<<>>, {})
    BY EmptySequence
  <2>3. 0 \in 0 .. MaxNesting
    BY <1>1
  <2> HIDE DEF Shown, words
  <2> QED BY <2>1, <2>2, <2>3, Zenon
<1>3. ASSUME NEW n \in 0 .. MaxNesting - 1, n \in T
      PROVE  n + 1 \in T
  <2> SUFFICES ASSUME NEW type \in FieldTypes, NEW value \in FieldValues,
                      Named(l[n + 1][type][value])
               PROVE  Shown(c[n + 1][type][value], l[n + 1][type][value])
    <3> HIDE DEF Named, Shown
    <3> QED BY <1>1
  <2> DEFINE s == c[n + 1][type][value]
             leaves == l[n + 1][type][value]
             leaf == [type |-> type, value |-> value]
  <2>1. n + 1 \in 1 .. MaxNesting /\ (n + 1) - 1 = n
    BY <1>1
  <2>2. s = ShowInside(outcome, c[n], type, value)
    BY <2>1 DEF ShowsBy
  <2>3. leaves = LeavesInside(l[n], type, value) /\ Named(leaves)
    BY <2>1 DEF LeavesBy
  <2>4. \A t \in FieldTypes, v \in FieldValues :
          Named(l[n][t][v]) => Shown(c[n][t][v], l[n][t][v])
    <3> HIDE DEF Named, Shown
    <3> QED BY <1>3
  <2> SUFFICES Shown(s, leaves)
    OBVIOUS
  <2> HIDE DEF s, leaves
  <2>5. CASE type.kind = "reference"
    <3>1. leaves = {leaf} /\ s = ShowReference(outcome, type, value)
      BY <2>2, <2>3, <2>5 DEF ShowInside, LeavesInside
    <3>2. IsReference(leaf) /\ leaf.type = type
      BY <2>5 DEF IsReference
    <3>3. type.entity \in named
      <4> HIDE DEF leaf
      <4> QED BY <2>3, <3>1, <3>2
    <3>4. IsSequence(s) /\ ToSet(s) = TextsOf(source, leaf)
      BY <2>5, <3>1, <3>3, ReferenceShows
    <3>5. words(leaves) = TextsOf(source, leaf)
      <4> HIDE DEF leaf
      <4> QED BY <3>1
    <3> QED BY <3>4, <3>5
  <2>6. CASE type.kind = "array" /\ value.kind = "array"
    <3> DEFINE u == [i \in DOMAIN value.items |-> c[n][type.item][value.items[i]]]
               under(i) == l[n][type.item][value.items[i]]
    <3>1. leaves = UNION { under(i) : i \in DOMAIN value.items } /\ s = FlattenSeq(u)
      BY <2>2, <2>3, <2>6 DEF ShowInside, LeavesInside
    <3>2. type.item \in FieldTypes /\ IsSequence(value.items)
            /\ \A i \in DOMAIN value.items : value.items[i] \in FieldValues
      BY <2>6, ItemTypes, PartsOfValues
    <3>3. DOMAIN u = DOMAIN value.items /\ u = [i \in DOMAIN u |-> u[i]]
      OBVIOUS
    <3>4. ASSUME NEW i \in DOMAIN value.items
          PROVE  Shown(u[i], under(i))
      <4>1. Named(under(i))
        <5> HIDE DEF under
        <5> QED BY <2>3, <3>1
      <4>2. u[i] = c[n][type.item][value.items[i]]
        OBVIOUS
      <4> HIDE DEF Named, Shown, u
      <4> QED BY <2>4, <3>2, <4>1, <4>2
    <3> HIDE DEF u, under
    <3>5. IsSequence(u) /\ \A i \in DOMAIN u : IsSequence(u[i]) /\ ToSet(u[i]) = words(under(i))
      <4> HIDE DEF words
      <4> QED BY <3>2, <3>3, <3>4, SequenceMap
    <3>6. IsSequence(s) /\ ToSet(s) = UNION { ToSet(u[i]) : i \in DOMAIN u }
      BY <3>1, <3>5, FlattenElements
    <3>7. words(leaves) = UNION { words(under(i)) : i \in DOMAIN value.items }
      BY <3>1
    <3>8. ToSet(s) = words(leaves)
      <4> HIDE DEF words
      <4> QED BY <3>3, <3>5, <3>6, <3>7
    <3> QED BY <3>6, <3>8
  <2>7. CASE type.kind = "shape" /\ value.kind = "map"
    <3> DEFINE name(i) == type.fields[i].name
               sub(i) == Entry(value, name(i))
               rest(i) == c[n][type.fields[i].type][sub(i)]
               below(i) == l[n][type.fields[i].type][sub(i)]
               u == [i \in DOMAIN type.fields |->
                       IF sub(i) = Null THEN <<>> ELSE <<name(i)>> \o rest(i)]
               under(i) == IF sub(i) = Null THEN {} ELSE {[name |-> name(i)]} \cup below(i)
    <3>1. leaves = UNION { under(i) : i \in DOMAIN type.fields } /\ s = FlattenSeq(u)
      BY <2>2, <2>3, <2>7 DEF ShowInside, LeavesInside
    <3>2. IsSequence(type.fields) /\ \A i \in DOMAIN type.fields :
            type.fields[i].type \in FieldTypes /\ sub(i) \in FieldValues
      BY <2>7, ItemTypes, PartsOfValues
    <3>3. DOMAIN u = DOMAIN type.fields /\ u = [i \in DOMAIN u |-> u[i]]
      OBVIOUS
    <3>4. ASSUME NEW i \in DOMAIN type.fields
          PROVE  Shown(u[i], under(i))
      <4>1. Named(under(i))
        <5> HIDE DEF under
        <5> QED BY <2>3, <3>1
      <4>2. u[i] = IF sub(i) = Null THEN <<>> ELSE <<name(i)>> \o rest(i)
        OBVIOUS
      <4> HIDE DEF u
      <4>3. CASE sub(i) = Null
        <5>1. u[i] = <<>> /\ under(i) = {}
          BY <4>2, <4>3
        <5> HIDE DEF under, sub
        <5> QED BY <5>1, EmptySequence
      <4>4. CASE sub(i) # Null
        <5>1. u[i] = <<name(i)>> \o rest(i) /\ under(i) = {[name |-> name(i)]} \cup below(i)
          BY <4>2, <4>4
        <5> HIDE DEF under, sub
        <5>2. Shown(rest(i), below(i))
          <6>1. Named(below(i))
            <7> HIDE DEF below
            <7> QED BY <4>1, <5>1
          <6> HIDE DEF Named, Shown
          <6> QED BY <2>4, <3>2, <6>1
        <5> HIDE DEF rest, below
        <5>3. IsSequence(<<name(i)>>) /\ ToSet(<<name(i)>>) = {name(i)}
          <6> HIDE DEF name
          <6> QED BY OneElement DEF ToSet
        <5>4. IsSequence(u[i]) /\ ToSet(u[i]) = {name(i)} \cup ToSet(rest(i))
          <6> HIDE DEF name, words
          <6> QED BY <5>1, <5>2, <5>3, SequenceConcat
        <5>5. TextsOf(source, [name |-> name(i)]) = {name(i)}
          BY DEF TextsOf
        <5>6. words(under(i)) = {name(i)} \cup words(below(i))
          <6> DEFINE nl == [name |-> name(i)]
          <6>1. TextsOf(source, nl) = {name(i)} /\ under(i) = {nl} \cup below(i)
            BY <5>1, <5>5
          <6> HIDE DEF nl, name
          <6> QED BY <6>1
        <5> HIDE DEF words, name
        <5> QED BY <5>2, <5>4, <5>6
      <4> QED BY <4>3, <4>4
    <3> HIDE DEF u, under, sub
    <3>5. IsSequence(u) /\ \A i \in DOMAIN u : IsSequence(u[i]) /\ ToSet(u[i]) = words(under(i))
      <4> HIDE DEF words
      <4> QED BY <3>2, <3>3, <3>4, SequenceMap
    <3>6. IsSequence(s) /\ ToSet(s) = UNION { ToSet(u[i]) : i \in DOMAIN u }
      BY <3>1, <3>5, FlattenElements
    <3>7. words(leaves) = UNION { words(under(i)) : i \in DOMAIN type.fields }
      BY <3>1
    <3>8. ToSet(s) = words(leaves)
      <4> HIDE DEF words
      <4> QED BY <3>3, <3>5, <3>6, <3>7
    <3> QED BY <3>6, <3>8
  <2>8. CASE /\ type.kind # "reference" /\ ~(type.kind = "array" /\ value.kind = "array")
             /\ ~(type.kind = "shape" /\ value.kind = "map")
    <3>1. leaves = {leaf} /\ s = RawTexts(value)
      BY <2>2, <2>3, <2>8 DEF ShowInside, LeavesInside
    <3>2. TextsOf(source, leaf) = ToSet(RawTexts(value))
      <4>1. ~IsReference(leaf) /\ "name" \notin DOMAIN leaf /\ leaf.value = value
        BY <2>8 DEF IsReference
      <4> HIDE DEF leaf
      <4> QED BY <4>1 DEF TextsOf, Range, ToSet
    <3> HIDE DEF leaf
    <3> QED BY <3>1, <3>2, PartsOfValues
  <2> QED BY <2>5, <2>6, <2>7, <2>8
<1>4. \A n \in 0 .. MaxNesting : n \in T
  <2> HIDE DEF T
  <2> QED BY <1>1, <1>2, <1>3, InductionUpTo
<1> QED BY <1>4

-----------------------------------------------------------------------------
(* What a manifest promises of its blueprint: its fields are there, and    *)
(* the references of each are among the models it names.                   *)
FieldPlanned(b, manifest, f) ==
  /\ HasField(b[manifest.base], f)
  /\ \E need \in BOOLEAN :
       LET loads == CollectReferences(b)[TypeOf(b[manifest.base], f)][need]
       IN /\ ~loads.unknown
          /\ loads.lookups \subseteq manifest.lookups
          /\ loads.inlines \subseteq manifest.inlines

PlanFits(b, manifest) ==
  /\ manifest.base \in DOMAIN b
  /\ \A f \in Range(manifest.fields) : FieldPlanned(b, manifest, f)

LEMMA ManifestFits ==
  ASSUME NEW b, NEW query, ~Failed(ManifestOf(b, query))
  PROVE  PlanFits(b, ManifestOf(b, query))
<1> DEFINE manifest == ManifestOf(b, query)
           model  == b[query.model]
           fields == Selected(model, query)
           asked  == FilterFields(query)
           parts == { CollectReferences(b)[TypeOf(model, f)][(f \in asked)] :
                        f \in Range(fields) \cup asked }
           loads  == Together(parts)
           astray == \E f \in Range(fields) \cup asked : ~HasField(model, f)
           plan == [base |-> query.model, fields |-> fields, method |-> query.method,
                    filter_fields |-> query.filters,
                    lookups |-> loads.lookups, inlines |-> loads.inlines]
<1>1. \A kind : Failed(Error(kind))
  BY DEF Failed, Error
<1>2. query.model \in DOMAIN b /\ manifest = PlanOf(b, query)
  BY <1>1 DEF ManifestOf
<1>3. PlanOf(b, query) =
        CASE fields = <<>> -> Error("EmptySelection")
          [] astray -> Error("UnknownField")
          [] loads.unknown -> Error("UnknownReference")
          [] OTHER -> plan
  BY Zenon DEF PlanOf
<1> HIDE DEF manifest, plan, astray, loads
<1>4. ~astray /\ ~loads.unknown /\ manifest = plan
  BY <1>1, <1>2, <1>3 DEF manifest
<1>5. manifest.base = query.model /\ manifest.fields = fields
        /\ manifest.lookups = loads.lookups /\ manifest.inlines = loads.inlines
  BY <1>4 DEF plan
<1>6. \A part \in parts : /\ part.lookups \subseteq loads.lookups
                          /\ part.inlines \subseteq loads.inlines
                          /\ ~part.unknown
  <2> HIDE DEF parts
  <2> QED BY <1>4 DEF loads, Together, Loads
<1>7. ASSUME NEW f \in Range(fields)
      PROVE  FieldPlanned(b, manifest, f)
  <2>1. HasField(model, f)
    BY <1>4 DEF astray
  <2>2. CollectReferences(b)[TypeOf(model, f)][(f \in asked)] \in parts /\ (f \in asked) \in BOOLEAN
    OBVIOUS
  <2> HIDE DEF parts
  <2> QED BY <1>5, <1>6, <2>1, <2>2 DEF FieldPlanned
<1> QED BY <1>2, <1>5, <1>7 DEF PlanFits, manifest

LEMMA FieldTypeIn ==
  ASSUME NEW b \in Blueprints, NEW m \in DOMAIN b, NEW f, HasField(b[m], f)
  PROVE  TypeOf(b[m], f) \in FieldTypes
<1> DEFINE i == IndexOf(FieldNames(b[m]), f)
<1>1. i \in DOMAIN b[m]
  BY DEF HasField, FieldNames, IndexOf
<1> HIDE DEF i
<1>2. b[m][i].type \in FieldTypes
  BY <1>1, HyleClientAssumption
<1> QED BY <1>2 DEF TypeOf, i

(* What was planned can be shown with the rows of the base model.          *)
LEMMA PlanIsShown ==
  ASSUME NEW b, NEW manifest, PlanFits(b, manifest), NEW source
  PROVE  LET view == ResolveAndView(b, manifest, source)
         IN /\ Failed(view) <=> manifest.base \notin DOMAIN source
            /\ ~Failed(view) =>
                 /\ LooksUp(view.outcome, source, manifest.lookups \cup manifest.inlines)
                 /\ view.outcome.rows = source[manifest.base].rows
                 /\ view.columns =
                      [i \in DOMAIN manifest.fields |->
                         [key |-> manifest.fields[i],
                          type |-> TypeOf(b[manifest.base], manifest.fields[i])]]
<1> DEFINE view == ResolveAndView(b, manifest, source)
           outcome == Resolved(manifest, source)
           columns == DeriveColumns(b, manifest)
           list == [i \in DOMAIN manifest.fields |->
                     [key |-> manifest.fields[i],
                      type |-> TypeOf(b[manifest.base], manifest.fields[i])]]
<1>1. columns = [columns |-> list]
  BY DEF PlanFits, FieldPlanned, DeriveColumns
<1>2. ~Failed(columns) /\ columns.columns = list
  <2> HIDE DEF list, columns
  <2> QED BY <1>1 DEF Failed
<1>3. Failed(outcome) <=> manifest.base \notin DOMAIN source
  BY DEF Resolved, Failed, Error
<1>4. manifest.base \in DOMAIN source =>
        /\ LooksUp(outcome, source, manifest.lookups \cup manifest.inlines)
        /\ outcome.rows = source[manifest.base].rows
  BY DEF Resolved, LooksUp
<1>5. view = IF Failed(outcome) THEN outcome
             ELSE IF Failed(columns) THEN columns
             ELSE [outcome |-> outcome, columns |-> columns.columns,
                   single  |-> manifest.method = "one" \/ outcome.one]
  BY DEF ResolveAndView
<1> HIDE DEF view, outcome, columns, list
<1>6. ~Failed(outcome) => ~Failed(view) /\ view.outcome = outcome /\ view.columns = list
  BY <1>2, <1>5 DEF Failed
<1>7. Failed(outcome) => Failed(view)
  BY <1>5
<1> QED BY <1>3, <1>4, <1>6, <1>7 DEF view, list

(* The leaves of Null show nothing.                                        *)
LEMMA NullShowsNothing ==
  ASSUME NEW type \in FieldTypes, NEW source
  PROVE  UNION { TextsOf(source, leaf) : leaf \in Leaves[type][Null] } = {}
<1> DEFINE leaf == [type |-> type, value |-> Null]
<1>1. Null \in FieldValues /\ RawTexts(Null) = <<>>
  BY NestingAssumption
<1>2. Leaves[type][Null] = LeavesInside(Leaves, type, Null)
  BY <1>1, RecursionIsWhole
<1>3. Leaves[type][Null] = {leaf}
  BY <1>2 DEF LeavesInside, Null
<1>4. DisplayFields(source, leaf) = {}
  BY DEF DisplayFields, LookupKeys, Null
<1>5. TextsOf(source, leaf) = {}
  <2>1. "name" \notin DOMAIN leaf /\ leaf.value = Null
    OBVIOUS
  <2> HIDE DEF leaf
  <2> QED BY <1>1, <1>4, <2>1 DEF TextsOf, Range
<1> HIDE DEF leaf
<1> QED BY <1>3, <1>5

(* A view of what was planned shows names.                                 *)
CellShowsNames(b, manifest, source, view, i, r) ==
  LET column == view.columns[i]
      value  == Get(view.outcome.rows[r], column.key, Null)
      shown  == DisplayValue(b, view.outcome, manifest.base, column.key, value)
      leaves == Leaves[column.type][value]
  IN /\ \A leaf \in leaves :
          IsReference(leaf) => leaf.type.entity \in manifest.lookups \cup manifest.inlines
     /\ Range(shown) = UNION { TextsOf(source, leaf) : leaf \in leaves }

LEMMA ViewShowsNames ==
  ASSUME NEW b \in Blueprints, NEW manifest, PlanFits(b, manifest),
         NEW source, SourceRows(source),
         NEW view, view = ResolveAndView(b, manifest, source), ~Failed(view),
         NEW i \in DOMAIN view.columns, NEW r \in DOMAIN view.outcome.rows
  PROVE  CellShowsNames(b, manifest, source, view, i, r)
<1> DEFINE named == manifest.lookups \cup manifest.inlines
           outcome == view.outcome
           model == b[manifest.base]
           f == manifest.fields[i]
           type == TypeOf(model, f)
           value == Get(outcome.rows[r], f, Null)
           shown == DisplayValue(b, outcome, manifest.base, f, value)
           leaves == Leaves[type][value]
<1>1. /\ LooksUp(outcome, source, named) /\ manifest.base \in DOMAIN source
      /\ outcome.rows = source[manifest.base].rows
      /\ i \in DOMAIN manifest.fields /\ view.columns[i].key = f /\ view.columns[i].type = type
  <2> DEFINE columns == [j \in DOMAIN manifest.fields |->
                           [key |-> manifest.fields[j],
                            type |-> TypeOf(b[manifest.base], manifest.fields[j])]]
  <2>1. /\ LooksUp(outcome, source, named) /\ manifest.base \in DOMAIN source
        /\ outcome.rows = source[manifest.base].rows /\ view.columns = columns
    BY PlanIsShown
  <2>2. i \in DOMAIN manifest.fields /\ columns[i].key = f /\ columns[i].type = type
    BY <2>1
  <2> HIDE DEF columns, type, f
  <2> QED BY <2>1, <2>2
<1>2. manifest.base \in DOMAIN b /\ FieldPlanned(b, manifest, f)
  BY <1>1 DEF PlanFits, Range
<1>3. type \in FieldTypes /\ HasField(model, f)
  BY <1>2, FieldTypeIn DEF FieldPlanned
<1>4. value \in FieldValues
  <2>1. Range(outcome.rows[r]) \subseteq FieldValues
    BY <1>1 DEF SourceRows
  <2> QED BY <2>1, NestingAssumption DEF Get, Range
<1>5. PICK need \in BOOLEAN :
        LET loads == CollectReferences(b)[type][need]
        IN ~loads.unknown /\ loads.lookups \cup loads.inlines \subseteq named
  BY <1>2 DEF FieldPlanned
<1>6. PICK c : Collects(c, b)
  BY CollectLevels
<1>7. PICK l : LeavesBy(l)
  BY LeavesLevels
<1>8. PICK s : ShowsBy(s, outcome)
  BY <1>1, LooksUpValues, ShowLevels
<1>9. MaxNesting \in 0 .. MaxNesting
  BY NestingAssumption
<1>10. CollectReferences(b) = c[MaxNesting] /\ Leaves = l[MaxNesting]
         /\ ShowValue(outcome) = s[MaxNesting]
  BY <1>6, <1>7, <1>8 DEF Collects, LeavesBy, ShowsBy
<1> HIDE DEF named, outcome, model, f, type, value
<1>11. \A leaf \in leaves : IsReference(leaf) => leaf.type.entity \in named
  <2> DEFINE loads == c[MaxNesting][type][need]
  <2>1. ~loads.unknown /\ loads.lookups \cup loads.inlines \subseteq named
    BY <1>5, <1>10
  <2>2. \A leaf \in l[MaxNesting][type][value] :
          IsReference(leaf) => leaf.type.entity \in loads.lookups \cup loads.inlines
    BY <1>3, <1>4, <1>6, <1>7, <1>9, <2>1, LeavesAreNamed
  <2> HIDE DEF loads
  <2> QED BY <1>10, <2>1, <2>2
<1>12. Range(shown) = UNION { TextsOf(source, leaf) : leaf \in leaves }
  <2>1. CASE value = Null
    <3>1. shown = <<>>
      BY <2>1 DEF DisplayValue
    <3>2. Range(<<>>) = {}
      BY EmptySequence DEF Range
    <3> HIDE DEF shown
    <3> QED BY <1>3, <2>1, <3>1, <3>2, NullShowsNothing
  <2>2. CASE value # Null
    <3>1. shown = ShowValue(outcome)[type][value]
      BY <1>2, <1>3, <2>2 DEF DisplayValue, type, model
    <3>2. ToSet(s[MaxNesting][type][value])
            = UNION { TextsOf(source, leaf) : leaf \in l[MaxNesting][type][value] }
      <4>1. \A leaf \in l[MaxNesting][type][value] :
              IsReference(leaf) => leaf.type.entity \in named
        BY <1>10, <1>11
      <4>2. \A n \in 0 .. MaxNesting : \A t \in FieldTypes, v \in FieldValues :
              (\A leaf \in l[n][t][v] : IsReference(leaf) => leaf.type.entity \in named) =>
                /\ IsSequence(s[n][t][v])
                /\ ToSet(s[n][t][v]) = UNION { TextsOf(source, leaf) : leaf \in l[n][t][v] }
        BY <1>1, <1>7, <1>8, LeavesAreShown
      <4> QED BY <1>3, <1>4, <1>9, <4>1, <4>2, Zenon
    <3> HIDE DEF shown
    <3> QED BY <1>10, <3>1, <3>2 DEF Range, ToSet
  <2> QED BY <2>1, <2>2
<1> QED BY <1>1, <1>11, <1>12 DEF CellShowsNames, outcome, named, value

-----------------------------------------------------------------------------
(* What a screen has been given.                                           *)
PlannedOf(s) ==
  /\ s.planned \in Blueprints
  /\ \E ask \in Asks : s.manifest = ManifestOf(s.planned, QueryOf(ask))
  /\ ~Failed(s.manifest)
  /\ SourceRows(s.source)

PlannedScreen(manifest, source, planned) ==
  [state |-> "planned", manifest |-> manifest, source |-> source, planned |-> planned]

GoodScreen(s) ==
  \/ s.state = "away"
  \/ s.state = "failed" /\ s.error # "PlanNotShown"
  \/ s = PlannedScreen(s.manifest, s.source, s.planned) /\ PlannedOf(s)
  \/ /\ s.state = "shown" /\ PlannedOf(s)
     /\ s.steady => s.view = ResolveAndView(s.planned, s.manifest, s.source) /\ ~Failed(s.view)

ScreenInv ==
  /\ blueprint \in Blueprints /\ world \in Worlds
  /\ DOMAIN screen = Viewer
  /\ \A c \in Viewer : GoodScreen(screen[c])

LEMMA PlannedFits ==
  ASSUME NEW s, PlannedOf(s)
  PROVE  PlanFits(s.planned, s.manifest)
BY ManifestFits DEF PlannedOf

LEMMA WorldRows == \A w \in Worlds : SourceRows(w)
<1> SUFFICES ASSUME NEW w \in Worlds, NEW m \in DOMAIN w
             PROVE  /\ IsSequence(w[m].rows)
                    /\ \A i \in DOMAIN w[m].rows : Range(w[m].rows[i]) \subseteq FieldValues
  BY DEF SourceRows
<1> QED BY HyleClientAssumption DEF IsSequence, ToSet, Range

LEMMA PlanKeeps ==
  ASSUME NEW c \in Viewer, NEW ask \in Asks, Plan(c, ask), ScreenInv
  PROVE  \E s : Shows(c, s) /\ GoodScreen(s)
<1> DEFINE manifest == ManifestOf(blueprint, QueryOf(ask))
           s == PlannedScreen(manifest, <<>>, blueprint)
           NotReady == Broken("NotReady")
           NoManifest == Broken("NoManifest")
<1>1. Shows(c, IF ~IsReady THEN NotReady ELSE IF Failed(manifest) THEN NoManifest ELSE s)
  BY Zenon DEF Plan, PlannedScreen
<1>2. GoodScreen(NotReady) /\ GoodScreen(NoManifest)
  BY DEF GoodScreen, Broken
<1>3. ASSUME ~Failed(manifest)
      PROVE  GoodScreen(s)
  <2>1. SourceRows(<<>>)
    BY EmptySequence DEF SourceRows
  <2>2. s.planned = blueprint /\ s.manifest = manifest /\ s.source = <<>> /\ s.state = "planned"
    BY DEF PlannedScreen
  <2>3. s = PlannedScreen(s.manifest, s.source, s.planned)
    BY <2>2, Zenon
  <2> HIDE DEF s
  <2>4. PlannedOf(s)
    <3> HIDE DEF manifest
    <3>1. \E a \in Asks : s.manifest = ManifestOf(s.planned, QueryOf(a))
      BY <2>2 DEF manifest
    <3> QED BY <1>3, <2>1, <2>2, <3>1 DEF PlannedOf, ScreenInv
  <2> QED BY <2>3, <2>4 DEF GoodScreen
<1> HIDE DEF s, manifest, NotReady, NoManifest
<1> QED BY <1>1, <1>2, <1>3, Zenon

LEMMA FetchKeeps ==
  ASSUME NEW c \in Viewer, NEW m, Fetch(c, m), ScreenInv
  PROVE  \E s : Shows(c, s) /\ GoodScreen(s)
<1> DEFINE s == screen[c]
           source == [n \in DOMAIN s.source \cup {m} |-> IF n = m THEN world[m] ELSE s.source[n]]
           t == PlannedScreen(s.manifest, source, s.planned)
<1>1. s = PlannedScreen(s.manifest, s.source, s.planned) /\ PlannedOf(s) /\ m \in DOMAIN world
  BY DEF Fetch, ScreenInv, GoodScreen
<1>2. Shows(c, t)
  <2>1. Shows(c, [s EXCEPT !.source =
                    [n \in DOMAIN @ \cup {m} |-> IF n = m THEN world[m] ELSE @[n]]])
    BY DEF Fetch
  <2> HIDE DEF source
  <2>2. [s EXCEPT !.source = source] = t
    BY <1>1 DEF PlannedScreen
  <2> HIDE DEF s, t
  <2> QED BY <2>1, <2>2 DEF source
<1>3. SourceRows(source)
  <2>1. SourceRows(s.source) /\ SourceRows(world)
    BY <1>1, WorldRows DEF PlannedOf, ScreenInv
  <2>2. \A n \in DOMAIN source : \/ n \in DOMAIN world /\ source[n] = world[n]
                                 \/ n \in DOMAIN s.source /\ source[n] = s.source[n]
    BY <1>1
  <2> HIDE DEF source, s
  <2> QED BY <2>1, <2>2 DEF SourceRows
<1>4. t.planned = s.planned /\ t.manifest = s.manifest /\ t.source = source
  BY DEF PlannedScreen
<1>5. t = PlannedScreen(t.manifest, t.source, t.planned)
  BY <1>4, Zenon
<1> HIDE DEF source, s, t
<1>6. PlannedOf(t)
  BY <1>1, <1>3, <1>4 DEF PlannedOf
<1> QED BY <1>2, <1>5, <1>6 DEF GoodScreen

LEMMA ShowKeeps ==
  ASSUME NEW c \in Viewer, Show(c), ScreenInv
  PROVE  \E s : Shows(c, s) /\ GoodScreen(s)
<1> DEFINE s == screen[c]
           view == ResolveAndView(blueprint, s.manifest, s.source)
           t == [state |-> "shown", manifest |-> s.manifest, source |-> s.source,
                 steady |-> s.planned = blueprint, planned |-> s.planned, view |-> view]
           known == s.planned = blueprint /\ s.manifest.base \in DOMAIN s.source
           NotShown == Broken("PlanNotShown")
           NoView == Broken("NoView")
<1>1. PlannedOf(s)
  BY DEF Show, ScreenInv, GoodScreen
<1>2. Shows(c, IF ~Failed(view) THEN t ELSE IF known THEN NotShown ELSE NoView)
  BY Zenon DEF Show
<1>3. known => ~Failed(view)
  BY <1>1, PlannedFits, PlanIsShown
<1>4. GoodScreen(NoView)
  BY DEF GoodScreen, Broken
<1>5. ASSUME ~Failed(view)
      PROVE  GoodScreen(t)
  <2>1. t.state = "shown" /\ t.planned = s.planned /\ t.manifest = s.manifest
          /\ t.source = s.source /\ t.view = view
    OBVIOUS
  <2>2. t.steady <=> s.planned = blueprint
    BY Zenon
  <2> HIDE DEF t
  <2>3. t.steady => t.view = ResolveAndView(t.planned, t.manifest, t.source)
    BY <2>1, <2>2
  <2> HIDE DEF view, s
  <2>4. PlannedOf(t)
    BY <1>1, <2>1 DEF PlannedOf
  <2> QED BY <1>5, <2>1, <2>3, <2>4 DEF GoodScreen
<1> HIDE DEF t, view, s, known, NotShown, NoView
<1> QED BY <1>2, <1>3, <1>4, <1>5, Zenon

LEMMA ScreenKept ==
  ASSUME ScreenInv, ClientNext
  PROVE  ScreenInv'
<1>1. ASSUME NEW c \in Viewer, NEW s, Shows(c, s), GoodScreen(s)
      PROVE  ScreenInv'
  BY <1>1 DEF ScreenInv, Shows
<1>2. ASSUME UNCHANGED clientVars
      PROVE  ScreenInv'
  BY <1>2 DEF ScreenInv, clientVars
<1>3. ASSUME NEW c \in Viewer, NEW ask \in Asks, Plan(c, ask)
      PROVE  ScreenInv'
  BY <1>1, <1>3, PlanKeeps
<1>4. ASSUME NEW c \in Viewer, NEW m, Fetch(c, m)
      PROVE  ScreenInv'
  BY <1>1, <1>4, FetchKeeps
<1>5. ASSUME NEW c \in Viewer, Show(c)
      PROVE  ScreenInv'
  BY <1>1, <1>5, ShowKeeps
<1>6. ASSUME NEW c \in Viewer, Leave(c)
      PROVE  ScreenInv'
  <2>1. Shows(c, Away) /\ GoodScreen(Away)
    BY <1>6 DEF Leave, GoodScreen, Away
  <2> QED BY <1>1, <2>1
<1>7. ASSUME Replace
      PROVE  ScreenInv'
  BY <1>7 DEF Replace, ScreenInv
<1> QED BY <1>2, <1>3, <1>4, <1>5, <1>6, <1>7 DEF ClientNext, LoaderStep

(* What was planned is shown while its base model is there, and its        *)
(* references show the names that were fetched and nothing else, for any   *)
(* blueprints, rows, queries and viewers and types of any nesting.         *)
THEOREM ClientShowsNames == ClientSpec => []PlannedViewShowsNames
<1>1. ClientInit => ScreenInv
  BY DEF ClientInit, ScreenInv, GoodScreen, Away
<1>2. ScreenInv /\ [ClientNext]_programVars => ScreenInv'
  <2>1. ScreenInv /\ UNCHANGED programVars => ScreenInv'
    BY DEF ScreenInv, programVars, clientVars
  <2> QED BY <2>1, ScreenKept
<1>3. ScreenInv => PlannedViewShowsNames
  <2> SUFFICES ASSUME ScreenInv, NEW c \in Viewer
               PROVE  LET s == screen[c]
                      IN /\ s.state = "failed" => s.error # "PlanNotShown"
                         /\ s.state = "shown" /\ s.steady /\ s.planned = blueprint =>
                              \A i \in DOMAIN s.view.columns, r \in DOMAIN s.view.outcome.rows :
                                CellShowsNames(blueprint, s.manifest, s.source, s.view, i, r)
    BY Zenon DEF PlannedViewShowsNames, CellShowsNames
  <2> DEFINE s == screen[c]
  <2>1. GoodScreen(s)
    BY DEF ScreenInv
  <2>2. s = PlannedScreen(s.manifest, s.source, s.planned) => s.state = "planned"
    BY DEF PlannedScreen
  <2> HIDE DEF s
  <2>3. s.state = "failed" => s.error # "PlanNotShown"
    BY <2>1, <2>2 DEF GoodScreen
  <2>4. ASSUME s.state = "shown", s.steady, s.planned = blueprint,
               NEW i \in DOMAIN s.view.columns, NEW r \in DOMAIN s.view.outcome.rows
        PROVE  CellShowsNames(blueprint, s.manifest, s.source, s.view, i, r)
    <3>1. /\ PlannedOf(s) /\ ~Failed(s.view)
          /\ s.view = ResolveAndView(blueprint, s.manifest, s.source)
      BY <2>1, <2>2, <2>4 DEF GoodScreen
    <3>2. PlanFits(blueprint, s.manifest)
      BY <2>4, <3>1, PlannedFits
    <3>3. blueprint \in Blueprints /\ SourceRows(s.source)
      BY <2>4, <3>1 DEF PlannedOf
    <3> QED BY <2>4, <3>1, <3>2, <3>3, ViewShowsNames
  <2> QED BY <2>3, <2>4 DEF s
<1> QED BY <1>1, <1>2, <1>3, PTL DEF ClientSpec
=============================================================================
