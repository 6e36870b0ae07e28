# A verification project for libhyle

libhyle keeps *sources*: named tables of rows whose fields are described by a schema, held in
hash maps of the corm library, searched through the lemma full-text library, and read through
queries that come as URL query strings; Rust and TypeScript programs plan, resolve and show views
of such data through a crate and a WebAssembly client. This directory holds TLA+ models of the C core
(`src/src/*.c`), of the form validator of the npm package and of the client side of the crate, the TLC configurations
that check them, and proofs that the TLA+ proof system checks. Paths below are relative to the repository root, called `src/` here: `registry.c` is
`src/src/registry.c`, `registry.h` is `src/include/hyle/registry.h`.

## 1. Inventory of the system

| Part | State it keeps | Operations | Talks to | Models |
|---|---|---|---|---|
| Registry entries (`registry.c` 17-263) | a table of at most 64 entries; per entry the handles of a row map, a fields map, a token map, and for ordered sources an order map and a loaded map | register, ordered_register, find | corm (open, close) | `RegistryHandles` |
| Row store (`registry.c` 102-172, 267-335) | which rows there are, fields per row, token streams per row and field | put, put_tokens, del, field_get_str | corm, lemma (token codec) | `RowData`, `RowStore`, `PlainSource` |
| Full-text index (`registry.c` 723-791) | lemma entries, a dirty flag | marked by every write, rebuilt by the next query that needs it | row store, derive callbacks | `RowStore`, `PlainSource`, `OrderedSource`, `TextReads` |
| Ordered sources (`registry.c` 1300-1400, 1485-1654) | count and loaded flag per partition; rows under `{partition}__{NNNN}` | count, key_at, append, insert_at, remove_at, clear, save, lazy load | row store, load and save callbacks of the program | `OrderedSource`, `OrderedList`, `ZeroList` |
| Query pre-filters (`registry.c` 350-1099) | temporary row sets of one query | full-text, reference by identity, free text | row store, index | `QueryPipeline`, `SourceQuery`, `RegistryHandles` |
| View pipeline (`view.c`) | temporary row sets of one query | filter, sort, paginate, apply_view | row store | `QueryPipeline`, `SourceQuery` |
| Query parser (`query.c`) | a `hyle_query_t` and its arrays | parse_query, query_clear | the caller of a query | `QueryParse` |
| Derive registry (`registry.c` 40-88, 175-186) | a table of at most 32 callbacks | derive_register, derive_call | the index and its rebuild; callbacks of the program | `TextReads`, `PlainSource` |
| Decode ring (`registry.c` 90-100) | eight buffers and a counter per thread | alloc_decode_slot | field_get_str; whoever keeps the text | `TextReads`, `NativeReads` |
| Row export (`registry.c` 1160-1287, `source.rs` 619-650) | the blocks of one copy | row_set_to_rows, rows_free, row_set_to_rust | row sets of queries; Rust callers | `RowExport`, `NativeReads` |
| Automatic records (`registry.c` 1400-1481) | none | auto_record | corm's type descriptions | not modelled |
| Validation (`purify.c`) | the error array of one call | purify_row, errors_free | its caller: a C server, the native addon | `Purify` |
| npm package (`npm/dist/index.js`, `npm/native/hyle_napi.c`, `npm/wasm/hyle_wasm.c`) | values, last check and listeners of a form; the schema | setField, subscribe, unsubscribe, addField, validateRow | WebAssembly in the browser, `purify.c` on Node; listeners of the program | `FormValidator`, `Purify` |
| Blueprint (`blueprint.c`, `field.c`) | a `hyle_manifest_t` and its arrays | blueprint_manifest, manifest_clear | the parser's query; whoever renders | `Blueprint` |
| Values and contexts (`value.c`, `ctx.c`) | four corm maps and a counter per context | ctx_new, ctx_free; string, array, map, push, set, get, to_json | corm; languages that exchange values | `ValuePool` |
| URLs (`url.c`) | none | decode | the parser | a CONSTANT of `QueryParse` |
| Rust crate (`blueprint.rs`, `view.rs`, `raw.rs`, `forma.rs`, `wasm.rs`) | a blueprint; manifests and outcomes are values | manifest, resolve, derive_columns, display_value, forma_to_query, resolve_and_view | the program's rows; JavaScript as WebAssembly | `RustBlueprint`, `HyleClient` |
| TypeScript client (`client.ts`) | the module, the load promise | load, and one method per function of the module | the crate as WebAssembly; screens of the program | `WasmLoader`, `HyleClient` |
| Zig bindings, the other files of the crate | their own copies of the structures | | the C core | not modelled |

Nothing in the C core runs concurrently: a call runs to its end before the next one begins, and
the only other actors are the callbacks a call makes. In the client, callers interleave where they await. What makes the code hard is elsewhere:

- *data kept twice* - a row is in the row map and in the fields map, its text in the fields map
  and in the token map, its words in the index, its position in its key and in the count of its
  partition. Different functions write the copies, and each must leave them in agreement;
- *a lazily rebuilt index*, stale until a query looks;
- *calls of many steps that may be cut off* - the shifting loops of insert_at and remove_at,
  with the process lost in between and only what was saved left;
- *callbacks that fail*, and results that are dropped;
- *handles* - numbers that corm hands out again after a close;
- *a pipeline* whose stages drop the filters they have handled and pass smaller sets on, with
  tables of fixed size on the way;
- *numbers at their limits* - 32-bit page arithmetic, position 0, position n;
- *re-entrance* - a listener of the form validator runs inside the loop that calls it, and writes,
  subscribes, unsubscribes or throws from there;
- *rules written three times* - in C, in a WebAssembly export and in JavaScript;
- *texts that are lent* - a read returns one of eight buffers, and a callback in the middle of a search takes buffers too;
- *a promise shared by all callers*, kept whatever becomes of it;
- *types that nest*, walked by one recursion when a view is planned and by another when it is shown.

What has to hold, part by part: the copies of a row agree (row store, index); a partition is a list
(ordered sources) and comes back from storage as it was saved; every map has one owner and none is
lost (registry); a query's answer is what its filters mean and its pages cut that answer in pieces
(pre-filters, view); a query string is neither lost nor misread up to the manifest, which names what has to be
loaded and nothing else, and memory is freed on every way out (parser, blueprint, validation); subscribers end with the state of the form, and a server agrees with the browser (npm package); no method runs on a module that is not
ready, and what a plan fetches is what its view needs (client, crate); an export is complete or empty and leaves nothing behind. PROJECT.json lists the hazards one by one with their lines.

## 2. Modules

### RowData, RowStore

`RowData` is the data of one row: `[Field -> Value or NULL]`, NULL for "no entry". `Record`
separates the two layouts of `fields_hd`: a typed record map, whose struct is allocated and deleted
as a whole, and a plain map with one entry per composite key `row:field`. An item (the arrays
`names`/`values` of a put) is a function on the fields it names; a NULL value is stored as the
empty string.

`RowStore` has the maps of one entry as variables: `row_hd`, `fields_hd`, `tokens_hd`,
`lemma_index`, `lemma_dirty`, and `derived`, what the derive callbacks would return. Its operators
are the row operations, one each: `RegistryPut`, `RegistryPutTokens`, `RegistryDel`, `FieldGetStr`,
and `RefreshIndex`, the rebuild at the head of `prefilter_fts`. A token stream is represented by the
text it decodes to; `Encodable` and `Decodable` are the texts for which the codec succeeds (at most
1024 tokens, at most one buffer). A put that cannot allocate the buffer of a stream (`registry.c` 303) goes on without it and
returns 0; `RegistryPutLosing` is a put with the fields it lost so, and `MallocFails` says whether there may be any.

### PlainSource

A source used through the row operations and full-text queries, registered again at any time, with
derive callbacks whose results change behind its back. Its specification is `PlainSpec`; its type invariant is
that of the store, `RowStoreTypeOK`.

### OrderedSource, OrderedList, ZeroList

`OrderedList` is what an ordered source promises: a list per partition, edited by position, and a
saved copy per partition that comes back after the memory is lost. `ZeroList` has the lists,
indexed from 0. `OrderedSource` is the code: every iteration of a shifting loop is a step
(`ShiftUp`, `ShiftDown`, one `ordered_move_key` each), the start and the end of a call are steps,
and so is the save callback. Every positional call but `hyle_ordered_save` begins with `ordered_ensure_loaded`; the model
has that part as `EnsureLoaded` (which is also all `hyle_ordered_count` does), and those calls
are enabled when the partition is loaded, so a call on a partition that is not is the two steps one
after the other. `hyle_ordered_save` (`ExplicitSave`) begins with the callback at once, loaded or not; a callback that asks for the count, or
for a key, loads the partition then (`EnsureLoaded` during `SaveCall`). `Restart` is the loss of the process, or a new registration, at any step.

`hyle_ordered_key_at` looks at no count, so a program may put on the key of an item that is not there. `UpdateItem` is a put on any
position below `MaxLen`; `StrayPuts` says whether the program does this without comparing the position with the count, and
the history variable `strays` has the keys where it did. A move of a record whose buffer cannot be allocated (`ArrivedRows`)
leaves an item without fields, which `OrderedList` has as a step, `LoseFields`.

`ImplementsList` says that the code implements the list under a mapping that leaves out the hole a
shift in progress carries along.

### RegistryHandles

The same registry seen from the side of its handles: entries, the query in progress and the row sets
that callers hold, each a few numbers; `Opens` is `corm_open`, which gives a number that is not
in use or fails. Registration is one action per outcome (`RegisterRowsFail`,
`RegisterFieldsFail`, `Register`, `OrderedRegister`); a query is one action per map it
opens or narrows, in the order of the stages. `stale` is a history variable: some registration has
failed on its fields map.

### QueryData, QueryPipeline, SourceQuery

`QueryData` is what query strings and the queries of a source share: the null pointer and the width of page numbers.
`QueryPipeline` has no variables: the stages of `hyle_registry_query` as functions from row
sequences to row sequences (`PrefilterFts`, `PrefilterMultiRef`, `PrefilterQ`, `FilterRows`,
`SortRows`, `Paginate`) and their composition `RegistryQuery`; `Only` is a pass over a row map. How two texts match is left to
CONSTANT operators; which stage handles which filter, what it drops, how values of one field
combine and where tables end is the model's. `SourceQuery` is a client that walks through the pages
of a query, one call each, while rows are put; `FaultyQuery` is a query some of whose maps do not open (`failed` says
which), so that stages end half way and hand their filters on, or lose them.

### TextReads, RowExport, NativeReads

`TextReads` takes the row store apart where `RowStore` has one step. A decoded text lies in a buffer of `ring`, and `texts`
remembers the last ones handed out, with their age in later decodings. A rebuild of the index is `RebuildStart`, one
`RebuildField` for each row and searchable field, and `RebuildEnd`; a derive callback reads a text of the row (which takes a buffer) and may put into the
row (which marks the index dirty that is being built, a mark that `RebuildEnd` takes away). `wrote` and `unknown` are history
variables: the rows callbacks wrote to during the last rebuild and the derived fields that had no callback then.

`RowExport` is `row_set_to_rust` and the C functions it calls, one allocation or copied field a step, over blocks named by
what they hold. `NativeReads` composes the two: one thread of a program in another language that reads, writes, searches and
takes the rows of a query over as its own. A copied text that is a null pointer ends the process in `CStr::from_ptr` (`Receive`).

### WasmLoader, RustBlueprint, HyleClient

`WasmLoader` is `createHyleClient`: the steps of the function behind `loadPromise` from one turn of the event loop to
the next (`ModuleArrives`, `ModuleInitialised`, `AssignWasm`, `Resolve`, or `Reject` at a point where the program's promises can fail), and
callers that call `load` and go on when they are told (`Resume`). `heard` is a history variable.

`RustBlueprint` has no variables: the functions of the crate over blueprints, queries and rows as values
(`ManifestOf`, `Resolved`, `DeriveColumns`, `ResolveAndView`, `DisplayValue`, `FormaToQuery`). Types nest, and
`CollectReferences` and `ShowValue` are the two recursions over them, each a function of how many levels are left, whose single level is
`ReferencesOf` or `ShowInside` and whose step inwards is `Inside`. `FieldTypes` and `FieldValues` are the types and values there are, with those they are made of. What is displayed is the
sequence of the texts it is put together from; separators are left out, and how a value that is not walked into is written
is the CONSTANT operator `RawTexts`.

`HyleClient` composes the two: the screens of a program share a client, plan a query with the blueprint of the
moment (whether or not they awaited a load), fetch the models of the manifest one by one, resolve and show, while the
program replaces its blueprint and its rows.

### QueryParse, Blueprint (on QueryData)

`QueryParse` is `hyle_parse_query`, one parameter a step; each allocation may fail. Decoding, splitting at
commas and `atol` are CONSTANT operators. `Blueprint` goes on from there with `hyle_blueprint_manifest`, one filter,
included field or lookup a step, for any source of a blueprint or an unknown one; `stage` is the loop the call is in,
and `unknown` and `nomem` are the two reasons it returns -1. The program calls it when a query has been parsed,
possibly again for another source, and clears query and manifest in any order. The properties go
from the query string to the manifest, past the structure in between.

### ValuePool

A context and the values in it. `hyle_val_to_json` is the one operation with an inside: `JsonBegin`, `JsonSkip` (a key of another map), `JsonComma`,
`JsonTake`, `JsonGrow` (one doubling), `JsonPiece`, `JsonEnd`, with `call` its local variables and `held` its memory and
cursor; `hyle_val_array_push` and `hyle_val_map_set` are such a call and what `Return` does with its text. A text is its
tokens, its length and the numbers of its characters that are escaped: quotes and backslashes, line breaks and tabs, and control
characters that become six (`\u00xx`), so that the text of a text has the right
length again. A name that cannot be escaped for want of memory ends the process (`JsonCrash`, `value.c` 280), and so may a text
that overruns the buffer of `json_escape` (`Overruns`); if it does not, the model goes on with the text, and what the overrun did to other blocks is not followed.

### Purify, FormValidator

`Purify` has the rules: `Breaks`, in the order of `Rules`, are those of `hyle_purify_row`, and
`PurifyStart`, `PurifyField`, `PurifyReturn`, `PurifyErrorsFree` are a call of it, one field a step, where `held` is what
has been allocated and not freed. `NativeField` and `NativeText` are what the native addon passes
on; `WasmRule`, `JsPattern` and `ValidateRow` are the check in the browser. How long a text is, which number it is and
which patterns it matches (a relation for POSIX and one for RegExp) are CONSTANT operators.

`FormValidator` is a form in the browser and the server its row is sent to. `notify` is a loop that
calls listeners, and a listener may start another one, so the loops in progress are a
stack of frames; JavaScript's rules for a Set that changes while it is iterated are in `Subscribe` and
`Unsubscribe`. `told` and `excused` are history variables.

Every definition whose name is preceded by a comment beginning "Mutant:" is a variant that a plausible slip in
the code would give; no specification uses it. It is there to show, by putting it in the place of the definition it
follows, that the properties would notice.

## 3. What TLC checks

| Run | Instance | Question and result |
|---|---|---|
| PlainSource | 2 rows, 1 field, 1 derived field, texts {empty, a} | put, put_tokens, del, register, provider change and search in any order: index, token map and fields map agree; a put is read back, except where no stream could be written and an earlier one hides the value; of a deleted record only token streams are left |
| OrderedSource | 1 partition, up to 4 items of a record with 2 fields, no token streams, failing allocations | what returned is saved, refinement of the list, calls return |
| OrderedFaults | 1 partition, up to 3 items of a plain map with token streams, failing callbacks and allocations, puts on keys of missing items | contiguity below the count, no rows beyond it but the program's own, and an index that is never behind the maps |
| OrderedTokens (violation) | 1 partition, 2 items | token streams do not follow a shift, so reads return another item's text |
| OrderedLoadFailure (violation) | 1 partition, failing load | an append is carried out, and saved, after a failed load |
| RegistryHandles | 1 source, all opens may fail | no map leaks; every map has one owner while no registration failed on its fields map |
| SourceQuery | 3 rows of 4 kinds, 5 fields, up to 3 filters, 8-bit pages; up to 2 maps of a query that do not open | answers are what filters mean, or lose a reference and nothing else; pages, totals, sorting |
| QueryToManifest | every string of up to 3 of 23 parameters, room for 2 overrides; 2 sources of 6 and 2 fields and an unknown one | overrides; what a manifest asks for (filters, inclusions, page, size, term, sort), names and loads; the memory of both |
| ValuePool | up to 3 values, 6 calls, 2 map keys, texts with a quote, a tab and control characters, buffers that start at 4 | buffers, memory, and who changes what |
| FormValidator | 6 schemas of up to 3 fields, 4 values, 2 listeners, 2 writes, 2 nested loops, failing allocations | updates reach every subscriber and nobody else; under shared rules a server refuses the same fields and shows no error the browser does not; errors are freed |
| HyleClient | 2 callers, one of them a screen; 3 blueprints with references in lists, in shapes and in lists of shapes, one of them torn; 2 sets of rows; 4 queries and 3 formas | readiness, one answer to all, loads settle, names instead of ids |
| NativeReads | 2 rows, a searched field, one that is not, a derived one; 2 buffers, 2 callbacks (one of them writes), failing allocations | decoded texts stay, what a clean index may miss, exports are whole or empty and free |

The two violations are disagreements between the code and its own documentation; PROJECT.json quotes both sides. Section 6 has
others, where no run was spent on showing what reading the code shows.

With two workers the passing runs take between a few seconds and some minutes. The distinct states of those that
have most are 3.8 million (NativeReads), 1,377,716 (FormValidator), 959,300 (ValuePool), 419,483 (QueryToManifest) and 391,541
(OrderedFaults); PlainSource has 92,745 and OrderedSource 79,671.

**Bounds.** Two rows suffice for the row store, whose operations touch one row at a time: one that is
written and one that must not change. An ordered partition of four items has a first and a
last one and two between them, and shifts of up to three steps in which a later one could undo an earlier one. One partition is enough where no name is a
prefix of another's keys: a call touches the keys of its own partition, and the theorems of section 4 are for any number of them. Its items name one of two fields,
so that the other one shows whether a row is fresh or has inherited something. Positions outside `0 .. MaxLen - 1`, for which `hyle_ordered_key_at` gives keys as
well, are not modelled. `MaxHandle` is 11 so that numbers never run out by the bound: five maps
of the entry, five of a query, one row set; that one source is enough is what the proof for any number of them shows. Three filters are needed for one
field to be asked for two values beside another field; `MaxFields` and `MaxValues` (16 and 32 in
the code) are 3 and are not exceeded, because beyond them the documented meaning is lost (section 6).
Pages are 8 bits wide, more than the largest product of page and size in a walk. Three parameters are an override before, after and on both sides of a
filter, and more overrides than there is room for; three filters can refer to
one target, another, and the first again. Three values are a container, one that is put into it, and a
third that must not change, or a container put into itself; a buffer that starts at 4 grows at the first elements, as one of 256 does at longer ones. A form needs two listeners, one that acts while the other one
waits for its turn, and two writes (`MaxWrites`), one inside the other (`MaxDepth` loops); the schemas have each kind of
rule once.
The buffers of token streams (PlainSource, OrderedFaults) and of shifted records (OrderedSource) may fail there (`MallocFails`); NativeReads, which is about reads, lets them succeed.
Two buffers (`Slots`) instead of eight bring a text within one decoding of its end, and `IdxModulus` = 2 makes the counter wrap at every
turn; two places in the callback table hold a key registered twice, or a full table. `FirstCapacity` = 1 makes the arrays
of an export grow at a second field, and `MaxAbsent` = 1 is the number of copies of texts that may be null in one export: the first one decides its end. Two failing
opens of a query (`MCFaultyQueries`) are one before and one after a set, or a set and an intersection. One screen
beside a caller that only loads (`Viewer`) is one that plans while another one waits. `MaxNesting` is 3, a list of a shape of a
reference; TLC evaluates `NestingAssumption`, so no type of the instance is cut off.

**Symmetry** is used in `SourceQuery` and `NativeReads` (row ids) and in `FormValidator` (listeners); there is no liveness there.

**Fairness.** `OrderedSource` has weak fairness of `CallStep`: a call that has begun takes its next
step. The code is single-threaded and a call contains no wait; its callbacks are assumed to return.
No fairness is assumed of callers, nor of `Restart`. `CallReturns` then says that no shifting
loop runs on for ever. `HyleClient` has weak fairness of `Settle` and of each caller's `Resume`: the event loop runs the
reactions of a promise that is settled, and the program's loader and `default()` answer or fail in the end. Nothing is assumed of
the screens. `EveryLoadSettles` then says that a caller of `load` is told how it ended.

**Deadlock** is checked everywhere except in QueryToManifest, where the program ends with its query, and in ValuePool and NativeReads,
where the process may be lost (a text that is a null pointer, a buffer that was overrun).

## 4. What is proved

Every invariant and every safety action property of the passing runs is the statement of a
theorem, for every value of the constants that the ASSUMEs allow. The theorems are in these modules, one for each part of
the system:

| Module | About | Inductive invariants |
|---|---|---|
| `RowSources_proofs` (with the lemmas of `RowStore_proofs`) | plain and ordered sources, the refinement | `RowStoreTypeOK`, `IndexIsCurrent`, `ContiguousInv`, `SavedInv`, `DataInv` |
| `RegistryHandles_proofs` | owners of maps | `HandlesInv` |
| `Queries_proofs` | query strings, manifests, queries and their pages | `ParseInv`, `ManifestInv`, `SourceInv` |
| `FormValidator_proofs` | validation and the form | `CallInv`, `FormInv`, `RowInv` |
| `ValuePool_proofs` | values and contexts | `BufferInv` |
| `ClientSide_proofs` | client, planned views, decoded texts, index rebuilds, exports | `LoaderInv`, `ScreenInv`, `RingInv`, `IndexInv`, `ExportInv` |

`SequenceLemmas` has the facts on sequences, folds and JavaScript's Sets that they share. Two of them stand for
induction, which the provers cannot be given as a theorem about predicates: `InductionUpTo` says of a *set* of numbers
that it holds all numbers up to n when it holds 0 and each successor, and `RecursionUpTo` that a function defined by recursion up to n meets
its equations (`IterationUpTo`, the same for one step that is repeated); both rest on the least number of a set (`FirstExists`). What folds over filters, fields and rows compute is proved with them.

- `PlainTypeCorrect`: `PlainSpec => []RowStoreTypeOK`.
- `PlainSearchAgrees`: a clean index answers exactly with the live rows under the text a read
  returns, assuming that token streams decode (`Decodable = Value`). `SearchAgreesWithRead` is
  not inductive: a deletion followed by a put changes both sides at times when the index is dirty. The
  invariant is `IndexIsCurrent` (in `RowStore_proofs`): while the index is clean it equals what a
  rebuild would give, derived fields excepted. Each write either marks the index or touches nothing it is built from.
- `PlainFindsLive`, `PlainPutReadBack`: a clean index holds live rows only and the tokens of now; a put is read back wherever its
  stream was written, or where no stream that decodes is in its way. They need no more than `RowStoreTypeOK`: each
  write that matters to them marks the index, enters the row, or replaces both the tokens and the field it reads.
- `PlainDeletedLeavesTokens`: what can be read of a deleted row of typed records (`Record = TRUE`), and is read again after a put
  of other fields, are token streams and nothing else. The invariant is that the struct of a row that is not in the row map is gone (`StructIsGone`).
- `OrderedTypeCorrect`, `OrderedContiguous`: the rows of a partition are numbered from 0 to its
  count, whatever fails, and beyond the count are only the rows the program has put there, assuming `Overlap = {}`. The invariant (`ContiguousInv`) adds to `Contiguous` where the hole of a call is: an insert's
  between its position and the count, a removal's below the count; and that strays lie at or beyond the count of a loaded
  partition (`StraysOK`), so that a call reaches one only with the hole, or the item, it puts in its place.
- `OrderedSearchFollows`: a clean index of an ordered source is what the maps say now, by `IndexIsCurrent` again, for any values of the constants. A row without a token stream is found under
  the text of the item at its position; one with a stream under the text of the stream, which does not move with the item (OrderedTokens). A load that
  finds no item and the clearing of an empty partition leave the index unmarked; the proof shows that they change no row.
- `OrderedSaved`: what a returned call has persisted, while no callback fails and no partition name is a prefix of another's
  keys. The invariant (`SavedInv`) is `ContiguousInv` and that a loaded partition has as many items as its copy unless the call
  in progress works on it; `Contiguous` is needed for the load, which counts keys and not what it was given.
- `OrderedImplementsList`: the refinement, for any number of partitions and items, assuming that no partition
  name is a prefix of another's keys (`Overlap = {}`), that the load callback does not fail, that the program does not put on keys
  of missing items (`~StrayPuts`), and that
  items put into a plain map name every field (`WholeItems`). A shift without memory is `LoseFields` (`LostItem`). The invariant `DataInv` adds that
  positions without a row are blank (a record) and that saved items are rows as a put makes them; then each action is
  shown to edit one list or none.
- `RegistryTypeCorrect`, `RegistryNoLeak`, `RegistryOneOwner`: no map is lost and nobody closes the map of
  another, for any number of sources, of handles and of row sets in the hands of callers, wherever `corm_open` fails; of
  `Fresh` only that it gives a number not in use is assumed. The argument: a registration or a query is a sequence of
  exchanges, in each of which a holder closes one map and puts a new one, or none, in its place; two lemmas
  (`EntryExchange`, `TemporaryExchange`) show that an exchange keeps coverage (`Covered`) and ownership
  (`Owned`), and each action is a few exchanges. The invariant `HandlesInv` adds to the two which temporaries a
  query cannot have opened yet at each stage (`StagesInv`), without which a stage could overwrite a handle it should
  have closed. Coverage needs no condition; ownership holds until a registration has failed on its fields map (section 6).
- `PurifyFreesAll`, `PurifyErrorsFit`: the error array of `hyle_purify_row` is never overrun, and what it allocates is
  freed or handed to the caller, for any schemas, texts and rules. The invariant (`CallInv`) says what is held while fields are
  still being checked, and that there are fewer errors than the number of the next field: a field adds one at most.
- `FormTypeCorrect`, `FormLastHeard`, `FormNoUpdateMissed`, `FormCallsSubscribers`: for any forms, any number of listeners and
  loops nested to any depth. None is inductive. What carries them is that a subscriber who does not know the state of now is still to be
  called by a loop that hands out that state: `ToldInv` says it of who was called with it, in any of the loops in progress, as long as no listener threw;
  `HeardInv` of who heard it last, where, unless a listener wrote or threw, there is at most one loop. `FormTypes` has that a
  loop's remainder consists of subscribers, no one twice, which `Subscribe` and `Unsubscribe` keep in all loops at once.
- `FormServerAgrees`: the browser and a server, in C or on Node, refuse the same fields, and an error of the server is one the browser shows. The server
  reports the first rule a field breaks, the browser may add the pattern of the same field. The invariant (`RowInv`) ties the check in the
  browser to the fields and values of now, and a call of `hyle_purify_row` to the row it was given and the errors it
  must have found up to the field it has come to (`RowErrors`); then `Breaks` and `ValidateRow` are compared rule by rule.
- `PoolTypeCorrect`, `PoolJsonFits`, `PoolFreesAll`, `PoolOnlyTheTarget`: all four properties of `ValuePool`, for texts of any
  tokens and lengths, any map keys and any first buffer of three characters or more; of `json_escape`'s own buffer they say something
  only for texts without control characters (section 6). `JsonFits` is not inductive: that the
  closing bracket fits follows from the room an element leaves behind it, and after a comma from the element
  that is still to come. The invariant (`BufferInv`) says which of the two holds, and adds that what is
  stored and written are texts, that a call works on a value of the program, and that numbers are below `next_id`.
- `QueryOverrides`, `QueryMemory`, `QueryToManifest`, `QueryLoads`: about `BlueprintSpec`, for query strings and blueprints of any
  size, wherever memory runs out. `ParseInv` says that the query so far is what has been asked for so far (`AskedUpTo`, `IncludesUpTo`,
  `LastSort` up to the parameter the pass has come to) and that, while there is room for all overrides, the last
  override recorded of a field is the last one passed (`LastsAgree`): the parser goes through its tables after the pass, and the last match stays.
  Of page, page size, term and sort, `SettingsInv` says that the query has the last one passed, and `ManifestSettingsInv` that the manifest has the
  query's, which may have been cleared since.
  `ManifestInv` says of each loop what is copied up to its place, that each source it has met is loaded once, and which blocks are held.
- `QueryMeans`: the stages of a query together keep what `Means` says, which knows no stages. A lemma per stage (`FtsStage`, `RefStage`,
  `TermStage`, `ResidualStage`) gives what it keeps, `AnswerElements` puts them together, and `FieldStages` compares them with the meaning
  field by field: a field's filters are those the index took, and the rest, which are either all handled by
  identity or all left to the last stage. Queries that overrun the tables of `prefilter_multi_ref` are left out by a hypothesis of the property itself (`FitsTables`).
- `QueryLosesReferences`: `GroupStays` says that a reference field whose set opened, and after which no intersection failed, is
  still a condition when all fields have been gone through; with that the proof goes on as that of `QueryMeans`.
- `QueryPages`: the invariant (`PagesInv`) says that a walk that goes on was given page times page size rows,
  and that they begin the answer of now; a page then joins on where the last one ended. 32-bit page arithmetic does
  not wrap because a walk stops at the first page that is not full and a source has fewer rows than `2^Width`. That rows added at
  the end of the row map are added at the end of the answer is `AnswerGrows`.
- `QuerySorted`: the comparison of two keys is a strict weak order (`CmpOrder`), by number or by text and with
  empty texts first in both, so that the rows ahead of a row, counted, are a permutation of the places (`AheadRanks`) in
  which no row stands before one that sorts before it (`SortSorts`).

- `LoaderReadyMeansUsable`, `LoaderAnswersAlike`: for any number of callers, about `LoaderSpec`. The invariant (`LoaderInv`) ties the
  state of the promise to how far the function behind it is and to what has been heard: a promise that is settled stays what it is.
- `ClientImplementsLoader`: every step of a program that plans, fetches, shows and replaces is a step of the loader or leaves it
  alone (`LoaderSpec` states no fairness). Hence `ClientReadyMeansUsable`
  and `ClientAnswersAlike`, the two properties of the loader for the whole program.
- `RecursionIsWhole`: `CollectReferences`, `ShowValue` and `Leaves` meet the equations the code's recursions are written by, for all types
  and values. A function of the levels left cuts off what lies deeper than it has levels; that nothing does is the argument of
  `CollectCovers`, `ShowCovers` and `LeavesCover`: from n levels on, one level more changes no answer of a type from which no
  chain of n types leads inwards (`Deep`), because it changes none of the types inside it from n - 1 levels on; and `NestingAssumption` excludes
  chains of `MaxNesting` types.
- `ClientShowsNames`: `PlannedViewShowsNames` for any blueprints, rows, queries and viewers and types of any nesting. The invariant
  (`ScreenInv`) says that a screen's manifest is the one its blueprint gives for a query, and its rows are those of the program's worlds; with that
  a plan never fails to be shown while its base model is there. Then the recursions are compared level by level: where planning
  reports no unknown model, each reference among the leaves of a value is of a model that is planned (`LeavesAreNamed`),
  and what is displayed is exactly what the leaves show (`LeavesAreShown`), where a reference shows the display field of the last
  row of its id (`RowsByIdLast`, `ReferenceShows`).
- `DecodedTextsStayForAWhile`: for any number of buffers and any counter whose width is a multiple of it. The invariant (`RingInv`) says that a
  text of age a lies a + 1 buffers behind the next one to be taken, counted around the ring (`NextSlotAfter` is the step of that
  count across the wrap-around); a text that is overwritten is therefore as old as there are buffers, and no longer promised.
- `IndexMissesOnlyThat`: the full-text index of any source with any callbacks. The invariant (`IndexInv`) says of a rebuild in
  progress that what it has passed is indexed as it reads now, as far as no callback wrote to the row since; that a
  registration never changes which callback a key has, once it has one, is `ProviderStays`.
- `ExportFreesEverything`: the invariant (`ExportInv`) says which blocks are held at each place of the call (`HeldWhere`), for results of any size.

The last three are about `Spec` of `NativeReads`.

Only model-checked are `CallReturns` and `EveryLoadSettles`, which are liveness under fairness.

## 5. Assumptions on what is outside the repository

corm: a handle is a number not in use, or 0; closed numbers are given out again; a plain map is
iterated in the order its keys came; a record map reads `row:field` keys as fields of the struct of `row`,
which is allocated whole by the first write and deleted by the exact key. lemma: the answer to a query
depends on the indexed texts only. libc: `qsort` does not reorder equal elements (glibc's merge sort);
without that, the pages of a sorted walk could overlap. Callbacks: a load callback puts the persisted
items with `hyle_registry_put`, a save callback reads the items by position. JavaScript: a loop over a Set reaches members
that are added during it and passes over those that are deleted; an exception leaves the loop.

The ASSUMEs that theorems rest on say this of the program's own data: fields of a schema are records with the members of `hyle_field_t` that rules are about (`IsField`);
splitting a text at commas gives at least one piece (`QueryParseAssumption`); the row ids of a source are fewer than a `uint32_t` counts, a query starts
at page 1, and rows hold texts (`SourceQueryAssumption`); `strcasecmp` is irreflexive, transitive and such that texts neither of which comes first
compare equal, with the empty text before all others (`TextOrderAssumption`); field types nest to a finite depth, the parts of types and of values are
types and values, and null displays nothing (`NestingAssumption`); the blueprints' types are among those, and rows are sequences of maps
of such values (`HyleClientAssumption`).

## 6. Behaviour worth knowing, stated or left out

- `hyle_registry_del` deletes the exact key of the row from the row map and the fields map, and never touches the token map, although `registry.h` 119 and 122
  say that a row goes with all its values. The token streams stay, and when a later put brings the id back without naming
  a field, its old text is read again. In a plain map
  the entries `row:field` stay as well; for a record the row's struct goes. `DeletedLeavesOnlyTokens` is stated for records; `CormDelFields` has both.
- A put whose buffer for a token stream cannot be allocated returns 0 without writing it (`registry.c` 303). The stream of an
  earlier value stays and hides the new one from every read, and from the index: excepted in `PutIsReadBack`.
- `hyle_ordered_key_at` gives a key for any position, also a negative one or one beyond the count (`registry.c` 1546), where
  `registry.h` 369 and 379 say NULL. A put on such a key adds a row the count does not know: no clear and no save reaches it, a restart loses it, and an item
  put at that position later keeps those of the row's fields it does not name. `Contiguous` allows such rows where the program put them; `ImplementsList` is stated for programs that do not.
- `hyle_ordered_save` of a partition that nobody has loaded gives the callback empty maps (`registry.c` 1651): unless the callback asks for
  the count or a key first, it persists an empty partition over the items that were. `OrderedList` has this as `Save` of a list that is not loaded.
- A shift copies a record by way of a buffer; where that cannot be allocated the row moves without its fields and the old struct
  is deleted (`registry.c` 1336-1363). The item keeps its place and reads as empty; the call goes on, saves it so and returns 0.
- A save callback that fails is not noticed by insert, append, remove and clear, which return 0 (`registry.c` 1598): `ReturnedMeansSaved` is stated for callbacks that
  do not fail. A load that fails is in OrderedLoadFailure.
- The index follows the maps, not the items (`SearchFollowsRows`): after a shift a tokenized item is searched, as it is read, under the
  text another item had at that position.
- Browser and server do not report the same errors, whatever `npm/README.md` 117 says ("Zero regex divergence or validation error mismatches"): of a field that breaks its length and
  its pattern the browser shows both (`index.js` 42-57), where `purify.c` 155 stops at the first; `ServerAgrees` says that this is all. Nor do they check the same rules: the browser has no numeric bounds, passes over a
  pattern that does not compile and checks lengths whatever the type; the native addon passes on neither the longest length nor the
  type and drops values that are not strings. `ServerAgrees` is stated for the rules both sides share, and compares fields and rules, not the wording of messages. A minimum or maximum
  of 0 means none (`purify.c` 98).
- When the new fields map of a registration does not open, the entry keeps the number of the old one, which is closed
  (`registry.c` 230): reads go to a closed map, and the next registration closes that number again, whoever owns it by
  then. `stale` in `RegistryHandles` records it.
- `json_escape` has room for two characters of each one and three more (`value.c` 144); a control character without a short escape takes
  six (`value.c` 160-164), so a text of one such character already overruns it. `ValuePool` has such texts and names; `JsonFits` is stated for the others, and a call with one
  may end the process.
- What `hyle_val_array_get` and `hyle_val_map_get` return is a new string of the JSON text, so a string comes back in
  quotes; each read takes a number and a place in the pool. A push or set without memory says nothing. Map keys are cut at 255
  characters (`value.c` 122), not modelled. The test for room before a comma (`value.c` 220 and 267) never holds (`JsonFits`).
- A query with more than 32 reference values, or more than 16 reference fields, hands the surplus to the
  residual filter, which ANDs where the documented meaning is OR (`registry.c` 521).
- The filter values are dropped also when a reference set or the map of an intersection cannot be opened; the constraint is
  lost, and with an intersection those of the fields before it (`registry.c` 705). `OnlyReferencesAreLost` says that nothing else is.
  Opens that fail inside `hyle_apply_view`, and the memory of a sort, are in `RegistryHandles` or left out.
- Partition names where one is a prefix of the other's keys (`a` and `a__b`) are counted together
  (`registry.c` 1306); the models carry it in `Overlap`, the runs assume none.
- Keys longer than 127 characters are cut (`registry.c` 1327): not modelled.
- A value that does not encode leaves the token stream of an earlier value in place, which hides the
  new one (`registry.c` 302): excepted in `PutIsReadBack`.
- The 65th `_op` parameter is dropped, and names are compared on 63 characters (`query.c` 107):
  `MaxOps` is modelled, the cut is not.
- The result of a derive callback may change without the index noticing (`registry.c` 778); modelled, and
  excepted in `SearchAgreesWithRead`.
- Reference values that corm resolves when they are put into a record are stored as given in the model.
- `(page - 1) * per_page` is computed in 32 bits: `page=2147483649&per_page=2` returns the first rows
  (`view.c` 524). `Paginate` computes it modulo 2^Width; the run stays below the wrap.
- A listener that writes from inside a notification, or throws, leaves the listeners after it with an older
  state, or without the update (`index.js` 120): excepted in `LastHeardIsCurrent`. `form.values` is the
  object the form works on, not a copy. `addField` does not check the form again.
- When memory runs out, `hyle_purify_row` returns 1 without errors; the native addon does not look at the result and
  reports a valid row (`hyle_napi.c` 100).
- `HyleFieldFilter` of the Rust crate has two pointers (`source.rs` 364), `hyle_field_filter_t` has three (`query.h` 21), and
  `HyleField`, "Mirror of `hyle_field_t` in C" (`source.rs` 371), ends before `searchable`: arrays of several are read with the
  wrong stride; the Zig bindings (`csource.zig` 13) are alike. Layouts are not modelled.
- A manifest filter has no `op` (`blueprint.h` 45): the `_op` overrides of a query do not reach a manifest, and `ManifestAnswersTheQueryString` says nothing
  of them. A `sort` parameter with no direction leaves the direction of an earlier one as it was (`query.c`): `LastDir` has it so. `sort=` with an
  empty text names the field "", so the manifest fails, while an empty filter is ignored (`query.c` 167); both are in the run.
- NaN as a sort key, and derive callbacks that delete rows or register sources while the row map is iterated: not modelled.
- A row that a derive callback wrote to while the index was built may be missing from it until the next write, because the end of the
  rebuild clears the mark (`registry.c` 789): excepted in `IndexMissesOnlyCallbackWrites`.
- Of a key registered twice the first callback is called (`registry.c` 180), so one cannot be replaced.
- `hyle_row_set_to_rows` reads the fields map only: a text put with `hyle_registry_put_tokens` is not exported, nor are the fields of a typed record, which
  have no `row:field` keys; rows `a` and `a:b` share the prefix `a:`. The Rust caller drops a field named `id`. An export that
  fails gives an empty vector and the right total (`source.rs` 623). The texts of a row whose arrays cannot grow are lost
  (`registry.c` 1246-1268): excepted in `ExportFreesAll`.
- A loader that throws before it returns a promise leaves none behind, so the next load tries again; one whose promise is rejected
  is final for the client (`client.ts` 98).
- `filterRows`, `applyView` and `purifyRow` of the client return their input, or no errors, when the module does not export the
  function, and `wasm.rs` exports none of the three, although the README of the crate lists them.
- The blueprint may be replaced between planning and showing; the view is then of the new blueprint's types and may lack rows of references.
  `PlannedViewShowsNames` is stated for a blueprint that stayed. A forma whose context lists no field it has selects none, and a query that selects none
  means all (`blueprint.rs` 59).
- Lookup keys that are numbers are modelled as their text; a float and an integer may have the same.

## 7. Not modelled

`url.c` converts characters and keeps nothing; `auto_record` and the macros of `schema.h` lay structures out for corm's types; type
generation, styles, packaging and scripts have no state of the system. The Zig bindings, and the parts of the crate that are not in
`RustBlueprint` (its own query parser, serialisation, row validation), repeat what is modelled for C, or translate
structures whose layout is below what these models tell apart.

What would come next: a program that runs the manifest of a query string on an ordered source between edits.
