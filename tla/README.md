# A verification project for the Rust port of cJSON

The repository is a line-by-line Rust port of the C library cJSON: a tree of
`cJSON` nodes in manually managed memory, a parser, a printer, and the utilities
JSON Pointer, JSON Patch and Merge Patch, all behind the C ABI. The code is
`unsafe` throughout, so what Rust would otherwise guarantee (one owner per node,
no use after free, no leak on an early return) is a matter of the program's
logic. That logic is what these TLA+ modules model, TLC checks on small
instances, and TLAPS proves for every size.

Paths below are relative to the repository; the library's code is in `src/`.

## 1. The system

### Components

| Component | Code | State it keeps | Operations |
|---|---|---|---|
| Memory and node layout | `src/model.rs`, `src/alloc.rs`, `src/manip.rs` 142-170 | the heap; the global hooks | `cJSON_New_Item`, `cJSON_strdup`, `cJSON_free`, `cJSON_InitHooks` |
| Item API | `src/manip.rs` 65-170, 277-865 | the links `next`, `prev`, `child`, the flags `IS_REFERENCE` and `STRING_IS_CONST`, `string`, `valuestring` | create, add, insert, detach, replace, delete, `SetValuestring` |
| Copying | `src/manip.rs` 871-1025 | a half-built tree | `cJSON_Duplicate`, `cJSON_Create*Array` |
| Comparison and lookup | `src/manip.rs` 173-275, 1112-1280 | none | `cJSON_Compare`, `cJSON_GetObjectItem[CaseSensitive]` |
| Minify | `src/manip.rs` 1028-1110 | read and write position in the client's text | `cJSON_Minify` |
| Parser | `src/parse.rs` | `ParseBuffer` (text, offset, depth), the global error position | `cJSON_Parse*`, `cJSON_GetErrorPtr` |
| Printer | `src/print.rs` | `PrintBuffer` (block, length, offset, depth, flags) | `cJSON_Print`, `PrintUnformatted`, `PrintBuffered`, `PrintPreallocated` |
| Sorting | `src/utils.rs` 435-545, 1253-1260 | the links | `cJSONUtils_SortObject[CaseSensitive]` |
| JSON Pointer | `src/utils.rs` 93-339 | none | `GetPointer`, `FindPointerFromObjectTo` |
| JSON Patch | `src/utils.rs` 342-430, 546-1250 | the document being patched | `ApplyPatches`, `AddPatchToArray`, `GeneratePatches` |
| Merge Patch | `src/utils.rs` 1263-1418 | the document being patched | `MergePatch`, `GenerateMergePatch` |
| C ABI shims | `src/ffi.rs`, `src/lib.rs` | none | forward to the above |
| Reference crate, harness, differential tests, scripts | `cjson-ref-sys/`, `harness/`, `tests/`, `examples/`, ... | none | development aids |

The exact files of each component are in `PROJECT.json`.

### How they interact

Everything shares one heap of nodes. There are no threads, messages or
callbacks besides the allocator's hooks, and nothing is persisted. The parser,
`Duplicate` and the array constructors *build* lists by hand; the item API
*relies* on their shape, in particular on `prev` of a first child pointing to the
last one; sorting *rewrites* the links and hands the object back to the item
API; patches combine lookup, duplication, sorting and the item API. So a
component is correct when what it leaves in the heap is what the next one expects.

### What is hard here

* **Sequences of legal calls.** The invariants of the links and the ownership of
  strings hold across operations written years apart. A wrong `prev` shows three
  calls later, as an append that returns success and stores nothing.
* **Partial failure.** Every allocation can fail, in the middle of a nested
  parse, a deep copy or a growing buffer, and each early return has to free what
  exists by then, once.
* **Shared memory.** A reference shares `child` and `valuestring` with its
  original, a borrowed key is the client's literal; two flag bits decide what
  `cJSON_Delete` frees, and both change when an item is stored again.
* **Boundaries.** The parser reads a byte beyond a comma, steps back over
  trailing blanks, and counts depth; the printer doubles its buffer up to
  `INT_MAX` and measures its own text with `strlen`.

The hazards are listed one by one, with their lines, in `PROJECT.json`.

### What makes each component correct

* *Item API*: lists are doubly linked with their tail known; each item has one
  owner; each string block has one owner; a failed call changes nothing the
  client can lose; each call has the effect on the order the header describes.
* *Copying*: a copy equals its source and shares nothing with it; a failed copy
  leaves memory as it was.
* *Comparison*: what is the same in the same order compares equal, what says something
  else does not; it is symmetric and transitive, and finds the first member with a key.
* *Parser*: it accepts the grammar, returns the tree the text describes, stays
  inside the text, and frees everything when it fails.
* *Printer*: it stays inside its block, owns one block at most, and returns the
  whole text.
* *Sorting*: it permutes the members, orders them, and leaves a list the item
  API can work on. The last of these is **not** true; see *Where the code parts from
  the documents*.
* *Minify*: it takes out exactly the blanks and comments, leaves strings alone, and
  never overwrites what it has not read. Strings are **not** always left alone
  either.
* *Strings*: what is decoded fits the block sized beforehand and is what RFC 8259
  says; what is printed parses back.
* *Pointer and patches*: a pointer found for an item leads back to it; an operation
  does what RFC 6902 says or fails when it makes it an error; a generated patch
  turns one value into the other; a failed patch frees what it took, once.

## 2. The modules

| Module | What it is | Proofs |
|---|---|---|
| `CJsonHeap` | the heap and the pointer primitives of `manip.rs`, as functions from heaps to heaps | used by all below |
| `Manip` | a client of the item API, one action per family of calls; the refinement mapping to `Forest` | yes |
| `Forest` | what the header promises of it: ordered trees, no pointers | yes |
| `ManipInv` | the inductive invariant of `Manip` | yes |
| `ManipTheorems` | lemmas about the primitives; the theorems about links | yes |
| `ManipStrings` | the theorems about the ownership of strings | yes |
| `ManipRefinement` | the theorem that `Manip` implements `Forest` | yes |
| `LeastNumber` | induction and recursion on the naturals, for the proofs | yes |
| `ItemLists` | walks along lists on heaps: lookup, indices, `cJSON_Delete` | TLC only |
| `SortLists`, `Sort` | `sort_object` on heaps; `Manip` with `SortObject` | TLC only |
| `Duplicates`, `Copy` | `cJSON_Duplicate` on heaps; `Manip`'s heap with `Duplicate` and `Create*Array` | TLC only |
| `Grown` | a client that builds any tree, item by item | TLC only |
| `Compare` | `Compare` and the lookups, on those trees | TLC only |
| `Minify`, `MinifyTheorems` | `cJSON_Minify`; the theorems about it | yes |
| `StringText`, `Strings` | what RFC 8259 says of a string; `parse_string` and `print_string_ptr` byte by byte | yes |
| `StringTheorems` | the theorems about them | yes |
| `Rfc6901` | what RFC 6901 says of pointers | |
| `JsonPointer`, `Pointing` | the pointer functions on heaps; on those trees, against `Rfc6901` | TLC only |
| `Values` | JSON texts, the values items stand for, parsed items | TLC only |
| `PatchSteps` | `apply_patch`, one operation as a function on heaps | TLC only |
| `Document` | what RFC 6902 says of an operation; the machine that applies a list of them to a value | |
| `Patch` | `ApplyPatches`, one step per operation; implements `Document` | TLC only |
| `PatchDiff` | `GeneratePatches` on heaps | TLC only |
| `MergePatch` | `MergePatch` and `GenerateMergePatch` on heaps | TLC only |
| `Diffs` | a client that generates patches of both kinds, applies and merges them; against RFC 7396 | TLC only |
| `Parser` | the parser as a state machine with an explicit stack | yes |
| `JsonText` | the JSON grammar, and what it says of `Parser` | yes |
| `ParserTheorems` | the theorems about its offsets, what it builds, accepts and understands | yes |
| `PrintBuffer` | the output buffer and the entry points | yes |
| `Printer` | the reservations each value makes; the width of its text | TLC only |
| `PrintTheorems` | the theorems about `PrintBuffer` | yes |
| `MC...` | constants for TLC; `MCParser` generates JSON texts, `MCTrees` puts `Compare` and `Pointing` on the same trees | |

"TLC only" modules use RECURSIVE operators, which the provers cannot handle.

`CJsonHeap` is shared by all that touch items. `Sort`, `Copy` and
`ManipInv` extend `Manip`; `ManipTheorems` extends `ManipInv`, `ManipStrings` extends
`ManipTheorems`, and `ManipRefinement` joins `ManipTheorems` and
`LeastNumber`, which the other modules of theorems use too; `ItemLists` extends `CJsonHeap`, and `Duplicates`, `SortLists`
and `JsonPointer` extend `ItemLists`. `PatchSteps` puts these three together, as
`apply_patch` does; `Patch` adds `Values` and a client, and `Diffs` puts `PatchDiff`,
`MergePatch` and `Values` together.
`Compare` and `Pointing` extend `Grown`. `JsonText` extends `Parser`, and
`ParserTheorems` extends `JsonText`; `Printer` and `PrintTheorems` extend `PrintBuffer`;
`StringTheorems` extends `Strings`.

### The heap (`CJsonHeap`)

A heap is a record: `live` (allocated nodes), `next`, `prev`, `child`, `type`,
`string`, `valuestring` (functions on nodes), the flags `isReference` and
`stringIsConst` (sets of nodes), and `text` (the contents of the allocated string
blocks). Contents are members of `Name`; a member of `Name` used as a *pointer* is
the client's literal, which the library must never free. `fault` records a double
free, a freed literal or a read of a freed key. Freed memory is blanked: what was in
it cannot be seen, that something leads to it can.

`AddItemToArray`, `AddItemToObject`, `DetachItem`, `InsertItemInArray`,
`ReplaceItemViaPointer`, `Delete`, `CreateReference`, `SetValuestring` and the rest
bear the names of the functions they translate. Where the code walks a list the
model uses the set of nodes the walk visits (`ListFrom`, `Reach`, as least closed
sets), so that the provers can follow; `Compare` checks that the set form of
`GetObjectItem` is what the walk finds.

Not in the heap: sizes in bytes, `valueint`, `valuedouble`, and the hooks.

### The item API (`Manip`)

State: `heap`, and `roots`, the items the client holds and has to delete. Each
action is one API call in one atomic step, as the library is sequential; each
allocation in it succeeds with any free address or, if `MayFail`, fails. The
correspondence is by name (`AddToArray` is `cJSON_AddItemToArray`, and so on);
`map` in `PROJECT.json` gives the lines. Calls given an index, a key or a pointer
share one action, `Detach` say, since any of them selects some element.

The client obeys what the header requires and no more: it stores only items it
holds, never an item below itself (the code refuses only the direct case, and the
model passes that case too); it does not use a reference's own child list to
change the original; it gives `SetValuestring` literals; and it does not pass
`cJSON_ReplaceItemInObject` the replacement's own key, which the call frees before
it copies it. `AddItemToObject` *is* given the item's own key, because the code
takes care of that.

`Borrow` lets the client make references and constant keys. With it, `child` and
`valuestring` of a reference may dangle when the original goes; the model has
them dangle and checks that the library frees nothing through them.

### What the header promises (`Forest`)

Each item has a sequence of children; the actions are the calls' effects: `Store`
appends, `Insert` shifts right, `Replace` takes a place and destroys what was
there, `TakeOut` and `Discard` close the gap, `Release` destroys a tree; `Create`,
`CreateIn` and `Lose` (a new item nobody holds) make items. The mapping
(`ImplementsForest`, in `Manip`): the children of `p` are what `cJSON_GetArrayItem` returns for the indices below
`cJSON_GetArraySize`, and items, held items are `live` and `roots`.

### Sorting (`Sort`)

`sort_list` on the links: the test for a sorted list, the split in the middle, the
two recursive calls, the merge. Two specifications: `CarefulSpec` is a client that
inserts, detaches, replaces, deletes and sorts but appends only to objects it has not
sorted; `SortSpec` appends to any.

### Copying (`Copy`)

`duplicate_rec` and `create_number_array` with the number of allocations
that still succeed as a parameter, so that a run covers a failure at every
allocation. The client builds a source of up to `MaxSource` items, with owned and
borrowed keys, strings and references (thus cycles), copies any item in it, and
may then delete the source.

### Comparison (`Grown`, `Compare`)

Two trees are grown in preorder, member by member, with keys, repeated keys and
missing keys; in every state every pair of items is compared. A *palette* says what
the client builds with: kinds of items, string values, keys, how many items, and which
pointers it follows; one run grows trees from several of them, each large enough for what
it is there for. `SameValue` is the reference definition: arrays are equal pointwise,
objects as mappings from keys; `SameInOrder` asks for the same order too. What is
`SameInOrder` must compare equal, and what compares equal must be `SameValue`. Properties
of one tree are evaluated while there is only one (`Alone`), those of one object while it has only members (`Flat`).

### Minify (`Minify`)

The client's block, with its NUL, and the two pointers `json` and `into`; `pc` is the loop
the code is in. There is one action per arm of the `match` and per way through the
loops of the three helpers, so a step reads one or two symbols and writes at most
two. A text is given lexeme by lexeme. `IsWhole` says of each what it is by its own shape (a blank, a
comment, a string, another symbol), so that what should be left (`Kept`) is known without
reading the text as the code does.

### JSON Pointer (`JsonPointer`, `Pointing`)

Pointers and keys are sequences of characters. `GetItemFromPointer` follows tokens as
the code does, which never splits the pointer but compares a key with what stands
at the position (`ComparePointers`); `DecodeArrayIndex` accumulates modulo `WordSize`;
`FindPointer` is the recursive search; `DecodePointerInplace` the read and write
positions in the one block, including the byte written too far. `Rfc6901` splits a
pointer into tokens and unescapes them; it shares no definition with the code's side.
Where the standard makes a pointer an error or lets it refer to nothing, the code may
find something all the same; the properties are about pointers that refer to an item.

### JSON Patch (`PatchSteps`, `Patch`)

`ApplyPatch` takes a heap, the document, a patch, the case and the number of
allocations that still succeed, and gives the heap, the status and what is left.
`DetachPath`, `CompareJson`, `AddAtPath`, `ReplaceRoot` and the rest follow the source in
its order, so that a failure leaves what the code leaves: `RemoveOrReplace` has
deleted the old value when the new one is missing, and `CompareJson` has
sorted the objects it came to. `Patch` parses a document and patches, applies one per
step, and lets the client delete both in the end. The client may also have built the
patches with keys that are its own literals, which a copied value then shares; and memory
may run out at any allocation.

`Document` is the abstract machine: a value, the operations to do, and whether
it has ended; a step does the first operation as RFC 6902 says, or ends when the
standard makes it an error. `Patch` implements it (`ImplementsDocument`), with the
value of the heap as the document: `Value` reads an object as a function from keys, so
order, and the sorting of a test, are invisible in it, while a lost member is not.
A call with little memory may fail where the standard sees no error, so behaviours in
which it may run out are mapped to a machine that does nothing; for them `EverythingFreed`
is what counts.

### Generated patches and Merge Patch (`PatchDiff`, `MergePatch`, `Diffs`)

`CreatePatches`, `Merged` and `Generated` are the recursions, on heaps; the sorting inside
the generation is part of them. The client of `Diffs` parses two values and a third
item that says what the first does, generates JSON patches or a merge patch from the two
and applies it to the third; or it merges a parsed patch into a target, with memory that
may run out. `Rfc7396` is the pseudo code of that standard, on values.

### Strings (`StringText`, `Strings`)

Bytes are numbers. `Scan` finds the closing quote and counts the escapes; `Decode`
writes, and stops where an escape is refused; each is a loop whose body is an operator
(`ScanOne`, `DecodeOne`); the outcome keeps the bytes
written and the size of the block. `PrintStringPtr` is the two passes of the printer:
the block is as long as the first pass says and holds what the second one
writes. `Spelled` gives the character the standard sees at a place, if any.

### The parser (`Parser`, `JsonText`)

A text is a sequence of symbols: a bracket, comma, colon, blank, NUL, byte order
mark, or a token (`null` for the three literals, a number, a name for a quoted
string, and malformed numbers and strings). `offset`, `depth` and `errorAt` are those
of the code in symbols; `stack` holds the calls of `parse_array` and
`parse_object` in progress with their `head` and `current_item`; `pc` says what
runs next. The steps are those between two calls or loop heads: `Begin`, one
action per kind of value (`Literal`, `Number`, `String`, `Open`, `NoValue`), `Element`
and `Key` (the loop bodies), `AfterValue` (the loop tests), `Unwind` (the `fail:` paths,
one frame at a time) and `End`. `SkipWhitespace` keeps the step back at the end of
the buffer and `Open` the step back before the first element.

Symbols that are not names are `Mark`s, and no name is one of them.

`JsonText` defines the JSON grammar independently of the parser: which spans of a text are
a value nested at most so deep (`ValuesIn`), which a member (`Named`), which brackets hold
items with a comma between neighbours (`Container`, `Separated`). It mentions no
position that moves. `Render` writes a tree as the symbols `cJSON_Print` would: each item's
name and value (`Says`) and a comma before the next (`Behind`). `Strip` is a part of the text
without its blanks.

### The printer (`PrintBuffer`, `Printer`)

Printing a value is a *program*: a sequence of `Put(need, bytes, nul, advance)`, one
per call of `ensure` and the writes after it, and `Update`, one per
`update_offset`. `PrintBuffer` runs any such program under the three entry points,
with and without `realloc`, with every allocation free to fail; of the text it keeps
where it ends (`written`), whether a NUL follows (`terminated`) and the highest byte
written (`high`). `Printer` derives the program of a value from `print_value`,
`print_array` and `print_object`, and states the width of its text separately.
`DefaultSize` stands for the 256 bytes a print starts with, `MaxInt` for `INT_MAX`.

The split makes the printer provable. Memory safety needs only that a step writes no more
than it reserves (`JobAssumption`); that the text is whole needs that the steps, laid one
after the other, come to it (`SpellsText`). TLC evaluates both for the programs of
`Printer`, the second as its assumption `StepsSpellText`.

## 3. The runs

Each run finishes with two workers in under five minutes. Deadlock is checked
where the client can always go on (`Manip`, `Sort`, `Strings`); a parse, a print, a copy,
a minification, a list of patches or the growth of a tree ends.

| Run | Properties | What it shows | Bounds |
|---|---|---|---|
| `manip_oom` | `OnlyReferencesLost`, `StringsOwnedOnce`, `NoFault` | whichever allocation fails, no call leaks, frees twice or uses freed memory | 3 items, 2 string blocks, 2 contents of different length |
| `manip_order` | `ListsWellLinked`, `SingleOwner`, `ImplementsForest` | each call has the promised effect on the order; lists and ownership hold | 5 items, no keys (`manip_oom` has them) |
| `sort_careful` | `LinkedAfterSort`, `SortOrders` | sorting permutes and orders; a client that does not append stays safe and loses nothing | 4 items, 3 keys, two equal but for case |
| `sort_append` | `AppendAppends` (violated) | an append to a sorted object | the same |
| `copy` | `CopyIsFaithful`, `CopiesAreWhole`, `FailureRestores`, `DeletesWhatItReaches` | copies equal their source, share nothing, and fail without a trace | source of 3, circular limit 2, arrays of 3, 7 nodes, 4 strings |
| `trees` | `CompareIsEquality`, `CompareIsConsistent`, `LookupFindsFirst`, `PointerLeadsBack`, `FindsWhatRfcRefersTo` | comparison of any two items of two trees; lookup; finding and following pointers | 6 items with keys `a` and `A`; 4 with string values in both cases; 4 with the keys `a`, `A`, `/`, `~a` and pointers of 2 tokens of 11 |
| `parser` | `InsideBuffer`, `AllOrNothing`, `AcceptsGrammar`, `ResultRendersText` | the parser accepts the grammar and the tree says what the text says; failure at any symbol or allocation frees everything | texts below |
| `print` | `WritesInside`, `BuffersFreedOnce`, `OverreadsOnlyNothing`, `TextIsComplete`, `FiveBytesMoreAreEnough` | any document, format, entry point, size and allocator; on starting, that each document's steps put its text together (`StepsSpellText`) | sizes 0..30, `DefaultSize` 4, `MaxInt` 40, nesting 2 |
| `minify` | `TypeOK`, `UnreadIsUntouched`, `OnlyBlanksAndCommentsGo`, `Terminates` | any text, however malformed: the pointers stay inside, the writer behind the reader, the call returns; from whole texts exactly blanks and comments go | all texts of 5 symbols, and of 4 lexemes of 14 |
| `strings` | `DecodesInsideBlock`, `DecodesAsRfc8259`, `PrintedParsesBack` | decoding and printing of strings | 5 pieces of 12, six of them whole UTF-16 units |
| `patch` | `EverythingFreed`, `ImplementsDocument` | operations do what RFC 6902 says; whatever memory there is, nothing is leaked by a failed call or freed twice | 7 documents; any single operation on 14 paths with 6 values, any two of a smaller set; for single operations, with regard to case, also 0 to 7 allocations, and patches built with literal keys |
| `diffs` | `PatchesLeadThere`, `MergePatchLeadsThere`, `MergesAsRfc7396`, `InputsKeepTheirValue`, `EverythingFreed` | generated patches of both kinds lead from any value to any other; merging follows its standard | about 40 values, two levels, arrays of 3, for patches; about 30 targets and 60 merge patches; 0 to 4 allocations in a merge, or plenty |

**Why the bounds are enough.** Three items are a container with two members, or
a container in a container, or an original with its reference: every case of an
owned, a moved and a shared string. Four items give lists with a first, an inner
and a last member, on which insert, detach and replace take all their paths; five
let a subtree move between two places. Three keys on four items make the merge
sort split unevenly and meet equal keys. A circular limit of 2 is reached by a
chain of three and by any cycle.

The texts of `parser` are all
valid texts of up to six symbols nested one deeper than the limit of two, an object of two members and
an array of three elements, each also cut anywhere, with any symbol inserted
anywhere and with any symbol replaced by any other, with and without a final NUL,
and with and without the request for one; and valid texts of seven symbols cut
anywhere. Every allocation of each parse may fail. The documents that are printed are up to 46
bytes wide, so that with `MaxInt` = 40 buffers double (up to 20), are clamped (up to
40) and cannot grow (beyond); `DefaultSize` = 4 makes every print grow.

Five symbols are a comment or string opened, something in it that looks like its
end or like a backslash before one, and a symbol beyond. Five pieces of a string
are a pair with something on either side and in between. Six items are two objects of two
members, or an object in an object next to another. Four items give a
pointer three tokens, through arrays and objects; the pointers followed name the
first and second element, the place behind the last, a leading zero, and escapes
whole and broken.

The seven documents of `patch` have objects in objects, arrays
in arrays, arrays in objects and objects in arrays, sorted and not, empty, and a scalar;
the paths lead to a first, an inner and a last element, behind the last and one
further. An operation needs at most seven allocations there, so `0..7` fails each one.

**What the inputs leave out.** Where the code is known to part from what a property
asks, the run's inputs stop short, and the case is listed below: `patch` never appends to a
document that a `test` has sorted, never moves or copies to the root, has no two names in
an object that differ in case only, and replaces no root from a patch with literal keys;
memory that ends just before a key is copied is an exception written into
`EverythingFreed`. `diffs` generates merge patches between objects whose names are in
one case. The whole lexemes of `minify` have no string that ends in an escaped
backslash; its texts of five symbols do, and the properties about memory and progress
cover them. `strings` has escapes without digits, which only `DecodesInsideBlock`
and `PrintedParsesBack` cover.

**Symmetry.** Addresses are interchangeable in `Manip` and `Sort`, whose actions
choose them with `\E` and whose runs check no liveness; the modules that let the
allocator take the first free address (all that build trees from texts, `Copy` and
`Grown`) have no symmetry set.

**Fairness.** `Minify` assumes `WF_vars(Next)`: a call that has begun keeps running, as a
call on a sequential processor does; it waits for nothing, so some step is enabled
until it is done. `Terminates` says that it then returns, for every text; a
slash that is not stepped over would keep it forever. Nothing else is assumed to
be fair: the other modules take a call, or each round of its loop, as a step, and the
client may stop at any time.

Every property of a passing run has a mutant in `PROJECT.json`: a faulty variant of
a mapped definition (they stand beside the right one and say "faulty variant"), under
which the run finds the property violated.

Two properties carry an exception that the code needs: `OnlyReferencesLost`, since
`cJSON_AddItemReferenceToObject` drops the reference it has made when the key cannot be
copied; and `OverreadsOnlyNothing`, since a buffer of no bytes is moved by copying one
byte of it.

### Where the code parts from the documents

One disagreement is kept as a run:

* `sort_append`: `sort_object` (`src/utils.rs` 538-543) stores the new first child but
  leaves its `prev` `NULL`, or at an element that is no longer last. An append then
  returns success without storing the item, or cuts the list. The header says
  "Append item to the specified array/object." The C original does the same.
  `sort_careful` delimits the damage: nothing else goes wrong.

The others were met while the models were written. They are in the models as the code
has them, and left out of the inputs or the properties of the runs, as said above.

* Comparison: `README.md` line 158 says that `cJSON_Compare` compares members "pairwise in
  order, exactly like the reference". `cjson_compare` looks each one up by its key, in both
  directions (`src/manip.rs` 1244, 1258), as the C reference does, so objects with the same
  members in another order compare equal. Line 52 of `tests/diff_utils.rs` says that:
  "order-insensitive for objects". `CompareIsEquality` says nothing of such objects: it
  holds by either description.
* Minify: `minify_string` (`src/manip.rs` 1062) takes a quote after any backslash for an
  escaped one. After a string that ends in an escaped backslash inside and outside
  are exchanged, and blanks in the next string go.
* Strings: `parse_hex4` answers 0 for what is no digit, so `\u` followed by anything is
  accepted as U+0000.
* Pointers: a pointer without a leading slash finds the document, a token without
  digits is index 0, and an index wraps around (`src/utils.rs` 268, 295); by RFC 6901 they
  refer to nothing. `decode_pointer_inplace` puts the slash of `~1` one byte too far
  (`src/utils.rs` 354), as does the C original.
* Patches: a `test` sorts the document and loses the tail, so that a later `add` returns 0
  without adding, which is `sort_append` seen from a patch. `apply_patch` does not look
  at what `cJSON_AddItemToObject` answers (`src/utils.rs` 908): without memory for the key
  the status is 0, the member missing and the value leaked. A `move` or `copy` to the
  root is refused, and `move` has deleted the member by then. Replacing the root frees
  the key of the copied value without a look at `STRING_IS_CONST` (`src/utils.rs` 804).
  `detach_path` looks members up without regard to case in both variants (`src/utils.rs`
  427).
* Merge patches: `generate_merge_patch` compares keys in another order than it has
  sorted by (`src/utils.rs` 1360), and its case-sensitive variant recurses into the other
  (1388). With names in both cases such a patch need not lead from `from` to `to`.

## 4. The theorems

### The item API (`ManipTheorems`)

`LinksInvariant`, `TypeCorrect`, `ListsAlwaysWellLinked`, `AlwaysSingleOwner` and
`AlwaysOnlyReferencesLost` hold of `Spec` for any sets of addresses and contents and
any allocator. Assumed: `AddressAssumption` (nodes, blocks and literals are
different addresses, `NULL` none of them), `LowerAssumption`, `FlagsAssumption`.

*The invariant.* `ListsWellLinked` is not inductive: detaching an item needs
to know that no other list holds it, and the C structure does not store an item's
container. `LinksInv` says there is a function `par` from items to containers with:
an item without a container has no links and is held by the client, or is one of the
references that could not be named (`TopItems`); an item in the list of `p` has a
predecessor in it, and the predecessor of the first is the only element without a
successor (`Listed`, `OneTail`); `next` and `prev` are inverse and stay in the list
(`Forward`); a first child is in its owner's list (`FirstChild`); and all items
are reached from the items without a container (`Reached`), which excludes cycles.

*The argument.* A lemma shows for each primitive that it takes a linked heap
with witness `par` to a linked heap with a witness that differs at the item moved:
`FreshLinked`, `AppendLinked`, `DetachLinked`, `InsertLinked`, `DeleteLinked`.
Replacement is shown to be an insertion followed by a detachment
(`SubstituteIsInsertDetach`), which spares a proof of its own. Reachability is the
hard part: it is a least closed set, so each lemma exhibits a closed set in the old
heap made from one in the new. `DeleteSetIsTree` shows that `cJSON_Delete` frees
exactly the tree of the item. `ManipTheorems` lifts these to the API calls,
whose failures leave the links as they were or delete a fresh item, and has one
step per action in `LinksInductive`. The properties follow from `LinksInv`.

### Strings of the item API (`ManipStrings`)

`StringsInvariant`, `AlwaysStringsOwnedOnce` and `NeverFaults`, under the same
assumptions. `StringsInv` says of a heap what `StringsOwnedOnce` does, that a constant key
is a literal or `NULL`, and that there has been no fault. It is not inductive alone:
that `cJSON_Delete` frees each block once needs each item of the tree to be visited once,
which is `LinksInv`. So the induction is about both.

Most operations change what *one* item owns. `OneItemStrings` is the lemma for them: when
only item `i` changes (`Exchanges`), what it gives up is freed and what it takes was
free, the invariant is kept. `RekeyStrings` is the exchange of a key, in all four ways the
flags allow, with the key that is the item's own; `SetValuestringStrings` that of a
value, in place or moved. A change of links alone is no change (`SameStringsInv`).
`DeletesSafely` is the step that frees more than one item's strings.

### What the header promises (`ManipRefinement`)

`ManipImplementsForest`: `Manip` implements `Forest`, so that the effect of every call
on the order of the children is the one the header describes, for trees of any shape. The
one further assumption is `MemoryAssumption`, that there are finitely many addresses:
`cJSON_GetArraySize` counts, and would not end in an endless list.

*What is related.* `Kids(h, ks)` says that the function `ks` gives the sequences of
children of the heap `h`: each begins at `child`, ends at the item without `next`, and
follows `next` in between. `KidsAreChildSeq` shows that a linked heap has exactly one such
function, the one the refinement mapping computes with `GetArraySize` and
`GetArrayItem`; it is an induction along the list, with `SetInduction`.

*The argument.* For each primitive one lemma says which `ks` the new heap has: `AppendKids`,
`DetachKids`, `InsertKids`, `DeleteKids`; replacing is again inserting and detaching. The
`...Stands` lemmas carry this over to the API functions, failed
allocations included, and the `...Step` lemmas turn it into a step of `Forest`, one for each of its actions.
`SubtreeIsReach` shows that what `Forest` destroys, the items below one
by its sequences, is what `cJSON_Delete` frees by its pointers. `StepsArePromised` then has
one step per action of `Manip`: an action, or nothing when a call fails.

*Induction.* The library's induction theorems take a predicate as a parameter, which the
provers cannot instantiate. `LeastNumber` has the predicate as a set: a set of naturals
that is not empty has a least element (`LeastElement`), from the library's theorem that
strict inclusion is well-founded on finite sets, and so a set with 0 and all successors
has all naturals (`SetInduction`).

### The printer (`PrintTheorems`)

`PrintInvariant`, `PrintTypeCorrect`, `PrintWritesInside`, `PrintFreesOnce`, for
every job whose steps write no more than they reserve (`JobAssumption`), all
sizes and every `MaxInt` (`SizeAssumption`). The invariant is `TypeOK`,
`WritesInside` and `BuffersFreedOnce` together with what the code never says: a
running print holds a buffer, since every path that loses it fails, and one that has
not begun has written nothing. `NewSizeSuffices` is the arithmetic of the doubling
and the clamp.

`PrintReadsText` is about `strlen`: it is called only where a NUL has been written,
because a job measures only after a step that leaves one (`MeasuresText`, a part of
`JobAssumption` that the steps of `Printer` satisfy). `TextInv` says so of the step before.

`PrintHandsOutText` and `FiveBytesSuffice` are about the text: a print that succeeds, by
whichever entry point and however often the block moved, hands out all of it and its
NUL; and a client's block with five bytes to spare is never refused. Both have the
hypothesis that the steps of each job put its text together (`SpellsText`), which says
nothing of buffers: `Layout` runs the steps on two numbers, the place to write at and
the end of the text. The invariant `LaidInv` is that a running print stands where the layout
does, that a NUL that has been written is still in the block, and that a step fails in the client's block
only when the block is too small or the value has no text. `RoomForStep` shows that a step
which reserves no more than the text's width and five has room.
`Steps` and `Width` are RECURSIVE, so that the hypothesis itself, for each value, is
TLC's (`StepsSpellText`).

### Minify (`MinifyTheorems`)

`MinifyStaysInside`, `MinifyReadsWhatWasPassed` and `MinifyLeavesTheRest`, for every text of every
length. The only assumption is that texts consist of symbols
(`TextAssumption`). `TypeOK` is not inductive: that a helper may step over two symbols
needs the first not to be the NUL *and* the NUL still to be where the client put it, which
holds because no write reaches what is unread. `UnreadIsUntouched` in turn needs the
reader to move at least as far as the writer. So the invariant `MInv` is both at once.
`LookAheadInside` is the fact about the next symbol; `CopyOneKeeps`,
`CopyEscapedQuoteKeeps` and `TerminateKeeps` cover the steps that write and `ReadKeeps`
those that only read; and there is one step per action in `NextMInv`.

`MinifyLeavesTheRest` is functional correctness: of a text of whole lexemes what is left is
the strings and other symbols, each as it was and in their order. The
invariant `LexInv` says where the call stands: between two lexemes or at the `i`-th symbol of
one (`Reading`), with all that is kept before it written; in a string, at a quote only if
that closes it, which is where the code's one look behind a backslash has to suffice. It rests on
`FlattenSeq` being what it should be (`FlattenAppend`, `UptoSteps`, `LexemeAt`), by
inductions along the text with `SetInduction`. Four lemmas move along a lexeme that is
dropped or kept and beyond it (`ReadsOn`, `ReadsBeyond`, `CopiesOn`, `CopiesBeyond`), and one
lemma per action uses them; that a stray slash never occurs is `DropSlashNever`.

### Strings (`StringTheorems`)

`DecodesStayInside`, `DecodesAsTheRfcSays` and `PrintedIsParsedBack`, for every text of bytes
of any length (`TextAssumption`). A state holds the outcome of a call or none (`StringsInv`);
the work is in what the loops of the call compute.

*The block.* The scan takes two bytes for an escape, the decoder two, six or twelve; and as
`\u` is taken for an escape whatever follows, the decoder may stand where the scan
never did, at the second half of an escape. So it is not enough to count escapes at the
places of the scan. `ScanCounts` says of a function `c`, how many escapes begin before a place, that
between *any* two places `c` grows by at most half the bytes between them, rounded up.
`EscapeFits` says that an escape writes no more than its bytes less the escapes that
can begin in it, and `DecodeOneInBlock` that what is decoded stays within the bytes read less `c`.
A decoder that is out of step can take the closing quote for the second byte of an
escape and end one byte beyond it. The parse succeeds all the same, and for its NUL there is
still the last byte of the block, which is spare otherwise.

*The standard.* `DecodesAsTheRfcSays` compares two readers. `SpelledCases` to `EscapeIsSpelled`
show that an escape is decoded exactly where the standard sees a character, to the same
bytes: `ParseHex4` to `Unit`, `Utf8Encode` to `Utf8Of`, the bits of a pair to its
arithmetic. That the decoder knows where the text ends and the standard's reader does not
makes no difference because the scan passes over every escape the reader does
(`ScanComesBy`, `UnitIsPassed`). `StepSame` is one step of both, `DecodeIsCharacters` all.

*The way back.* `WrittenLayout` gives the literal as places: where each byte's
spelling begins and that it stays what it was. `LiteralAt` is what stands there, `ScanLiteral` shows that
the scan goes from one to the next and ends at the quote, `DecodeLiteral` that the decoder
does and writes the bytes. `LengthIsCounted` says that the first pass of the printer
counts what the second writes.

*Loops.* The model gives a loop as many passes as it could need; `ScanStops` and
`DecodeStops` show that these are enough, so that a theorem about the model is one about the
loop. `ScanIsPasses` and the like give each loop its equations; an induction along it is
`LoopInvariant`.

### The parser (`ParserTheorems`)

`ParserStaysInside`, for every text, nesting limit and allocator. `InsideBuffer` is not
inductive. `Place` adds where each step may begin: an element or a name only where a symbol
is left, which the step back of `buffer_skip_whitespace` and the step back before a first
element have to preserve (`SkipWhitespaceInside`); and that an error is never
reported for a text that has not been looked at (`ErrorInside`).

`ParseIsAllOrNothing`, the same way for every text, limit and allocator, assumes only
`AddressAssumption` and `TextAssumption`. While a parse runs, the lists of the calls in
progress are in no item: `head` and `current` are locals until `CloseList`. The
invariant `Ownership` gives them to the items they will belong to.

*The invariant.* `Begins` counts the `head` of a frame as beginning the list of the frame's item, and
`Follows` is that or `next`. `Structure` says there is a function `age`, the order in which
the items were made, such that whatever follows an item is younger (`Ordered`, which excludes
cycles); each item but the root follows exactly one other, in one way (`OnePlace`); `prev` is
the inverse of `next` (`BackLinked`); a finished list knows its tail, and no list in progress goes on
from there (`Tails`); and a list in progress runs from `head` to `current`, on which the frames above
it stand (`Frames`). `Memory` says that each string block has one owner, and that what has been freed
is as it was before it was made, which is what makes the heap of a failed parse *equal* to the
empty one. The rest of `Ownership` is what each label expects of the item it parses into: a
value or a name that came to an item which already had one would leak it.

*The argument.* One lemma per change of shape: `ElementShape` (a new item, the first of its list
or the next), `OpenShape`, `CloseShape`, and `DropShape` for the deletion of a list in progress
when a failure unwinds its frame. For the last, `Dropped` says what `cJSON_Delete` reaches
from `head`: neither the frame's item nor anything the frames below hold, since those are
older (`OldestFirst`), and nothing else leads into it. `DeletesSafely` shows that every item is
then met once, and `DeleteMemory` that its strings go with it; the `...Keeps` lemmas do
the strings of the other steps. `RootFreesAll` is the conclusion: without frames everything is reached
from the root, for the oldest item that were not would follow an older one, which is
(`LeastElement`). `OwnershipInductive` has one lemma per action.

`ParsesTheGrammar`: while memory lasts, a text is accepted if and only if it is a value of
the grammar no deeper than the limit, behind blanks and a byte order mark and, on
request, before blanks and a final NUL. It holds for every text, also the ones on which the parser steps back
from the end of its buffer. When an allocation fails the parse fails, and
`ParseIsAllOrNothing` says what that leaves.

*The invariant.* `Reading` says at each label that the text is well-formed *if and only if* what
is left completes it: a value begins here (`Ahead`), or a member, or a sequence of items
(`ElementsAhead`), and behind it the lists in progress can be closed one after the other
(`Rest`, which asks for an end of each frame's item). Both directions are in it, so a step that gives
up must show that *no* parse exists. `depth` is the number of frames, which makes the limit
the grammar's.

*The argument.* Three facts about the grammar carry it. A value, and an item, begins with a
symbol that is no blank, comma or closing bracket (`ValuesSolid`, `ItemsSolid`), and that symbol
says of which kind it is. A separated list is its first item and either its end or a comma and a
separated list (`OneByOne`). A value nested less deep is one nested deeper
(`ValuesByDepth`). `SkipsTo` and `SkipsToEnd` are the blanks: whether
the parser goes over them once or twice, or steps back over the last of them, it finds the same symbol
(`SkipTwice`). One `...Ahead` lemma per kind of symbol turns what is ahead of
a step into what is ahead of the next, and one `...Reads` lemma per action puts them together.
It uses of `Ownership` that the innermost frame has a `head` once an element was read, and assumes
`TextAssumption` (a name is none of the other symbols) and `AddressAssumption`.

`ParsedTreeSaysTheText`: the tree a parse returns, written out item by item, is what the parse
has read. Together with `ParsesTheGrammar` this makes the parser correct: it takes the texts of the
grammar and nothing else, and of each it makes *the* tree. It holds whether or not allocations
fail, and for every depth.

*The invariant.* While a parse runs the tree is in pieces, and `Render` applies to none of
them. `Recalling` says that there are three functions: `told` gives each item what it and
those behind it say, which in a list in progress ends where its current item begins; `place` the
frame in whose list an item is (0 in a finished one); `spoken` what the frames say as far as
each goes (`Opened`: name, bracket, and what is told of the `head`). `Telling` and
`Speaking` are the equations they obey, and `Recalls` says of each label that what has been
read is `spoken` of the frames and then what the item at hand says so far: nothing
(`key`), its name (`value`), or all of it (`after`).

*The argument.* One lemma per change: `FilledTells` (the item at hand gets its value or name),
`PushedTells` (a frame), `EnlistedTells` (an item, at the end of a list: all that is told of
that list grows by the item before it and a comma) and `ClosedTells` (a list: all that is
told of it grows by its last item, and its container says the whole). The `...Says` lemmas give
what each step changes of what an item looks like (`Alike`), `ReadOn` what it reads, and one
`...Recalls` lemma per action puts them together. At the end no frame is left, so `told` obeys the
equation of `Render` on every item. The equation has one solution (`SaidOnce`, `Rendered`), although
no induction on trees is at hand: where two differed they would differ on an item that says least
(`LeastElement`), and what is below and behind that says less (`SaysLonger`). The
linked structure that all this walks comes from `Ownership`.

### Model-checked only

* Everything in the modules marked "TLC only": their RECURSIVE operators, which walk
  lists and trees as the code does, are outside the provers' reach. That
  includes `ImplementsDocument`, the refinement of RFC 6902, and `StepsSpellText`.
* `Terminates`: liveness under fairness is out of the provers' reach.

## 5. What is not modelled

* *Numbers*: `valueint` saturation, `strtod`, the epsilon comparisons, and the
  formatting of doubles. Data without control, in arithmetic TLC does not have.
* *Hooks*: replacing the allocator while its blocks live is the client's error.
* *Unchecked allocations*: `create_patches`, `compose_patch` and `FindPointerFromObjectTo` write
  to their path blocks without looking whether they got them; the models give
  these calls the memory. Memory that runs out in `generate_merge_patch` is left out too.
* *The life of the client's text* after a parse, to which `cJSON_GetErrorPtr` points.
* *Client errors*: storing an item below itself, reading through a dangling
  reference, sorting or patching through a reference, replacing the root of a
  document that is a member of another, merging a merge patch that is `NULL`.
* *C ABI shims, reference crate, harness, tests, scripts*: no state of their own.

## 6. The plan

Done: the item API with its proofs about links, strings and order; sorting, copying, comparison; the
parser, the strings inside it, the printer and `Minify`, with their proofs; pointers, patches and merge
patches with their standards. Next:

1. `sort_list` with the links as the induction, so that `LinkedAfterSort` is proved.
2. References inside a document that is patched.
3. The allocator's hooks: which of the three the library uses after `cJSON_InitHooks`.
