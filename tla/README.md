# A TLA+ model of VulkanConfigurator

VulkanConfigurator is a C++17 library that reads an XML file and fills Vulkan API
structs with what it finds there. An element `<struct type="VkFoo" id="1">`
describes a struct, the `<field name= type= value=>` elements inside it its members.
A value `&id:1,&id:2` of a field of type `const VkBar *` asks for the `VkBar` structs
with these ids, which may come before or after the field. The result is a map from
type names to structs, which the application reads through `VulkanMap::get<T>()`.

This directory models the part of the library that decides what ends up in that map,
from the look-up of a type's name to what `get<T>()` returns.
Source paths below are relative to the root of the repository; the library itself is
in its directory `src/`.

## Inventory

| Part | State | Operations | What makes it correct |
|---|---|---|---|
| `XmlProcessor` (`src/XmlProcessor.*`) | `extractorList`/`extCount`/`extractor`, `childTypes`, `idTagFound`, `inField`, `inStruct`, `error`, `structs`, the attribute table | `process`, `parseConfig`, `VisitEnter`, `VisitExit` | a struct that ends is in the map under its type, complete; every problem is reported |
| `ParentChildFieldLink` (`src/ParentChildFieldLink.*`) | `parentIds`, `childCount`, `childInfo` | `add`, `getTypeForField`, `erase`, `clearParTags` | a field waits until it has its children, and no longer |
| `ChildTypeParentFieldMatching` (`src/ChildTypeParentFieldMatching.*`) | `children`, `count`, for one `VisitExit` | constructor, `findMatchChildLocForField`, `convertChildStructToVal` | only children that were asked for, of the right type |
| `StructFieldExtractor<T>`, `FieldExtractor` | the struct, the table of member positions | `setFieldForStruct`, `iterateFieldPositions`, `convertToFieldValue` | a value goes to the member named |
| `ErrorState` | a set of flags | `setError`, `isError` | no problem is forgotten |
| `VulkanMap` | pointer to `structs` | constructor, `get` | the struct of that type, or a fresh default |
| `StrHashTable` | chains of five keys, `bucketCount` | `setup`, `add`, `get` | what was added is found, nothing else is |
| `EnumBitOpSplitter` | the pieces of `A \| B & C` | `calculate` | the value C++ gives the expression |
| `ArenaPoolAlloc` (`src/ArenaContainers.hpp`) | `ptrStore`, `index`, `nextAvailPos` | `malloc`, `free` | each live block has a record |
| `Configurator::TypesFor` | type and alias tables | `getType` | an alias leads to its type |

Interaction. Everything is synchronous, in one thread. `VulkanMap` calls
`process()`, which lets tinyxml2 walk the document. The walk calls `VisitEnter` and
`VisitExit`, and *obeys their results*: `false` from `VisitEnter` skips the content of
the element (its `VisitExit` is called all the same), `false` from `VisitExit` skips
the siblings that follow. `VisitExit` builds a `ChildTypeParentFieldMatching` from
`childTypes` and the strings of `ParentChildFieldLink`; `getTypeForField` calls back
`processParentChildFieldInteraction` for each waiting field, which writes the field,
stores structs and renames a child.

What is hard here: the processor keeps flags about the element that *opened* last and
uses them for the element that *closes*; children and parents come in any order and
nest; the waiting fields are served in the order of a hash table; a struct is copied
into the map at one time and written at another; fixed arrays are indexed without a
check; nothing is reset between two calls of `process()`. `PROJECT.json` lists each
such hazard at its line.

Not modelled:

- The generated headers (type, alias, enumerator and member lists): they are data, and
  parameters of the models. Their one function, `setupAliases`, is in `TypesFor`.
- The scripts that generate them, and sources that nothing includes.
- `UtilityTypes`, `is_static_castable` and their like: computations of the compiler.
- The Vulkan example framework and the demos at the root, and the vendored libraries
  (imgui, folly, ctre, magic_get, cxx_function, visit_struct, magic_enum, ctti). They
  are all but a few of the repository's lines, and none of its own logic: of the
  hand-written library, about two thousand lines, the models leave out the destructor,
  the allocator adaptors and the conversions chosen at compile time.

## Modules

| Module | Models |
|---|---|
| `ParentChildFieldLink` | the table of references; the constants shared by all |
| `ChildTypeParentFieldMatching` | EXTENDS it with the children of one `VisitExit` |
| `XmlProcessor` | EXTENDS both: the visitor, the walk, `process()`; `Spec` |
| `XmlProcessorProperties` | invariants, action properties, the refinement |
| `StructStore` | abstract: the map of structs as a client sees it |
| `XmlProcessorClaims` | what tests and comments say and the code does not keep |
| `WellFormedDocuments` | the documents of the unit tests, and what the code does for them |
| `VulkanMap` | EXTENDS the processor with `VulkanMap`'s constructor and `get`; `MapSpec`, with fairness |
| `StructFieldExtractor` | the attribute table and the table of member positions, with their hashes |
| `EnumBitOpSplitter` | the value of a text like `A \| B & C` |
| `StrHashTable` | the chained table, one key per step |
| `StringMap` | abstract: what a client of the table may rely on |
| `TypesFor` | two instances of `StrHashTable`: types and aliases |
| `ArenaPoolAlloc` | the record keeping of the pool allocator |
| `MC...` | small instances for TLC |
| `...Proofs` | the theorems |

How they fit together: `XmlProcessor` takes from the others what it needs as a
parameter. Which types exist (`StructTypes`, `OpaqueTypes`, `NullWrapper`) is what
`TypesFor` finds for a name; whether a text can be read, and with which complaints, is
what `EnumBitOpSplitter` computes; which member a name writes, and which attribute a
name finds, is `StructFieldExtractor`. Each of these is modelled in a module of its
own because the composition would multiply states that do not interact: none of them
reads or writes what the processor keeps from one element to the next, except through
the member written and the flags set.

State. Extractors are numbered in the order of `extractorList`, `0` is `nullptr`;
`extractorType` and `container` hold the type each was created for and the members
written. A type the list does not know is `NullWrapper`, as in the code; an
`OpaqueTypes` member is a listed type without members (a scalar or an enumeration),
whose extractor is the general template of `StructFieldExtractor`. A child key
`"id:Type"` is a pair; `childTypes` maps it to an extractor, and `resolvedKeys` holds
the keys renamed to `"0:id:Type"`. A reference string is the sequence of the pieces
appended to it, because the strings are never emptied: a string with two pieces equals
no key. `elementId` and `references` are history variables for the properties only.

Actions. Every branch of `VisitEnter` and `VisitExit` is an action that does all that
the branch does and returns its result to the walk (`Descend`, `Ascend`). Only the
`VisitExit` that resolves references takes several steps: `ExitMatch` constructs the
matching object, one `Link...` step is one turn of the loop of `getTypeForField`,
`LinkDone` ends the call. While `phase = "linking"` nothing else happens. The order of
the turns and the order of the copied children are free, as the order of an
`unordered_map` is. Two further phases end the program: `terminated`, when
`std::bad_any_cast` leaves a `noexcept` function, and `undefined`, for an access
outside an array, a read of an entry never written, or a call of a null handler. What
happens after these is left open, and no property speaks about it.

The document is the environment: in every state any element may open, up to the bounds.

Abstractions, beyond names and values being model values:
- `XmlProcessor` looks attribute and member names up exactly; that the code hashes
  them is `StructFieldExtractor`. Ids are whole.
- A reference has at least one id. Which of two type names is a prefix of the other
  is not modelled: types are compared as wholes.
- The test for `ENUM_TYPE` at `src/XmlProcessor.cpp:173` never holds, since the type
  list holds enumerations wrapped; such an element gives `STRUCT_META_MISSING`.
- `isFieldInStruct` compares a `uint8_t` with -1 and is always true, so
  `FIELD_HASH_INVALID` is never set, and an unknown name changes no member.
- A field holds the numbers of its children, not copies of their content.
- A name whose member cannot take a value of the type the element gives behaves like
  a name no member has (`UnknownField`); the other names stand for members of the type
  given.
- In `XmlProcessor`, reading a text is one step whose complaint is an input: nothing, a
  set of enumerator flags, or no value at all.
- In `StructFieldExtractor` every member takes every value; the extractor stays the one
  created last, as in the code; ids and `VisitExit` are left to `XmlProcessor`. The two
  scale factors of the code (`XmlProcessor.hpp:27`, `FieldExtractor`) differ in their
  last bit, hence two index functions.
- In `EnumBitOpSplitter` a text is a sequence of parts, a value a set of bits. An
  operand lost, a number taken alone and a variable never assigned are as in the code;
  the bytes of the copies (one too few is allocated for the terminating zero) are not.
  `MapEntry` is what `StrHashTable.get` finds for a name: the name, a longer listed name
  of the same chain, or, for the empty name, whatever is in the first place of its
  chain, which may be nothing (a value of zero). A piece of blanks is read like any
  other, as the empty name. A piece without any character is read so too if it is the
  last one and the byte before it, with which the code compares, is no operator;
  otherwise `strtok` returns a null pointer, and the read of it is `undefined`.
- In `StructFieldExtractor` the empty value of a number is such a piece: it gives
  `BlankValue`, what the table has for the empty name, without a complaint, or it is
  `undefined` (`EmptyPast`). `Readable` are the texts for which a
  value is found, be it by a beginning; `Zero` stands for texts that are found nowhere.
- In `StrHashTable` the hash of the characters is any function, its scaling is the
  code's. A key is shorter than the 255 characters the code reserves.
- `ArenaPoolAlloc` never gets an address twice: folly's arena gives nothing back.
- With `childInfo` empty, `erase` is called through a null `childLoc`
  (`src/ParentChildFieldLink.cpp:53`); it then compares nothing and erases nothing,
  and is modelled by that outcome.
- Allocation succeeds. The destructor is not modelled.

## Runs

`CHECK_DEADLOCK FALSE` in all of them: the program does stop, when its calls are used
up, when it is terminated, or at an access the model does not follow.

| Run | Bounds | Shows |
|---|---|---|
| `linked` | 6 elements, depth 3, arrays of 4; two struct types, three child keys, a plain parent and an element without members; a member for an array of two structs, one for a single struct of the other type; 3.1 M states | all invariants and action properties below; `StoreRefined` |
| `failing` | 5 elements, depth 3, 2 `VulkanMap`s of one processor, arrays of 3; unknown and opaque struct elements, unreadable text, enumerator complaints, files that do not load; 420 k states | `PendingFlag`, `StoredIsCurrent`, `UndefinedHasCause`, `StoreRefined` under failure; `WaitingFieldsReported`, `MapTellsAll` |
| `single_reference` | well-formed documents of 7 elements, one reference; 192 k states | `SingleReferenceResolved`, `NothingSkipped` |
| `hash_table` | 6 keys offered to 4 chains of 2, five different keys; 3.7 k states | the table invariants, `AnswersStay`, `MapRefined` |
| `types_for` | 4 types and 3 aliases, 5 chains of 2, every selection and order; 340 states | `NamesLeadToTheirTypes`, `UnknownIsNullWrapper` |
| `enum_text` | all texts of up to 4 operands out of 10 (enumerators of either source, with and without blanks, a beginning of one, a number, blank, empty, unknown), two bits, both readers; 895 k states | `SilentMeansRight`, `LossIsReported` |
| `arena_pool` | 3 entries, 7 calls of `malloc`; 8.7 k states | `TwoAreRecorded`, `StoreLasts` |
| `members` | 5 elements out of 23, tables of 4, two struct types that share an index; 16 k states | `NothingLeaks`, `LastGivenHolds` |
| `claim_plain_struct` | well-formed documents of 7 elements, several references | violated: `PlainStructIsStored` |
| `claim_order` | same | violated: `ChildrenInReferenceOrder` |
| `claim_saved` | same | violated: `EveryReferenceSaved` |
| `claim_unassigned` | same | violated: `UnassignedMeansUnassigned` |

Why these bounds suffice: six elements are two parents that refer to two types and two
children, which is what it takes for two fields to wait at once, for children of two
types to meet in one `VisitExit`, for a struct to be completed by its own child and
for a key to be matched again after it was renamed. Arrays of four (instead of 255)
make both overflows reachable in the same documents. Depth three puts a struct inside
a field inside a struct. Ids and types are not declared symmetric: the documents name
them unevenly.

For the tables: chains of two are full after two keys that meet, and six keys exceed
a table of four twice over. Four operands are two more than the two operators the code
can count. Seven blocks in three entries use each entry twice and one more. Five
elements are two structs and three fields, or a field before any struct, an attribute
left out behind one given, and a member written through another's index.

How near the real data are to the edges, counted over the generated headers with the
code's hash: the 65 enumerators of `VulkanEnumMap.hpp` fill chains of at most two (of
five places), and none begins another; the 13 aliases have one shared chain
(`uint32_t`, `VkFenceCreateFlags`); the attributes `type`, `id`, `name` and `value`
have four different indices. But of the 445 structs that can be filled, 22 have members
that share an index, and 46 members can never be written by their name, among them
`sType` of `VkImageViewCreateInfo` (behind `subresourceRange`), `stageCount` of
`VkGraphicsPipelineCreateInfo` (behind `basePipelineHandle`) and `pSwapchains` of
`VkPresentInfoKHR` (behind `pImageIndices`). `LastGivenHolds` is true only with its
hypothesis `Alone` for this reason. No member has the index past the end.

The properties, and what could break each:

- `PendingFlag`: `idTagFound` and `childInfo` are two records of "a field waits".
- `PointersRegistered`: raw pointers in four tables, whose types rest on string keys.
- `StoredIsCurrent`: the map holds copies; a copy must have what references gave the
  struct afterwards.
- `OnlyNamedChildren`: strings of old references stay in the array and are appended to.
- `ArraysOfOneType`, `TerminatedHasCause`: all collected children go through one cast.
- `RenamedKeyExists`: each turn of the loop writes through a node that must exist.
- `UndefinedHasCause`: there are four ways into undefined behaviour and no fifth.
- `ErasedOnlyWhenSettled`: `erase` goes by the turn that happened to be last.
- `OnlyLinksReplace`: `emplace` and `operator[]` are mixed on one map.
- `InnermostIsStored`: in a document without ids and references, the storing of the
  struct that opened last must survive the shortcut condition of line 365, nesting, and
  elements around it. It says of the others what happens to them: of
  `<struct A><struct B/></struct>` the map gets B and never A, because the end of B
  clears `inStruct`, and a refused struct inside A drops A as well.
- `StoreRefined`: the map refines `StructStore`.
- `WaitingFieldsReported` (liveness): a waiting field is served or reported.
- `MapTellsAll`: the constructor drops the result of `process()`, so the flags it
  copies must say as much; and `get` dereferences a cast that must not fail.
- `ValidKeepsAll`, `FoundWasOffered`, `OutsideHasCause`, `AnswersStay`: `add` drops keys
  and counts them all the same, and `get` compares up to the end of the name it is
  given. `isValidState()` must be enough to know that nothing was lost.
- `MapRefined`: the table refines `StringMap`.
- `NamesLeadToTheirTypes`, `UnknownIsNullWrapper`: two such tables in a row, with an
  alias in front of the type and blanks in both.
- `SilentMeansRight`: what a text without complaint stands for, although operands are
  counted by the different operators, evaluated from right to left, and looked up with
  their blanks. Silence does not mean that every operand is an enumerator: the table
  answers for the empty name (so `A | ` leaves no complaint) and for the beginning of a
  longer name of the same chain. The property says that these are the only mistakes
  (`Mistaken`), and that without them the value is the one C++ gives the text, unless
  an `&` stands before a `|`. A number in front is outside of it.
- `LossIsReported`: the operator behind the last piece is what tells a lost operand.
- `TwoAreRecorded`: `malloc` moves `index` before and after a reused entry differently.
- `StoreLasts`: entries are not given back, but used twice.
- `NothingLeaks`: both tables are arrays without names, filled for one element, or one
  struct, and must say nothing about the next.
- `LastGivenHolds`: without shared indices, such tables are as good as names.
- `SingleReferenceResolved`, `NothingSkipped`: the feature itself, end to end, for the
  documents the code is right about.

Fairness. `MapSpec` has weak fairness of `ConstructorEnds` and `Exit` only:
`process()` is one synchronous call on a finite document, so the elements that are open
are closed, the call returns, and with it the constructor. Nothing obliges a caller to
make a `VulkanMap`, nor a document to contain an element.

The four violations are disagreements between the code and its tests or comments,
each a document of at most seven elements: a plain struct dropped because a stored
struct had an id; the children of an array in hash order; the second of two fields that
wait for the same type forgotten; and `FIELD_LEFT_UNASSIGNED` reported with every
field assigned, because the loop erases only the entry it visited last.

## Proofs

The proof modules prove for all constants that satisfy the named assumptions of the
modules they extend (finite sets of ids and types, array lengths above zero, distinct
"none" values, indices within the tables for the names the library itself looks up,
type names and aliases that are unique and not blank):

| Theorem | States |
|---|---|
| `TypeCorrect` | `Spec => []TypeOK` |
| `PendingFlagHolds` | `Spec => []PendingFlag` |
| `PointersRegisteredHolds` | `Spec => []PointersRegistered` |
| `StoredIsCurrentHolds` | `Spec => []StoredIsCurrent` |
| `RenamedKeyExistsHolds` | `Spec => []RenamedKeyExists` |
| `OnlyLinksReplaceHolds` | `Spec => OnlyLinksReplace` |
| `ArraysOfOneTypeHolds`, `OnlyNamedChildrenHolds`, `TerminatedHasCauseHolds`, `UndefinedHasCauseHolds` (`MatchingProofs`) | `Spec => []ArraysOfOneType`, and the three other invariants |
| `InnermostIsStoredHolds` (`MatchingProofs`) | `Spec => InnermostIsStored` |
| `SingleReferenceResolvedHolds`, `NothingSkippedHolds` (`MatchingProofs`) | `SingleReferenceSpec => []SingleReferenceResolved`, and `NothingSkipped` |
| `ErasedOnlyWhenSettledHolds` | `Spec => ErasedOnlyWhenSettled` |
| `StoreRefinedHolds` | `Spec => StoreRefined` |
| `MapTellsAllHolds`, `MapUsesProcessor` (`VulkanMap`) | `MapSpec => []MapTellsAll`, `MapSpec => Spec` |
| `TableTypeCorrect`, `ValidKeepsAllHolds`, `FoundWasOfferedHolds`, `OutsideHasCauseHolds` (`StrHashTable`) | `Spec => []TypeOK`, and the three invariants |
| `AnswersStayHolds`, `MapRefinedHolds` (`StrHashTable`) | `Spec => AnswersStay`, `Spec => MapRefined` |
| `NamesLeadToTheirTypesHolds`, `UnknownIsNullWrapperHolds` (`TypesFor`) | `Spec => []NamesLeadToTheirTypes`, and the other invariant |
| `EnumTypeCorrect`, `SilentMeansRightHolds`, `LossIsReportedHolds` (`EnumBitOpSplitter`) | `Spec => []TypeOK`, and the two invariants |
| `PoolTypeCorrect`, `TwoAreRecordedHolds`, `StoreLastsHolds` (`ArenaPoolAlloc`) | `Spec => []TypeOK`, and the two invariants |
| `FieldTypeCorrect`, `NothingLeaksHolds`, `LastGivenHoldsAlways` (`StructFieldExtractor`) | `Spec => []TypeOK`, and the two invariants |

The argument. `TypeOK` alone is not inductive: inside the loop, `GetType(extractor)`
must be a type that can be stored and `extractor` must not be null. `LoopInv` adds what
`ExitMatch` established and the turns keep: there is a current extractor of a struct
type, the flag is reset, and `todo` only names fields that wait. On top of
`TypeOK /\ LoopInv` each invariant is proved by one lemma with one step per action:
`PointersRegistered` needs nothing more; `StoredIsCurrent` needs `PointersRegistered`
(a replaced entry goes under the type of a registered extractor, and its other members
have not changed); `RenamedKeyExists` needs that a turn renames a key of its own type
and that a child has one type. `ErasedOnlyWhenSettled` needs one more conjunct,
`LastSettled`: between two turns, the field of the last turn holds structs of its type.
`ArraysOfOneType` needs that the children a field holds are registered, so that their
type stays; `OnlyNamedChildren` needs `StringsNamed`, that every piece of every string,
in use or left behind, is a key some reference named. `TerminatedHasCause` follows from
the guard of the one step that terminates. `UndefinedHasCause` needs `RenamedKeyExists`,
which rules out the renaming of a missing key, and `CountsHaveCause`: the constructor
counts strings and copies entries, so by the pigeonhole principle a count above the
number of copies means two equal strings. `InnermostIsStored` needs `FlatState`:
without ids and references there are no child keys, so no child is looked for and the
branch of `VisitExit` that stores is the only one that can be taken; and while
`inStruct` is set, the current struct is not in the map yet. That a new extractor is
in no entry follows from `PointersRegistered`.
`SingleReferenceResolved` and `NothingSkipped` are about documents of any size, depth and
names, with one reference to one id. `SingleInv` follows the one field through its
life. `StageInv` says where it is: it waits, alone in `childInfo`, and unless a struct is
open its child did not come yet; the child was collected, and the loop has its one turn
before it; the loop had its turn; or the field is filled, forgotten, and its struct is not
open any more. `TableInv` makes the first stage exact: a struct element with an id is
in `childTypes` under its key or was used, so a child that is not there did not come.
`WalkInv` is what the walk adds: in such documents every open element will be closed, no
struct is open between two calls, and nothing was complained about; this leaves a dozen
of the actions (`PlainNext`), of which the stages are proved one by one.
For `StoreRefined` each action maps to a stutter, `NewElement`, `Keep` or `Adopt` of
`StructStore`.

The other modules, each with an inductive invariant of its own:

- `StrHashTable`. The places of a marked chain up to its count hold keys that were
  offered and have its index, an unmarked chain has a count of zero and no key, and
  while the count of offers is below the size every offered key has a place. From this
  follow what is found and what is not. An insertion touches only the place behind the
  count, so the first hit of any question is the one it had, or the new place if it had
  none: that is `AnswersStay`, and, read as `Put`, the refinement of `StringMap`.
- `TypesFor`. The constructor's two tables are instances of `StrHashTable`, so the
  theorems of `StrHashTable` are instantiated too, twice, and their invariants carried
  through the stages of the constructor. New is that a table holds only listed pairs,
  from which the value found under a key is the one listed with it: names are unique.
- `EnumBitOpSplitter`. The stack holds what the first parts of the text stand for, in
  order, and the flags say whether a look-up failed. Operands
  are counted by the *different* operators: a text has at most two of them, so at most
  three pieces are read, and what is left is lost. The evaluation from right to left is
  therefore at most three levels deep and is unfolded, without induction, and compared
  with what C++ makes of the text.
- `ArenaPoolAlloc`. `PoolInv`: only entries below `nextAvailPos` are written, and a new
  one is taken after two calls of `malloc` (hence `StoreLasts`). While there were never
  three blocks at a time, every block has its record; a new entry is only next while a
  block is alive, and an entry that records a live block is only next if there are two,
  so a third would have to come before it is lost.
- `StructFieldExtractor`. Positions are those of the current struct's members; the
  attribute table is empty between two elements, which makes each value one of the
  element's own; every value is recorded in `given`, and the last one under each exact
  name in `latest`.
- `VulkanMap`. `MapSpec` implements `Spec` with stuttering, so every invariant of the
  processor holds in it. New is `FlagsTell`: between two calls, no flag means that the
  last result was true and nothing waits. `get` needs `StoredIsCurrent`.

Only model-checked: `WaitingFieldsReported`, a liveness property under fairness, which
is out of the prover's reach. Every other property of the passing runs is a theorem.

## Plan

Done in this order: the reference table, the matching, the processor with its
properties, the abstract store, the claims and the first theorems; then the chained
table with its abstract map and its theorems, the type look-up, the enumerator texts,
the pool allocator, the tables of attributes and members, and `VulkanMap` around it
all.

Last came the theorems for every safety property that had only been model-checked: the
processor's, then those of the enumerator texts, the type look-up and the documents with
one reference. Left is a composition of the processor with the enumerator texts and the
tables of members, which it now represents by the complaints and field names of its
literals, and the question how far `SingleReferenceResolved` reaches: for two references
to two types of which no parent is a child it may still hold, for two of one type it does
not (`claim_saved`).

## Running

| Configuration | Module |
|---|---|
| `MCXmlProcessor.cfg` | `MCXmlProcessor` |
| `MCXmlProcessorFailing.cfg` | `MCVulkanMap` |
| `MCSingleReference.cfg`, `MCClaims*.cfg` | `MCClaims` |
| `MCArenaPoolAlloc.cfg` | `ArenaPoolAlloc` |
| any other `M.cfg` | `M` |

For example `tlc -config MCXmlProcessorFailing.cfg MCVulkanMap`. The proofs are checked
with `tlapm`, for example `tlapm XmlProcessorProofs.tla`, for each module whose name
ends in `Proofs`.
