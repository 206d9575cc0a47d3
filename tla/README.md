# Manatee.Json in TLA+

Manatee.Json is a .NET library that parses, patches, queries, validates and
serializes JSON. This directory models the parts of it that keep state, checks
them with TLC on small instances, and proves the central properties of
most of these for every value of their constants with TLAPS. Paths below are relative to
`src/Manatee.Json/`.

    tlc -workers 2 -config <run>.cfg <MC module>     checks a run
    tlapm <module>Proofs.tla                         checks the proofs

## 1. The system

| Component | State | Operations | Module |
|---|---|---|---|
| Object caches (`Internal/ObjectCache.cs`, `StringBuilderCache`, `SmallBufferCache`) | a fast slot and a few further slots, shared by all threads without locks | `Acquire`, `Release` | `ObjectCache`, `ExclusivePool` |
| JSON Patch (`Patch/`) | the document that the actions change in place | `TryApply` of add, remove, replace, move, copy, test | `JsonPatch`, `PatchReference`, `JsonPatchProperties` |
| JSON Pointer (`Pointer/`) | none | `Evaluate` | in `JsonPatch` |
| JSON values (`JsonValue`, `JsonObject`, `JsonArray`) | mutable containers that values share | copying, equality, printing | in `JsonPatch` and `JsonText` |
| Serializer: object references (`SerializationReferenceCache`, `ReferencingSerializer`, the contexts) | the current location and the map of objects and markers, per context | `TrySerialize`, `TryDeserialize`, `AddReference`, `Complete`, `Push`, `Pop` | `ReferenceTracking` |
| Serializer: the calls of one `JsonSerializer` | `_callCount`, a field that all calls share | `Serialize`, `Deserialize`, nested in each other | `SerializerCalls` |
| JSON Schema: registry and references (`JsonSchemaRegistry`, `JsonSchema`, `RefKeyword`) | the static registry, the local registry of a call, `_hasRegistered`, `_documentPath`, `Resolved`, `_resolvedRoot` | `Validate`, `Register`, `Unregister`, `Clear`, `Get`, the walk over subschemas | `SchemaReferences` |
| JSON Schema: keywords (`Schema/Keywords/`, `SchemaValidationContext`) | in the context: names and indices noted as evaluated, `Misc` | `Validate` of each keyword, copying and updating contexts | `SchemaKeywords`, `SchemaMeaning`, `SchemaKeywordsProperties` |
| JSON Schema: results (`SchemaValidationResults`) | the result tree | `Flatten`, `Condense` | not yet |
| Serializer: options (`JsonSerializerOptions`, `NullableSerializer`, `DictionarySerializer`, `TemplateGenerator`) | `EncodeDefaultValues` and `EnumSerializationFormat`, which calls change and restore | calls of `Serialize` and `Deserialize` for nullables and dictionaries, `FromType` | `SerializerOptions` |
| Serializer: type maps (`AbstractionMap`) | the dictionary from types to types, which look-ups fill, too | `Map`, `MapGeneric`, `RemoveMap`, `GetMap`, `IdentifyTypeToResolve` | `AbstractionMap`, `TypeMap` |
| Serializer: factory | the list of custom serializers, the members found by reflection | | not yet |
| JSON parsing (`Parsing/`) | the position in a string or stream | `Parse`, `ParseAsync` | `JsonText`, `JsonGrammar`, `JsonTextProperties` |
| JSON Path (`Path/`) | the values found so far | `Evaluate` of each operator, query and search | `JsonPath`, `PathMeaning` |
| Transform (`Transform/`) | none: a function built from JSON Path | `Transform` | `JsonTransform` |
| Formats, meta-schemas, fluent builders, generated types, XML and LINQ extensions, logging | none that steps change | | left out |

How they interact. The parsers take `StringBuilder`s and `char[]`s from the
object caches and give them back. The serializer calls its serializers, which
call it again for every member; user code (`IJsonSerializable`) is called from
within and calls it too. `Validate` of a schema calls its keywords, which call
`Validate` of subschemas with a new context; `$ref` asks the registry, and the
registry downloads, parses and validates schemas. JSON Patch is used with
JSON Pointer on values, whose containers are shared. Every call of the serializer reads
the options and looks types up in the abstraction map, which the program fills.
Transformations evaluate the paths that their templates hold.

What is hard here, and what makes each component correct:

* *Object caches*: compare-exchange, unsynchronized reads and unsynchronized
  stores, all on the same slots. Correct if nothing is ever in two hands, if
  what is pooled is empty, and if nobody waits.
* *JSON Patch*: the actions are built from each other (move is copy and remove,
  replace is remove and add), on containers that may be shared, with two
  separately written resolvers of pointers. Correct if a patch does what
  RFC 6902 says of documents as values, and changes nothing but its document.
* *Object references*: the order in which objects and markers are met, cycles,
  and the pairing of `Push` and `Pop` over all serializers. Correct if what is
  read back has the shape of what was written, and cycles come to an end.
* *Calls*: re-entrance, exceptions, user code and threads, around one counter
  that decides which call is the outermost. Correct if the map of references is
  cleared or completed by the outermost call of its context, and always is.
* *Options*: one object that the user sets, that every nested call reads, and that
  some serializers change for their parts and put back, but not when an exception
  passes. Correct if a value is written under what the values around it ask for,
  whatever was written before.
* *Type maps*: three ways in which a mapping reaches the bases of a type, removals
  that reach related mappings, look-ups that add entries, two look-ups written
  separately. Correct if the program's calls alone decide what stands for an abstraction.
* *Schema references*: a registry that everybody changes, walks that happen once
  in the life of a schema, caches of what was found, base URIs that depend on the
  way through the schemas, recursion, threads. Correct if a reference is resolved
  to what it designates, is found if it can be, and validation ends.
* *Schema keywords*: keywords that depend on what others have noted, subschemas that
  get a copy of the context whatever value they apply to, loops that one output
  format leaves early and the other does not. Correct if a value is accepted
  exactly when the drafts say so, in either format.
* *Parsing and printing*: three readers written separately, for strings, streams and
  asynchronous streams, which look ahead by different distances; escapes of which
  two may be one character; streams that deliver a text in parts. Correct if
  the three read the same, and what RFC 8259 says, and if what is printed is read back.

* *Paths and transformations*: slices with ends and steps of either sign, searches in what
  searches have found, equal values at different places, results that are one value or an array
  of them. Correct if a path finds the values at the places that it means, and if what
  a transformation rearranges is all there.

`PROJECT.json` lists the hazards line by line under `hazards`, with the
properties that watch each.

## 2. The modules

### ObjectCache (abstract: ExclusivePool)

Each read, store and compare-exchange of a slot is one action: `ReadItem`,
`TakeItem` (the fast path of `Acquire`), `Scan`, `TakeSlot`, `Build`
(`_AcquireSlow`), `CheckItem`, `PutItem` (the fast path of `Release`),
`Rescan`, `PutSlot`, `GiveUp` (`_ReleaseSlow`). The user's side is `Append`
and `Forget` (a parse that fails drops its builder), and `Clear`, the reset that
comes before the release. `seen`, `idx` and `held` are the local variables of the
two methods; `dirty` is the set of objects with content. An identity that nothing
refers to may be given to a new object: a collected object cannot be told from a
new one.

`ExclusivePool` is what the cache promises: free objects and lent ones, where
an object is lent to one borrower at a time and free ones may be lost.
`ObjectCache` implements it with `free` the pooled objects and `lent` the
variable `held`.

### JsonPatch, PatchReference, JsonPatchProperties

`JsonPatch` is `TryApply` over a heap: objects and arrays have identities and
are shared as in the code, where a `JsonValue` wraps a mutable container. One step
applies one `JsonPatchAction`. `ResolvePart`, `InsertPart` and
`EvaluateSegment` are the loop bodies of `JsonPointerFunctions.ResolvePointer`,
`InsertValue` and `JsonPointer._EvaluateSegment`; `Resolution`, `Insertion` and
`Evaluation` are the loops, as functions that say what is found after each segment of a
path. `MoveValue`, `CopyValue`, `ReplaceValue` are composed as the code composes
them. `PatchReference` says what the actions mean for documents as values, without
heap, resolver or order of steps; `JsonPatchProperties` compares the two.

`AsSpecified` is stated for documents in which no container is held twice, and
for the actions that `Regular` admits. Each of its cases is one where the code is
known to differ from RFC 6902, so that the run says where it does not: a copy
into an array is inserted behind its index (`CopyAtEnd`), a move that shifts its
own source removes the wrong element (`MoveOrderIrrelevant`, and the run
`patch_move`), removals and replacements of the whole document, values put
into themselves (`FreshAt`), and paths with the numeral 2147483647
(`NoSentinel`). That number is how `JsonPointerFunctions` represents `-`, and it
does not tell the two apart (`Index`): a removal at `/2147483647` takes the last
element, an addition there inserts in front of it. For the same reason, and because
a negative numeral makes `ResolvePointer` throw, `ResolversAgree` leaves both out.

### ReferenceTracking

Writes a graph of objects and reads the result back, one member per step. The
recursion is a stack of `frames`; `contexts` holds the location and the map of
each nested context, `json` the document by position, `value` what each position
was read as. `SerializeMember` and `SerializeReturn` are the member loops of
`AutoSerializer`, `ListSerializer` and `DictionarySerializer` with
`ReferencingSerializer` around them; `DeserializeMember`, `DeserializeReturn` the
same for reading; `Complete` is the end of the outermost `Deserialize`, where the
members behind markers are set by reflection, or setting throws (`CanSet`).
`Documents` are read without having been written by this serializer.

### SerializerCalls

The counter of nested calls, with `_callCount++` and `--_callCount` each a read
and a write (`ReadOnEntry`, `WriteOnEntry`, `ReadOnReturn`, `WriteOnReturn`).
`Call` is a call of the program, `Member` a call for a member in the same context,
`NestedCall` one that user code makes in a context of its own; `NoteObject` and
`NoteMarker` put something in the context's map; `Throw` leaves all calls of the
thread, and no `finally` takes the count back. `AfterReturn` is what is done
when the count is zero: clear or complete the map.

### SerializerOptions

Extends `SerializerCalls`: each action is one of its actions with what happens to
the options of the serializer, so that the properties of the calls are checked here, with
every kind of value. A value is known by its `shape`: single values, lists and classes;
`IJsonSerializable`s; nullables, and whether they hold the default of their type;
dictionaries by the type of their keys, and whether their values are of a value type.

| Operator | Code |
|---|---|
| `OnEntry`, `OnExit` | `_EncodeEnumKeyDictionary` and `_DecodeEnumDictionary` set and reset the format of enumerations, and reading sets `EncodeDefaultValues`, too |
| `ForPart`, `AfterPart` | `NullableSerializer._Encode` and `_SerializeDefaultValue`, around the call for the value, the key or the entry |
| `GenerateTemplate`, `TemplateThrows` | `TemplateGenerator.FromType`, for types without properties to fill, and for all others |
| `Unwind` | an exception, after which the options stay as they were in the call that threw |

`Within` says what each value asks for its parts, without regard to order;
`OptionsScoped` compares the two.

### AbstractionMap (abstract: TypeMap)

`registry` is `_registry`. `Map` is `Map` and `MapGeneric`, for what their constraints and
checks admit (`CanMap`): `MapGeneric` does not check that both types are generic
definitions, although its comment speaks of such (`AbstractionMap.cs:61`), so that it
takes `IList<>` with `List<int>`. `_MapTypes` adds what the walk of `_MapBaseTypes` over base types and interfaces sets
(`BaseTypes`, `IsSet`): all of them to one type, so that its order does not matter;
`Default` is the map that the static constructor fills and new serializers copy;
`RemoveMap` has both values of `removeRelated`; `GetMap` is the look-up, which notes a
concrete type as its own. `IdentifyTypeToResolve` is the other look-up. Types are
given by what reflection says of them: base, interfaces, generic definition, arguments.
The assumptions say what .NET guarantees of these: nothing derives from itself, a
definition has no arguments and is nobody's base, and what a definition derives from its
types derive from, with their arguments.

`TypeMap` is what the map promises: what stands for an abstraction is decided by
mappings and removals, whose bases are sets, without a walk, and looking up is no step of
it. `AbstractionMap` implements it with `mapped` the entries for abstract types, each
call as the call of its name (`ImplementsTypeMap`).

### JsonPath, PathMeaning, JsonTransform

`JsonPath` applies one operator per step to the values found so far: `EvaluateOne` is
`Evaluate` of the operators for one value, `SearchOne` of the parameters of a search for
one value that the search meets (`Met`, the recursion that all four searches have),
`Find` the queries in brackets. `FindSlice` and `FindSlow` are slices, with the shortcuts of
`Slice.Find` folded in; the index is an int, which `Wrap` keeps within `IntMax` (int.MaxValue)
when the step is added. `Equals` is `JsonValue.Equals`. A sequence of values may be `None` instead: an
exception.

`PathMeaning` is the reference, and works on places, not on values: `Leads` says of two
places whether an operator leads from one to the other, `InSlice` whether an index is in a
slice as Python, which has the same notation, defines it (path.md names slices and does not define
them); `meant` counts the ways
to each place. `JsonTransform` is `_Transform` with the paths of the same model, and
transforms a document by one template after another.

### SchemaReferences

Schemas have an `$id`, an `$anchor`, a `$ref` and subschemas under `properties`
and under `definitions` or `$defs`; every instance is valid, since only the way
to the subschemas matters. Threads validate with roots and call the registry. The
recursion of `Validate` is a stack of frames, each with the schema and the parts of
the `SchemaValidationContext` that matter here: root, base URI, instance.

| Action | Code |
|---|---|
| `Validate`, `Register`, `Unregister`, `UnregisterAt`, `Clear`, `Fetch` | the calls of the program; `Fetch` is `JsonSchemaRegistry.Get` |
| `Pass`, `Mark`, `RegisterSubschemas` | the walk: the test of `_hasRegistered`, the mark, and the registration; other threads run in between |
| `Begin` | base URI and order of keywords in `Validate(SchemaValidationContext)` |
| `PropertiesKeyword`, `RefKeyword` | the keywords' `Validate`, which call `Validate` of another schema |
| `ResolveRoot`, `ResolveTarget` | `RefKeyword._ResolveReference`, up to and after the field `_resolvedRoot` is set |
| `Return` | the end of `Validate` |

The property `DocumentPath` builds the path from the id when it is first read
and keeps it, so that reading it is a step that changes state; the model follows
every such read (`PathRead`). An address is split into a URI and a fragment,
because the code tells three things apart: pointers, local names, and a trailing
`#` that `Get` trims and `Register` does not. `Get` and the calls to the registry
hold a lock, and are one step each. `resolved` and `resolvedRoot` are fields that
threads share.

`BuiltIn` is the registry with the meta-schemas and the schema of JSON patches, as the static
constructor makes it and `Clear` makes it again. They are registered at their ids without a
trailing `#`, which those before draft 2019-09 have: such a one is not at its `DocumentPath`,
`Unregister` of it looks for the other address and leaves it, and a validation with it
registers it a second time, at the address with `#`.

Left out here: addresses that are relative without being fragments, pointers to
anything but a direct subschema, and validation against meta-schemas (it sets
the drafts that a root supports, which `draft` gives, and does to the meta-schemas what
`Validate` does to any root). What the user downloads
(`JsonSchemaOptions.Download`) is the constant `Online`, one document after the
other for each URI.

### SchemaKeywords, SchemaMeaning, SchemaKeywordsProperties

A schema is built keyword by keyword (`AddKeyword`) and validates a value in each of
the formats (`ValidateInstance`). The order in which keywords are added is the order of
the schema's text, which the code keeps among keywords of one `ValidationSequence`.
`Validate` is `JsonSchema.Validate(SchemaValidationContext)`, `Keyword` the
virtual call, and each keyword's `Validate` is the operator of its name, from the
context before it to its verdict and the context after it.

| Operator | Code |
|---|---|
| `Copy`, `Update` | the copying constructor of `SchemaValidationContext`, `UpdateEvaluatedPropertiesAndItemsFromSubschemaValidation` |
| `ForAll` | the loop of most keywords: under Flag, left after the first failure |
| `InPlace` | a subschema for the same value, whose notes count when it is valid |
| `NoteName`, `NoteLocalName`, `NoteLocalIndex` | what keywords add to the lists of evaluated properties and items; `track` is `ShouldTrackValidatedValues` |
| `ItemsArray` | the branch of `ItemsKeyword` that validates every item twice |

The format `Verbose` stands for Basic and Detailed, too: these validate in
the same way and rearrange the results afterwards. Patterns are the sets of names that
they match. `Equals` is `JsonValue.Equals`, by which `const`, `enum` and `uniqueItems` compare: members
are in no order. Subschemas are values, and `$ref` is in `SchemaReferences`.

`SchemaMeaning` is the reference: `Accepts`, `Names` and `Positions` define what a
schema accepts and has evaluated, for a set of keywords without order and without contexts
that are handed up and down. `SchemaKeywordsProperties` compares the two.

### JsonText, JsonGrammar, JsonTextProperties

A value is printed (`WriteString`, `WriteIndented`) or a text is there; then each
reader is asked (`ParseWith`), in any order. A reading has no steps that others could see,
so that it is an operator: `TryParse` dispatches on the first character to
`NullLiteral`, `BoolLiteral`, `NumberToken`, `StringToken`, `Elements` and `Members`,
each of which gives `Found(value, position)`, `Failed` (a `JsonSyntaxException`) or
`Throws` (any other). One operator stands for the three methods of a
parser, and says where they differ: `InterpretString` looks ahead for a second escape,
`InterpretStream` remembers the first; `HexOrElse` and `BoolLiteral` are where the
asynchronous reader is different from the synchronous one.

Characters are code units, in numbers, since the properties depend on the arithmetic of
surrogates. A number is kept as its text: what `double` makes of it is not modelled, only
which texts `double.TryParse` takes (`IsDouble`). `AtEnd` and `Available` are a
`StreamReader` over a stream that delivers in parts: `Peek` is -1 when a delivery that
fell short is used up, one `Read` gives what is there, `ReadBlock` waits for all.

`JsonGrammar` is the reference: `Denotes` is the set of values that a text has by the
productions of RFC 8259, over all ways to split it, without position or look-ahead.
With `lenient` it has **what the readers accept besides**: literals in any case
(`True`), numbers as .NET reads them (`01`, `1.`, `1-`), any white space
between tokens, control characters within strings, and, asynchronously, white space
around the digits of an escape with NULs behind it (`int.Parse` with `HexNumber`).

## 3. The runs

All constants that bound a run are named `Max...` in the modules.

| Run | Expect | Shows |
|---|---|---|
| `object_cache` | pass | 3 threads, 4 objects, a further slot: exclusive use, no object pooled twice or dirty, loss only to a racing store, refinement of `ExclusivePool`, and that every `Acquire` and `Release` ends |
| `json_patch` | pass | every patch of 2 actions on 2 documents: the two resolvers of pointers agree, regular actions do what `PatchReference` says, only the current document is written to |
| `patch_move` | violation | moving an element towards the front of an array loses its neighbour |
| `reference_tracking` | pass | every graph of two objects and a list, and graphs with dictionaries, `IJsonSerializable`s and equal objects: round trip of plain graphs, markers of objects and lists point to what they stand for, paired locations, termination |
| `serializer_calls` | pass | one thread, with exceptions, nested contexts, templates, nullables and dictionaries: the count is the depth plus what exceptions left; only the outermost call of a context clears or completes; it does so exactly when nothing threw before and the context is not nested; every value is written under the options that it asks for |
| `abstraction_map` | pass | every sequence of mappings, removals and look-ups: no look-up decides what stands for an abstraction, entries lead to types that can stand for their keys, or for a type of the same definition, the two look-ups agree outside two stated cases |
| `schema_references` | pass | 2 threads, 2 calls: references are resolved to what they designate, the registry agrees with the schemas' paths but for the `#` of meta-schemas, plain documents are always found, one schema per URI, validations end |
| `schema_registered` | violation | two first validations at once: the schema is never registered |
| `schema_local_names` | violation | a second validation does not find a subschema by its local name |
| `schema_keywords` | pass | every schema of 3 keywords, in every order, on 12 values and in both formats: verdicts are those of `SchemaMeaning` where no keyword asks what was evaluated, and where the root alone does; shared contexts never reject a value that is meant to be accepted; early exits change no verdict where no `unevaluated` keyword looks |
| `json_text` | pass | texts whole, damaged by one character or delivered in two parts, and printed values, in 3 settings, by all readers: well-formed texts are read to what they denote, nothing but the lenient grammar is accepted, the readers agree, incomplete deliveries cut nothing short, what is printed is read back |
| `json_path` | pass | every path of up to three operators, and every slice of small arrays: what is found is what is meant, as often as it is meant; a table transformed to columns and back is the table again |

The violations are where code and documentation disagree; `findings` in
`PROJECT.json` quotes the two sides.

Why the bounds are enough to be interesting:

* *object_cache*: three threads make every race on a slot, with a third that comes
  in between, and can fill the cache while one of them still has an object to
  release. With one further slot the scans are loops of one round; two slots and
  three threads are half a million states more of the same, and the theorems
  hold for any number of threads, objects and slots.
* *json_patch*: two actions are what it takes to share a container (copy) and then
  write to it, and to continue after a failure. The paths reach all cases of the resolvers:
  index 0, inside, one past the end, beyond, negative, `-`, `int.MaxValue` (`IntMax`, in
  the run 9, which no array is as long as), a numeral that is also a key, an empty array,
  a scalar in the way, the root. The theorems hold for any documents and any length.
* *reference_tracking*: two objects and a list make self-reference, mutual
  reference, sharing, and references into the middle of lists; the root takes part
  in cycles. `MaxFrames` is a bound that the type invariant shows is never reached:
  it is what termination of the recursion would break. `MaxPath` exceeds the depth
  of the graphs.
* *serializer_calls*: depth 3 has a part within a dictionary within a nullable, or a member within a nested
  context within a member; the third call is the one after an exception in the second, and
  what a dictionary has changed shows at its next entry. The theorems on calls hold for any depth.
* *abstraction_map*: no bound: the registry is finite, and the run covers all sequences. The
  types are an interface, an abstract class that implements it and two classes below it, where
  mapping one reaches the others, and generic collections with open and closed types, where
  `IEnumerable<>` of the parameter of `IList<>` is a type and is not the definition. The
  program maps closed types to closed types and `IList<>` to `List<int>`, the static constructor
  definitions to definitions. The theorems hold for any types.
* *schema_references*: two calls are two validations, one after the other or at
  once, or one around a change of the registry. The documents are one with an
  address, pointers, a reference to itself, two references to a document that
  can be downloaded in two versions and one to a meta-schema (a); that meta-schema, whose id ends in
  `#` and which refers to itself (m); one without an address around one with
  one (c); one with local names (d); and one with a local name inside another (e),
  where a base URI that is no absolute URI makes the join throw. The theorems hold for any
  documents, threads and calls.
* *schema_keywords*: three keywords are an `if` with `then` and `else`, an
  `items` with `additionalItems` or `contains` with both its bounds, or two that note and
  one that asks. One level of nesting in values is enough for a name of a
  member to be taken for one of its parent. The keywords of objects and of arrays are
  kept apart, because each accepts the other's values. A parameter of a keyword is a
  subschema that accepts, rejects or tells `p` from `q`, or one that notes something
  itself. Strings that name a type are validated by themselves, with keywords of their own; two objects
  with the same members in different orders are items of one array.

* *json_text*: 21 texts reach every branch of the parsers, and each is tried with
  every prefix, every character left out, and every character replaced by each of twelve
  that mean something: 2,600 texts, most of them wrong in one place. One incomplete
  delivery is enough, because a loop that `Peek` stops does not go on. The escapes are
  a letter, a character outside ASCII, a pair, in rows of up to four, which is what
  the parity of a row needs.
* *json_path*: ends of slices from -4 to 4 on arrays of none, one and three items are below,
  at, inside and beyond both ends, with steps from -2 to 2, the least and the two largest ints, which wrap
  from some items and not from others (`IntMax`, in the run 9). Three operators are a search
  in what a search has found, with one more that looks at the outcome. `MaxItems` and `MaxDepth`
  are what the documents have. Tables of none, one and two rows are what
  `items.Count == 1` tells apart; `MaxTransforms` is there and back.

Deadlock is not checked: all these systems may stop (no call is ever required,
the bounds end them, a graph is done when it is done).

### Fairness

* `ObjectCache`: weak fairness of each thread's steps inside `Acquire` and
  `Release`. A thread that is in one of them is scheduled again; nothing says that
  a parser ever starts, or gives back what it holds.
* `ReferenceTracking`: weak fairness of `Next`: one call runs on.
* `SchemaReferences`: weak fairness of `Proceed(t)`, for each thread: a validation
  that has begun goes on. Calls of the program are not fair.
* `SerializerCalls`, `SerializerOptions`, `AbstractionMap`, `JsonPatch`, `JsonPath`,
  `JsonTransform`, `SchemaKeywords` and `JsonText` have no liveness property: an
  action is one step, or a thread may stop in its callback for ever.

### What the properties leave out on purpose

* `RoundTrip` is about classes that do not override `Equals`, held by each other
  and by lists. Objects that are equal but distinct come back as one; members in
  a dictionary make completion throw. Graphs of both kinds are in the run, for
  the other properties. It is also about what the serializer itself wrote: in a
  document from elsewhere a marker may stand in front of the object it names, and
  then reading throws (`DeserializeMember`), although the map has a place for the
  markers of an object that is not there yet.
* `MarkersPointHome` is about graphs of objects and lists. `DictionarySerializer`
  pushes a location for every entry with a string key (`DictionarySerializer.cs:31`) and never
  pops it, so that every later marker is too deep, against `serialization.md:24`, which
  says that it "points to the location within the JSON document that defines the data";
  within an `IJsonSerializable` locations count from it.
* `RightTarget` is about references in documents with an address. In one without,
  the walk over the subschemas leaves the base URI of a subschema with an absolute
  `$id` in the context of the root (`JsonSchema.cs:278`), and the pointers of the
  root are resolved against it: document c fails with an exception. With
  addresses inside addressed documents or with local names in more than one it takes more than
  the run has to go wrong, but it can, which is what `Orderly` excludes. A subschema may have a
  pointer and, inside it, another subschema with an `$id`. Of two threads that validate its document
  for the first time, the second passes over the document, which is marked already, and may walk the
  subschema before the first does; then the inner `$id` stays in its context, and
  the pointer is resolved in the wrong schema, and kept. And all documents
  that one call of `Validate` comes to share its local names (`SchemaValidationContext.cs:157`), so that a name
  that two of them have is the one of whichever came last. TLC finds both in five schemas.
* `RegisteredAtPath` makes an exception of the meta-schemas where `Clear` puts them: their path is
  that address or, for those before draft 2019-09 and the schema of JSON patches, that address with a
  `#`. These `Unregister` does not take out; `Unregister` of their address does.
* `FoundIfAlone` is about plain documents: addresses without `#` unless it is a meta-schema's, no local names.
  Local names are what `schema_local_names` is about; overlapping calls what
  `schema_registered` is about.
* `CountTracksDepth`, `ClearedByOutermost`, `CompletedIfUnbroken` and `OptionsScoped` are about a
  serializer that one thread uses. With two, as in
  `Manatee.Json.Tests/Serialization/ConcurrencyTests.cs:57`, an increment can be lost, and a nested
  call then clears the map of the call around it; and one thread reads the options that
  another has changed for the entries of a dictionary (`DictionarySerializer.cs:181`).
  `CompletedIfUnbroken` states what an exception breaks: after one, no `Deserialize`
  completes its references again.
* `OptionsScoped` takes as meant what nullables and dictionaries do for their parts. A
  nullable whose value is not the default of its type sets `EncodeDefaultValues` to
  false for it, also when the user has set it (`NullableSerializer.cs:25`), and a struct in it
  loses its null members. And it says of an exception that the options stay as they
  were in the call that threw: what follows is written under these.
* `LookupsAgree` names two cases in which one look-up throws and the other does not. A type without
  arguments that is mapped to a generic definition, as `IEnumerable` to `List<>` by the default map,
  is that definition for `GetMap`, and `IdentifyTypeToResolve` throws. A definition that
  `MapGeneric` has mapped to a type that is none, as `IList<>` to `List<int>`, makes `GetMap` throw
  for its types, and `IdentifyTypeToResolve` gives `List<int>`
  (`MappedToNoDefinition`); `SerializerFactory` asks `GetMap` first. The theorem needs `OpenBases`, too (section 4).
* `ImplementsTypeMap` is about abstract types. For others look-ups do decide: a concrete type
  that has been looked up is its own mapping, and a later `Map` of a class below it with
  `Unmapped` passes it by, and `RemoveMap` of it with `removeRelated` removes every
  mapping to it. `TypeMap` takes the following as meant, because the code and its
  parameter names say so: `removeRelated` removes what was mapped to the same type by calls of
  its own, and `Unmapped` reaches `object` when a class is mapped. Reading looks types up twice, by
  `GetMap` and then `IdentifyTypeToResolve` of what that found, and may follow two mappings.
* `FindsWhatIsMeant` leaves these out, and is false without each of its exceptions:
  * slices with a step that is not positive start at the first item unless a start is given, also
    where that finds nothing (`[::-1]`); an end before the first item or a start at or beyond the
    end throws; a step of 0 never ends (`AsInPython`);
  * slices whose step added to the index of one of their items exceeds the largest int: `index += step` wraps
    (`Slice.cs:139`), and `$[1::2147483647]` throws on three items (`AsInPython`, too);
  * slices merge items that are equal (`NoTwins`), since `SliceQuery` gathers them in a set;
  * `..*` drops the first of all values met, which is the root for a single value only, and
    throws when there is none; `..length` of a length is 1.

  `PathMeaning` takes as meant, because the code and its tests do, that brackets select members of
  objects by their order, and those of a search do not; that `..length` counts 1 for
  whatever is no array; and that a filter by a property passes over `false`.
* `RestoredByReverse` is about tables and their columns. Elsewhere the row's index is
  used for any path that does not find exactly one value, a local one included, so that
  an item of it is taken or an exception thrown (`JsonTransformer.cs:71`); and the
  path of a loop is evaluated on the whole source, `@` or not (line 58).
* The properties of `JsonText` leave these out, and but for the last four each is false
  without its exception:
  * lone surrogates (`Paired`): reading them throws an exception that is not a
    `JsonSyntaxException`;
  * an escape from `\uD7C0` to `\uD7FF` in front of another (`NoHangul`):
    `CalculateUtf32` makes a valid code point of the two, and `"\uD7FB\u03A9"` is
    read as one wrong character, against RFC 8259;
  * for streams, pairs that an odd number of escapes precedes (`Aligned`): streams
    pair escapes from the first of a row on, and `"\u0041\uD83D\uDE00"` throws;
  * white space behind the value when `RequireIsolatedJsonDuringParse` is set: it is taken
    for content (`WellFormedRead`);
  * white space around the digits of an escape, and NULs behind them: read asynchronously
    only, and digits that are none throw a `FormatException` there (`ReadersAgree`);
  * a number that is the whole text and is delivered in parts is cut short
    (`NeverTruncated`);
  * U+FFFF, which has no entry in the table of printable characters: printing it throws;
  * `NaN` and the infinities, which are printed as .NET does and which no parser reads;
  * duplicate keys under the default setting, which throw an `ArgumentException`;
  * what `double` rounds.
* The properties of `SchemaKeywords` name the cases in which verdicts are not what the
  drafts mean, and each of them is false without its exception:
  * `type` accepts a string that is the name of an allowed type (`TypeKeyword.cs:83`):
    `{"type": "object"}` accepts `"object"` (`NoTypeNames`);
  * names and indices that a subschema was given or has noted count for the
    schema around it, also when they belong to another value (`Flat`, and that no
    subschema `Uses` a dependent keyword): `additionalProperties` within an
    `allOf` sees the names of its parent, and the properties of a property's value
    count as properties of the value around it;
  * what leaks so is only ever too much, so that `additional` and `unevaluated` keywords
    accept too much; a `not`, `oneOf`, `if` or `maxContains` around them turns that
    into a rejection (`NeverRejectsAccepted`);
  * `then` and `else` in front of their `if` are skipped (`IfFirst`);
  * under Flag the array form of `items` forgets a failure: `ItemsKeyword.cs:101` overwrites
    the verdict with one on results to which the failing one was not added, so that an array
    of one rejected item is accepted, and not under the other formats (`NoItemsArray`); and `anyOf` and `contains` leave their loops before
    all that is evaluated has been noted (`EarlyExitsHarmless`);
  * `dependentSchemas` counts the property that it depends on as evaluated, and
    `contains` the items that match. The first follows the code, the second the code
    and its tests; `SchemaMeaning` says so.

## 4. The proofs

### ObjectCacheProofs

For any set of threads, any set of objects and any `CacheSize` in `Nat \ {0}`,
from the assumptions `CacheSizeAssumption` and `NullAssumption` alone:

* `TypeCorrect`: `Spec => []TypeOK`
* `ExclusiveUse`: `Spec => []Exclusive`
* `PoolCorrect`: `Spec => []PoolSound`, which is `PooledOnce /\ PooledClean`
* `Refinement`: `Spec => ImplementsPool`

The invariants are not inductive alone. `IInv` adds `Bookkeeping` (a thread has an
object exactly at the program points between taking it and storing it; a
candidate and an index in range where it is about to use them), `ReleasedClean`
(what is on its way back is empty) and `DirtyHeld` (only what somebody holds has
content). `Exclusive` and `PooledOnce` need each other: that a store does not
pool an object twice follows from the thread's exclusive hold, and that a
compare-exchange gives exclusive hold follows from the object being in one slot
only. A failed compare-exchange is why `seen` needs no invariant about what the
slot still holds: the step tests it. `Refinement` maps every step to a step of
`ExclusivePool` or to a stutter, one lemma for each kind.

### SerializerCallsProofs

For any bounds, and for either value of the switches `MayThrow` and `MayNest`:

* `TypeCorrect`: `Spec => []TypeOK`
* `CountCorrect`: `Spec => []CountTracksDepth`
* `AloneClearsLast`: with one thread, `Spec => ClearedByOutermost`
* `AloneCompletesExactly`: `Spec => CompletedIfUnbroken`
* `AloneCompletes`: with one thread, no exceptions and no nested contexts,
  `Spec => ReferencesCompleted`: every outermost `Deserialize` completes its
  references. None of these assumptions can be dropped

`IInv` adds to the types and `CountTracksDepth` the shape of the stack of calls
(`Stacked`: it starts in context 1, ends in the innermost context, and each call has
the context of the call around it or the next one) and that a thread alone
writes what it last read (`ReadCurrent`). From the count being the depth it follows
that zero is written by the call at depth one, which by `Stacked` is the outermost
of context 1, and hence of every context that is still there.

### SerializerOptionsProofs

* `OptionsKeepCalls`: `OptionSpec => Spec`. Every action of `SerializerOptions` is one of
  `SerializerCalls`, or leaves the calls alone, so that the theorems above hold
  with options, templates, nullables and dictionaries, too.
* `OptionsCorrect`: `OptionSpec => []OptionsScoped`, for every depth, where the run has three.
  The invariant is `Scoped`: the values of the calls under way form a `Chain`, in which each was
  asked for what the value around it asks of that part, has kept that since it began, and
  the options are those of the innermost. The lemmas `EntryIsInside`, `PartIsWithin`,
  `AfterPartIsInside` and `ExitIsAsked` compare what a serializer does at each point with what
  it ought to; `PushChain`, `ReplaceChain` and `PopChain` say what a call does to
  the chain. `KindOf` of a thread, on which they depend, stays what it is from `IInv` of
  `SerializerCallsProofs`, which holds here by `OptionsKeepCalls`. Without the
  chain the invariant is not inductive: what a value puts back is what was
  kept several calls earlier.

### SchemaReferencesProofs

For any schemas, documents, downloads, threads and number of calls. The assumptions on
the constants say what parsing makes: an id is an address, that of a document an
absolute one; a document is no part of another (`WholeDocuments`); every download is
read into new objects (`NewDownloads`); and the meta-schemas are registered at their ids
without a trailing `#` (`BuiltInShape`).

* `TypeCorrect`: `Spec => []TypeOK`
* `RegisteredCanBeRemoved`: `Spec => []RegisteredAtPath`
* `ReferencesShareSchemas`: `ClaimedOnce(C)` implies `Spec => []OneSchemaPerUri`
* `ReferencesFindTheirTargets`: `Orderly(Schemas)` implies `Spec => []RightTarget`
* `PlainReferencesAreFound`: `Orderly(Schemas)` and `Connected(C)` for some C imply
  `Spec => []FoundIfAlone`

`InPlay(X)` says that the registries, the references and the stacks of calls hold schemas
of X only, and is kept by every step for every X that holds the subschemas of its members
and whatever is downloaded next (`StepKeepsPlay`). It is used for three sets. With all schemas
it is the type invariant. Without those that are still to be downloaded it is `Fresh`,
which `RegisteredAtPath` needs: `Get` registers a download at the address asked for, which
becomes its path only because nobody has read its `DocumentPath` before; `AtPaths` adds
that roots and meta-schemas keep their ids, so that a meta-schema is
at its path or, in the place that `Clear` gives it, at its path without the `#`. With the
set C of schemas that are ever met, in which no two
claim one URI (`ClaimedOnce`, of which the run has the instance `MCClaimedOnce`), it gives
`OneSchemaPerUri`: `Shared` adds that what is registered at a URI, and what a reference
to it has found in either of its two fields, claims that URI. `StepHappens` says once
what any step does to the registry and to paths (`Happens`), and the invariants about
these go by that.

`ClaimedOnce` is not an artefact: two schemas with one `$id` replace each other in the
registry, and a reference keeps what it found. With `removed` the property claims nothing,
since after `Unregister` or `Clear` a URI may be downloaded again.

`RightTarget` is a consequence of `Tracked`, which relates everything that bears an address to the document
around it. What is registered at a URI is a document of that URI (`Answers`); the path of a
schema is the address of its document (`PathsPlaced`), and a document that
was downloaded has one (`LoadedPlaced`); every call on every stack has for its base the
address of the document around its schema, or has none, and then that document is its root
(`Fits`); and both fields of a reference are of documents it may be resolved in (`RefFits`).
The parts need each other: a call gets its base from `_resolvedRoot` (`TargetFits`), which
was taken from the base of an earlier one, and `ResolveSubschema` gives its base to the path of what
it finds, for every later validation (`TargetPlaced`). `Fresh` is needed once more: a
document without an `$id` has a path as soon as anything can refer to it (`PathOfDocument`). Removals
and overlapping calls are allowed.

`Orderly` asks of the documents that none has an address or a local name inside, that no id but a meta-schema's
ends in `#`, and that copies are all that share an address; pointers, references to other documents, cycles and documents
without an address are allowed. `MCOrderly` instantiates it with document a of the run and the documents that
a refers to. The run itself has others besides, for which `RightTarget` is model-checked.

`FoundIfAlone` says that something is found, where `RightTarget` says of what is found that it is right. Its
hypothesis besides `Orderly` is `Connected(C)`: C holds the plain documents and those that they refer to,
a reference is to the whole of a document or a pointer to what every copy of that document has, and another document
can be downloaded (`ResolveSubschema` is a constant function: the pointers are compared, not walked). The
constants of `schema_registered` satisfy both as they are; in `schema_references`, which has
more documents, `MCOrderly` says so of document a and those it refers to.

Its invariant adds two parts to `Tracked`, both under the condition that no calls have overlapped and nothing was
removed. `Calm` says that every address that is in use is registered: the path of a schema (`Pathed`), the `$id` of what
the walk has marked (`Marked`; but for the one schema that is marked and about to be registered, between
`JsonSchema.cs:254` and `:277`), the root that a reference has found (`Rooted`), what was
downloaded (`Loaded`), and the base and the root of each call (`FramesSettled`, with the
exception of a root that is still being walked). `Alone` makes the exception a single one.
`SucceedsAlone(C)` follows a call that began with a schema of C: all that it holds is in
C, and it does not throw. The step that could throw resolves a reference: its root is registered or
can be downloaded by `Calm` and `Connected`, is in C by `Tracked`, and then has
what the pointer names. Neither part stands by itself: whether the next root is found depends
on the paths that earlier validations of other documents have left.

### AbstractionMapProofs

For any set of types, what reflection says of them, and calls of the program:

* `TypeCorrect`: `Spec => []TypeOK`
* `LookupsAlwaysAgree`: `OpenBases` implies `Spec => []LookupsAgree`
* `KeepsPromise`: `Spec => ImplementsTypeMap`

`IInv` adds to the types `Stands`, that each entry can stand for its key (or for types of the
key's definition), and `Generic`, that only definitions, and types that a definition derives
from, lead to definitions. Both follow from `CanMap`, through the bases:
what stands for a type stands for what it derives from (`CanMapStands`, `MapKeepsSound`).
`BaseTypes` is defined by recursion over the types, and its value is `Supers`
(`BaseTypesAreSupers`): that follows from the types a type derives from being finitely many
(`SupersFinite`), of which a smallest counterexample has fewer than itself.

`LookupsAgree` needs `OpenBases`, that no generic definition derives from a type with arguments
of its own. Mapping `class Some<T> : IList<int>` to `IList<>` with the behavior `Override` leads
`IList<int>` to `Some<>`, which `GetMap` gives as it is, and of which `IdentifyTypeToResolve`
makes `Some<int>`. `KeepsPromise` is by step: a mapping is a mapping of the
abstract types among what it sets (`MapRefines`), a removal one of those it removes
(`RemoveRefines`), and a look-up notes a concrete type only (`GetRefines`).

### JsonPatchProofs

For any documents, shared or cyclic, any paths and patches of any length:

* `TypeCorrect`: `Spec => []TypeOK`
* `OnlyTheDocumentChanges`: `Spec => WritesCurrentOnly`
* `ResolversAlwaysAgree`: `Spec => []ResolversAgree`

`Closed(h, X)` says that what the containers of X hold is in X. Every operation that starts
in a closed set writes in it only, and leaves it closed if the value it puts there is in it
or is no container (`Spared`, and one lemma `...Stays` for each operation). For all
containers that is the type invariant, for what the document reaches (`Reach`, the least closed set around
it) it is `WritesCurrentOnly`. `ResolversAlwaysAgree` is about every path without numerals that are
negative or `int.MaxValue`, and compares the two walks segment by segment (`Together`):
one lemma on a segment (`SegmentsAgree`), and one that goes along the path (`WalksAgree`).

### ReferenceTrackingProofs

For any object graphs, cyclic and with equal objects, any documents and any bounds, from
`GraphsAssumption` and `DocumentsAssumption`, which say what an object graph and a JSON
document are:

* `TypeCorrect`: `Spec => []TypeOK`
* `LocationsPaired`: `Spec => []LocationIsPosition`
* `MarkersCorrect`: `Spec => []MarkersPointHome`
* `RoundTripHolds`: `Spec => []RoundTrip`, and what it rests on for objects that do override
  `Equals`: `SimpleGraphsRead`, that graphs of classes and lists are never refused when they are
  read back, and that each marker becomes the object it points to

`IInv` says what the calls and the contexts have to do with each other. `Stacked`: each call is
for a member of the value of the call around it, and there is one context more than
calls of members of an `IJsonSerializable` (`Nested`). From this follows that contexts never run out
(`Alone`). `Located` is what makes `LocationIsPosition` inductive: with nested contexts
the outermost one stays where the first nested call was made, which is what it has to
be when that call returns. `StackedPush`, `StackedPop`, `LocatedPush` and `LocatedPop` say this of
a call and a return, for writing and reading at once; `DocumentGrows` that what is written
stays a document, of which reading is as deep as writing was.

For the markers, `MarkersInv` follows the graph while it is written, in graphs of classes and lists:

* `Placed`: the position of every call is a path that leads from the root of the graph to
  the call's object (`Leads`), the current location is the position of the innermost call, and
  at every location in the `SerializationMap` stands an object that equals the one the map has it
  for (`Stands`). `WrittenBefore` says that of a value only the members before the
  next have been written, so that a step never writes over what a location stands for.
* `Pointed`: of a document, written in part or in full, that the positions of markers are paths of
  the graph, too, and that what a marker points to stands for what it replaces.

Every step is by these two alone (`MarkersMemberStep`, `MarkersReturnStep`); reading changes neither
graph nor document. `OriginFound` then turns `Leads`, that there is a path, into
`Origin`, which walks it: a class has no two members of a name.

For the way there and back, `TextInv` has a part for each phase, again in graphs of classes and lists:

* While writing, `Copying`: the text is a `Tree` (each position is that of one member of one value), the
  members of each call's value are those before its `next` (`Copied`), a value whose call has
  returned is there in full (`Whole`), and the map has each object at its place (`Mapped`). When
  the root returns this is `Text`; that no two places have equal objects (`Single`) follows from `Mapped`.
* `Backward` is what makes it readable: a marker points to something that is visited before it. It
  is said without an order of positions: `Passed(d, X, p)` says of a set X that it has what is before
  p, and whatever such a set is, it has what the marker at p points to. When the marker is written
  everything there is has been visited before (`PassedHasAll`), and what is written afterwards
  changes nothing before it (`BackwardGrows`).
* While reading, `Noting`: what has been read are the members before the `next` of each call
  (`ReadBefore`), which is such a set (`NextPassed`): so a marker never comes before its object, and
  no object finds its location taken, which is when reading it throws. `Noted` relates the map to the document: it has every object read, with the markers read that point to it.
* At the end everything has been read (`AllReached`), nothing is within a marker
  (`OnlyContainersAbove`), and `Complete` gives `Restored`: each marker has become what it points to.

`RoundTrip` compares walks in two graphs. `OriginWalks` and `ResultWalks` take the recursive functions
apart, and `SameStep` keeps them together, member by member: both have ended, or one is at an object
and the other where that was written (`Same`). Only here are distinct objects taken to be unequal: a
marker then points to the very object. The bounds are constants like the others: a graph that is
deeper than `MaxFrames` is never written in full, of the others paths of any length are compared.

### CommonLemmas

The walks and `BaseTypes` are recursive functions. That such a function satisfies its
equation at every argument is `Iterated`, from `LeastNumber`: every non-empty set of naturals has a
least one. That is about sets, where the induction theorems are about formulas as parameters, which
the provers cannot instantiate. `Upwards` carries a set of arguments from 0 upwards. The other lemmas are on
stacks and on insertion into and removal from sequences.

### Only model-checked

* Liveness: `Terminates` of three modules.
* What recursive operators compute: all of `SchemaKeywords`, `SchemaMeaning`,
  `JsonText`, `JsonGrammar`, `JsonPath`, `PathMeaning` and `JsonTransform`, and `AsSpecified`
  of `JsonPatch`, whose reference is recursive, too. The prover has no induction over such data,
  and does without its solver in modules that declare a recursive operator.
* `RightTarget` and `FoundIfAlone` of `SchemaReferences` where documents are not `Orderly`, as c, d and e of the run.

## 5. Plan

In this order:

1. *Done*: `ObjectCache`, `JsonPatch`, `ReferenceTracking`, `SerializerCalls`,
   `SchemaReferences`; the proofs above.
2. *Done*: `SchemaKeywords` with its reference. *Left*: `$recursiveRef`, and the
   assertions on numbers and strings (`multipleOf`, bounds, lengths).
3. `SchemaResults`: `Flatten` and `Condense` against the set of errors of the
   verbose result.
4. *Done*: `JsonText` with `JsonGrammar`. *Left*: where readers take buffers from the
   caches and give them back on every way out, composed with `ExclusivePool`.
5. *Done*: `SerializerOptions`, `AbstractionMap` with `TypeMap`. *Left*: the custom serializers
   of `SerializerFactory`, and what `OverrideSource` and `OverrideInferredType` leave on the
   stacks of a context.
6. *Done*: `JsonPath` with `PathMeaning`, `JsonTransform`. *Left*: the other expressions
   of filters and indices, `indexOf`.
7. Proofs: *done* for `ObjectCache`, `SerializerCalls`, `SerializerOptions`,
   `SchemaReferences`, `AbstractionMap`, `JsonPatch` and `ReferenceTracking`.

## 6. Not modelled

* `Pointer`: parsing and printing; array indices are what `Numeral` gives.
* `JsonValue`: the options of array equality, hash codes, how a `double` is printed.
* Parsing: messages and locations of errors; cancellation (the parsers take a token, and
  no public method passes one); `allowExtraChars`, for numbers within path expressions.
* `Patch`: reading and writing the patch itself as JSON.
* `SmallBufferCache.Acquire` for sizes above eight, which no caller asks for.
* Keywords: `format`, `pattern`, `content...`, and assertions on numbers and strings;
  messages and locations in results.
* Formats, meta-schemas, fluent builders: constants and pure conversions.
* `TypeGenerator`, `ConstructorResolver`, `ReflectionCache` and the instances that
  `TemplateGenerator` makes: reflection.
* `AbstractionMap`: a `$type` in the JSON, which overrides the map, and two threads that look
  up at once in its dictionary.
* JSON Path: expressions but for the filter by a property and the index from the end, `indexOf`,
  the parsers, the translation from LINQ expressions. In templates, strings that are no paths.
* `XmlExtensions`, `LinqExtensions`: conversions without state.
* `LogCategory`, the global that `ValidateSchema` changes and restores: listed
  among the hazards only.
