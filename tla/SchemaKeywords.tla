--------------------------- MODULE SchemaKeywords ---------------------------
(***************************************************************************)
(* Validation by the keywords of JSON Schema (Schema/Keywords, Schema/     *)
(* JsonSchema.cs, Schema/SchemaValidationContext.cs): which subschemas a   *)
(* keyword applies to what, and which properties and items it notes in the *)
(* context as evaluated, for the keywords that come after it. Every        *)
(* subschema gets a copy of the context of the schema around it.           *)
(*                                                                         *)
(* A value is a record of its type, of the text of a string, and of the    *)
(* keys and items of an object or the items of an array. A schema is the   *)
(* value true or false, or a sequence of keywords.                         *)
(*                                                                         *)
(* The parameter flag of an operator says that the output format is Flag:  *)
(* then loops are left as soon as the verdict is known.                    *)
(***************************************************************************)
EXTENDS Integers, Sequences
LOCAL INSTANCE SequencesExt
LOCAL INSTANCE FiniteSetsExt

CONSTANTS
  Instances,     \* the values to validate
  KeywordsFor,   \* the keywords to build schemas of, for each type of value
  MaxKeywords    \* how many keywords a schema may have (a bound)

(* Basic and Detailed are Verbose, with the results rearranged at the end. *)
Formats == {"Flag", "Verbose"}

VARIABLES
  instance,   \* the value validated
  keywords,   \* the keywords of the schema, in the order they were added
  verdicts    \* for each format that was asked for, whether the value is valid

vars == <<instance, keywords, verdicts>>

(***************************************************************************)
(* Values and schemas.                                                     *)
(***************************************************************************)
IsObject(v) == v.type = "object"
IsArray(v) == v.type = "array"
Keys(v) == ToSet(v.keys)
Member(v, name) == v.items[CHOOSE i \in DOMAIN v.keys : v.keys[i] = name]
Text(name) == [type |-> "string", text |-> name, keys |-> <<>>, items |-> <<>>]

(* JsonValue.Equals, by type. The members of objects are in no order.      *)
RECURSIVE Equals(_, _)
Equals(v, w) ==
  /\ v.type = w.type /\ v.text = w.text
  /\ IF IsObject(v)
     THEN Keys(v) = Keys(w) /\ \A n \in Keys(v) : Equals(Member(v, n), Member(w, n))
     ELSE /\ Len(v.items) = Len(w.items)
          /\ \A i \in DOMAIN v.items : Equals(v.items[i], w.items[i])

Boolean(b) == [inherent |-> IF b THEN "true" ELSE "false", keywords |-> <<>>]
Schema(list) == [inherent |-> "none", keywords |-> list]
IsFalse(schema) == schema.inherent = "false"
Has(schema, name) == \E i \in DOMAIN schema.keywords : schema.keywords[i].kw = name
Get(schema, name) ==
  schema.keywords[CHOOSE i \in DOMAIN schema.keywords : schema.keywords[i].kw = name]

(* As if additionalProperties did not wait for the others.                 *)
ValidationSequenceFlat(kw) ==
  CASE kw \in {"unevaluatedItems", "unevaluatedProperties"} -> 4
    [] OTHER -> 1

(* Keywords are processed by sequence number, then in the order added. The *)
(* keywords with int.MaxValue come last.                                   *)
ValidationSequence(kw) ==
  CASE kw \in {"additionalItems", "patternProperties", "minContains", "maxContains"} -> 2
    [] kw = "additionalProperties" -> 3
    [] kw \in {"unevaluatedItems", "unevaluatedProperties"} -> 4
    [] OTHER -> 1

InSequence(list) ==
  LET Of(n) == SelectSeq(list, LAMBDA k : ValidationSequence(k.kw) = n)
  IN Of(1) \o Of(2) \o Of(3) \o Of(4)

(***************************************************************************)
(* The context.                                                            *)
(***************************************************************************)
NewContext(v) ==
  [instance |-> v, track |-> FALSE,
   names |-> {}, localNames |-> {},          \* [Locally]EvaluatedPropertyNames
   indices |-> {}, localIndices |-> {},      \* [Locally]ValidatedIndices
   last |-> -1, localLast |-> -1,            \* [LocalTier]LastEvaluatedIndex
   ifValid |-> "unset", containsCount |-> -1]  \* Misc

(* The copy for a subschema takes over everything but Misc, whatever value *)
(* the subschema applies to.                                               *)
Copy(c, v) ==
  [c EXCEPT !.instance = v, !.ifValid = "unset", !.containsCount = -1]

(* UpdateEvaluatedPropertiesAndItemsFromSubschemaValidation.               *)
Update(c, other) ==
  [c EXCEPT !.names = IF c.track THEN @ \cup other.names \cup other.localNames ELSE @,
            !.indices = IF c.track THEN @ \cup other.indices \cup other.localIndices ELSE @,
            !.last = Max({@, other.last, other.localLast})]

(* What keywords note themselves.                                          *)
NoteName(c, name) == [c EXCEPT !.names = IF c.track THEN @ \cup {name} ELSE @,
                               !.localNames = @ \cup {name}]
NoteLocalName(c, name, track) ==
  [c EXCEPT !.localNames = IF track THEN @ \cup {name} ELSE @]
NoteLocalIndex(c, i, track) ==
  [c EXCEPT !.localIndices = IF track THEN @ \cup {i} ELSE @]

Result(valid, c) == [valid |-> valid, ctx |-> c]

(* A loop that needs every step to be valid: Body gives the verdict on an  *)
(* element and the context after it.                                       *)
ForAll(c, list, flag, Body(_, _)) ==
  FoldLeft(LAMBDA s, x :
             IF flag /\ ~ s.valid THEN s
             ELSE LET r == Body(s.ctx, x) IN Result(s.valid /\ r.valid, r.ctx),
           Result(TRUE, c), list)

(* JsonSchema.Validate: verdict and context after it, defined at the end.  *)
RECURSIVE Validate(_, _, _)

(* As if the notes of an invalid subschema counted, too.                   *)
InPlaceAlways(c, schema, flag) ==
  LET r == Validate(schema, Copy(c, c.instance), flag)
  IN Result(r.valid, Update(c, r.ctx))

(* A subschema for the same value: its notes count when it is valid.       *)
InPlace(c, schema, flag) ==
  LET r == Validate(schema, Copy(c, c.instance), flag)
  IN Result(r.valid, IF r.valid THEN Update(c, r.ctx) ELSE c)

(***************************************************************************)
(* Keywords that apply subschemas to the same value.                       *)
(***************************************************************************)
AllOf(k, c, flag) ==
  ForAll(c, k.schemas, flag, LAMBDA x, s : InPlace(x, s, flag))

AnyOf(k, c, flag) ==
  FoldLeft(LAMBDA s, schema :
             IF flag /\ s.valid THEN s
             ELSE LET r == InPlace(s.ctx, schema, flag)
                  IN Result(s.valid \/ r.valid, r.ctx),
           Result(FALSE, c), k.schemas)

(* As if the loop were left at the first valid subschema.                  *)
OneOfFirst(k, c, flag) ==
  LET Step(s, schema) ==
        IF flag /\ s.count > 0 THEN s
        ELSE LET r == Validate(schema, Copy(c, c.instance), flag)
             IN IF r.valid THEN [count |-> s.count + 1, copy |-> Update(s.copy, r.ctx)]
                ELSE s
      end == FoldLeft(Step, [count |-> 0, copy |-> Copy(c, c.instance)], k.schemas)
  IN IF end.count = 1 THEN Result(TRUE, Update(c, end.copy)) ELSE Result(FALSE, c)

(* The notes go into a copy, for the case that only one is valid.          *)
OneOf(k, c, flag) ==
  LET Step(s, schema) ==
        IF flag /\ s.count > 1 THEN s
        ELSE LET r == Validate(schema, Copy(c, c.instance), flag)
             IN IF r.valid THEN [count |-> s.count + 1, copy |-> Update(s.copy, r.ctx)]
                ELSE s
      end == FoldLeft(Step, [count |-> 0, copy |-> Copy(c, c.instance)], k.schemas)
  IN IF end.count = 1 THEN Result(TRUE, Update(c, end.copy)) ELSE Result(FALSE, c)

Not(k, c, flag) ==
  LET r == InPlace(c, k.schema, flag) IN Result(~ r.valid, r.ctx)

(* The verdict of "if" is left for "then" and "else" of the same schema.   *)
If(k, c, local, flag) ==
  IF Has(local, "then") \/ Has(local, "else") \/ c.track
  THEN LET r == InPlace(c, k.schema, flag)
       IN Result(TRUE, [r.ctx EXCEPT !.ifValid = IF r.valid THEN "valid" ELSE "invalid"])
  ELSE Result(TRUE, c)

Then(k, c, flag) ==
  IF c.ifValid = "valid" THEN InPlace(c, k.schema, flag) ELSE Result(TRUE, c)

(* As if no "if" were an "if" that failed.                                 *)
ElseAlways(k, c, flag) ==
  IF c.ifValid # "valid" THEN InPlace(c, k.schema, flag) ELSE Result(TRUE, c)

Else(k, c, flag) ==
  IF c.ifValid = "invalid" THEN InPlace(c, k.schema, flag) ELSE Result(TRUE, c)

(* One entry of dependentSchemas: a schema for the objects with a property.*)
SchemaDependency(name, schema, c, flag) ==
  IF ~ IsObject(c.instance) \/ name \notin Keys(c.instance) THEN Result(TRUE, c)
  ELSE LET r == Validate(schema, Copy(c, c.instance), flag)
       IN Result(r.valid, IF r.valid THEN Update(c, NoteLocalName(r.ctx, name, c.track))
                          ELSE c)

DependentSchemas(k, c, flag) ==
  LET Body(x, i) ==
        LET r == SchemaDependency(k.names[i], k.schemas[i], Copy(x, x.instance), flag)
        IN Result(r.valid, Update(x, IF r.valid THEN NoteLocalName(r.ctx, k.names[i], x.track)
                                     ELSE r.ctx))
  IN ForAll(c, [i \in DOMAIN k.names |-> i], flag, Body)

PropertyDependency(name, needed, c) ==
  Result(IsObject(c.instance) /\ name \in Keys(c.instance) => needed \subseteq Keys(c.instance), c)

DependentRequired(k, c, flag) ==
  LET Body(x, i) ==
        Result(PropertyDependency(k.names[i], k.needed[i], Copy(x, x.instance)).valid, x)
  IN ForAll(c, [i \in DOMAIN k.names |-> i], flag, Body)

(* The older drafts have both kinds in one keyword, which notes nothing.   *)
Dependencies(k, c, flag) ==
  LET Body(x, i) ==
        LET sub == Copy(x, x.instance)
            r == IF k.needed[i] = {} THEN SchemaDependency(k.names[i], k.schemas[i], sub, flag)
                 ELSE PropertyDependency(k.names[i], k.needed[i], sub)
        IN Result(r.valid, x)
  IN ForAll(c, [i \in DOMAIN k.names |-> i], flag, Body)

(***************************************************************************)
(* Keywords for the properties of an object.                               *)
(***************************************************************************)
Properties(k, c, flag) ==
  LET Body(x, i) ==
        LET y == NoteName(x, k.names[i])
            r == Validate(k.schemas[i], Copy(y, Member(c.instance, k.names[i])), flag)
        IN Result(r.valid,
                  [y EXCEPT !.names =
                     IF y.track THEN @ \cup r.ctx.names \cup r.ctx.localNames ELSE @])
      present == SelectSeq([i \in DOMAIN k.names |-> i],
                           LAMBDA i : k.names[i] \in Keys(c.instance))
  IN IF IsObject(c.instance) THEN ForAll(c, present, flag, Body) ELSE Result(TRUE, c)

(* An early exit leaves the loop over the matches of one pattern only; the *)
(* notes of a subschema count as long as everything so far was valid.      *)
PatternProperties(k, c, flag) ==
  LET Matches(i) == SelectSeq(c.instance.keys, LAMBDA n : n \in k.matches[i])
      Match(s, i, name) ==
        LET y == NoteName(s.ctx, name)
            r == Validate(k.schemas[i], Copy(y, Member(c.instance, name)), flag)
            valid == s.valid /\ r.valid
        IN [valid |-> valid, ctx |-> IF valid THEN Update(y, r.ctx) ELSE y,
            left |-> flag /\ ~ valid]
      Pattern(s, i) ==
        FoldLeft(LAMBDA t, name : IF t.left THEN t ELSE Match(t, i, name),
                 [s EXCEPT !.left = FALSE], Matches(i))
      end == FoldLeft(Pattern, [valid |-> TRUE, ctx |-> c, left |-> FALSE],
                      [i \in DOMAIN k.schemas |-> i])
  IN IF IsObject(c.instance) THEN Result(end.valid, end.ctx) ELSE Result(TRUE, c)

(* The rest of the properties: those not noted in this schema.             *)
AdditionalProperties(k, c, flag) ==
  LET rest == SelectSeq(c.instance.keys, LAMBDA n : n \notin c.localNames)
      Body(x, name) ==
        LET y == NoteName(x, name)
            r == Validate(k.schema, Copy(y, Member(c.instance, name)), flag)
        IN Result(r.valid, IF r.valid THEN Update(y, NoteLocalName(r.ctx, name, y.track)) ELSE y)
  IN IF ~ IsObject(c.instance) \/ rest = <<>> THEN Result(TRUE, c)
     ELSE IF IsFalse(k.schema) THEN Result(FALSE, c)
     ELSE ForAll(c, rest, flag, Body)

(* The properties that nothing has noted, here or in a valid subschema.    *)
UnevaluatedProperties(k, c, flag) ==
  LET rest == SelectSeq(c.instance.keys, LAMBDA n : n \notin c.names \cup c.localNames)
      Body(x, name) ==
        LET r == Validate(k.schema, Copy(x, Member(c.instance, name)), flag)
        IN Result(r.valid, IF r.valid THEN Update(x, NoteLocalName(r.ctx, name, x.track)) ELSE x)
  IN IF ~ IsObject(c.instance) \/ rest = <<>> THEN Result(TRUE, c)
     ELSE IF IsFalse(k.schema) THEN Result(FALSE, c)
     ELSE ForAll(c, rest, flag, Body)

PropertyNames(k, c, flag) ==
  LET Body(x, name) == Result(Validate(k.schema, Copy(x, Text(name)), flag).valid, x)
  IN IF IsObject(c.instance) THEN ForAll(c, c.instance.keys, flag, Body) ELSE Result(TRUE, c)

(***************************************************************************)
(* Keywords for the items of an array. Indices count from 0.               *)
(***************************************************************************)
LOCAL Item(v, i) == v.items[i + 1]
LOCAL IndicesFrom(first, v) == [j \in 1 .. Len(v.items) - first |-> first + j - 1]
LOCAL Reached(c, i) == [c EXCEPT !.last = Max({@, i}), !.localLast = Max({@, i})]

(* A single schema for all items.                                          *)
ItemsSingle(k, c, flag) ==
  LET Body(x, i) ==
        LET r == Validate(k.schemas[1], Copy(x, Item(c.instance, i)), flag)
            y == IF r.valid THEN NoteLocalIndex(x, i, x.track) ELSE x
        IN Result(r.valid, Update(Reached(y, i), r.ctx))
  IN ForAll(c, IndicesFrom(0, c.instance), flag, Body)

(* A schema for each item. The verdict is that of a second validation with *)
(* the context of the first; when a first one fails under Flag, the loop   *)
(* is left with the verdict on the items before it.                        *)
ItemsArray(k, c, flag) ==
  LET Step(s, i) ==
        LET first == Validate(k.schemas[i + 1], Copy(s.ctx, Item(c.instance, i)), flag)
            again == Validate(k.schemas[i + 1],
                              IF first.valid THEN NoteLocalIndex(first.ctx, i, s.ctx.track)
                              ELSE first.ctx, flag)
        IN IF s.left \/ (flag /\ ~ first.valid) THEN [s EXCEPT !.left = TRUE]
           ELSE [s EXCEPT !.valid = @ /\ again.valid,
                          !.ctx = Update(Reached(@, i), again.ctx)]
      both == SelectSeq(IndicesFrom(0, c.instance), LAMBDA i : i < Len(k.schemas))
      end == FoldLeft(Step, [valid |-> TRUE, ctx |-> c, left |-> FALSE], both)
  IN Result(end.valid, end.ctx)

Items(k, c, flag) ==
  IF ~ IsArray(c.instance) THEN Result(TRUE, c)
  ELSE IF k.isArray THEN ItemsArray(k, c, flag) ELSE ItemsSingle(k, c, flag)

(* What additionalItems and unevaluatedItems do with each item left.       *)
LOCAL Remaining(k, c, flag, list) ==
  LET Body(x, i) ==
        LET r == Validate(k.schema, Copy(x, Item(c.instance, i)), flag)
            sub == IF r.valid THEN NoteLocalIndex(r.ctx, i, x.track) ELSE r.ctx
            last == Max({x.last, i})
        IN Result(r.valid, Update([x EXCEPT !.last = last, !.localLast = last], sub))
  IN IF list # <<>> /\ IsFalse(k.schema) THEN Result(FALSE, c)
     ELSE ForAll(c, list, flag, Body)

(* The items behind those that "items" with an array has reached.          *)
AdditionalItems(k, c, local, flag) ==
  IF IsArray(c.instance) /\ Has(local, "items") /\ Get(local, "items").isArray
  THEN Remaining(k, c, flag, IndicesFrom(c.localLast + 1, c.instance))
  ELSE Result(TRUE, c)

UnevaluatedItems(k, c, flag) ==
  IF ~ IsArray(c.instance) THEN Result(TRUE, c)
  ELSE Remaining(k, c, flag, SelectSeq(IndicesFrom(0, c.instance),
                                       LAMBDA i : i \notin c.indices \cup c.localIndices))

(* The number of matches is left for minContains and maxContains.          *)
ContainsKeyword(k, c, local, flag) ==
  LET bounded == Has(local, "minContains") \/ Has(local, "maxContains")
      Step(s, i) ==
        IF flag /\ s.count > 0 /\ ~ bounded THEN s
        ELSE IF Validate(k.schema, Copy(s.ctx, Item(c.instance, i)), flag).valid
             THEN [count |-> s.count + 1, ctx |-> NoteLocalIndex(s.ctx, i, c.track)]
             ELSE s
      end == FoldLeft(Step, [count |-> 0, ctx |-> c], IndicesFrom(0, c.instance))
  IN IF ~ IsArray(c.instance) THEN Result(TRUE, c)
     ELSE Result(\/ end.count > 0
                 \/ Has(local, "minContains") /\ Get(local, "minContains").count = 0,
                 [end.ctx EXCEPT !.containsCount = end.count])

MinContains(k, c) ==
  Result(IsArray(c.instance) /\ c.containsCount # -1 => c.containsCount >= k.count, c)

MaxContains(k, c) ==
  Result(IsArray(c.instance) /\ c.containsCount # -1 => c.containsCount <= k.count, c)

(***************************************************************************)
(* Assertions about the value itself.                                      *)
(***************************************************************************)
(* A string that is the name of an allowed type passes, too.               *)
Type(k, v) == v.type \in k.types \/ (v.type = "string" /\ v.text \in k.types)

Const(k, v) == Equals(v, k.value)

Enum(k, v) == \E i \in DOMAIN k.values : Equals(k.values[i], v)

Required(k, v) == IsObject(v) => ToSet(k.names) \subseteq Keys(v)

MinProperties(k, v) == IsObject(v) => Len(v.keys) >= k.count
MaxProperties(k, v) == IsObject(v) => Len(v.keys) <= k.count
MinItems(k, v) == IsArray(v) => Len(v.items) >= k.count
MaxItems(k, v) == IsArray(v) => Len(v.items) <= k.count
UniqueItems(k, v) ==
  IsArray(v) => \A i, j \in DOMAIN v.items : i < j => ~ Equals(v.items[i], v.items[j])

Assertion(k, v) ==
  CASE k.kw = "type" -> Type(k, v)
    [] k.kw = "const" -> Const(k, v)
    [] k.kw = "enum" -> Enum(k, v)
    [] k.kw = "required" -> Required(k, v)
    [] k.kw = "minProperties" -> MinProperties(k, v)
    [] k.kw = "maxProperties" -> MaxProperties(k, v)
    [] k.kw = "minItems" -> MinItems(k, v)
    [] k.kw = "maxItems" -> MaxItems(k, v)
    [] k.kw = "uniqueItems" -> UniqueItems(k, v)

(***************************************************************************)
(* One keyword of the schema local, and all of them.                       *)
(***************************************************************************)
Keyword(k, c, local, flag) ==
  CASE k.kw = "allOf" -> AllOf(k, c, flag)
    [] k.kw = "anyOf" -> AnyOf(k, c, flag)
    [] k.kw = "oneOf" -> OneOf(k, c, flag)
    [] k.kw = "not" -> Not(k, c, flag)
    [] k.kw = "if" -> If(k, c, local, flag)
    [] k.kw = "then" -> Then(k, c, flag)
    [] k.kw = "else" -> Else(k, c, flag)
    [] k.kw = "dependentSchemas" -> DependentSchemas(k, c, flag)
    [] k.kw = "dependentRequired" -> DependentRequired(k, c, flag)
    [] k.kw = "dependencies" -> Dependencies(k, c, flag)
    [] k.kw = "properties" -> Properties(k, c, flag)
    [] k.kw = "patternProperties" -> PatternProperties(k, c, flag)
    [] k.kw = "additionalProperties" -> AdditionalProperties(k, c, flag)
    [] k.kw = "unevaluatedProperties" -> UnevaluatedProperties(k, c, flag)
    [] k.kw = "propertyNames" -> PropertyNames(k, c, flag)
    [] k.kw = "items" -> Items(k, c, flag)
    [] k.kw = "additionalItems" -> AdditionalItems(k, c, local, flag)
    [] k.kw = "unevaluatedItems" -> UnevaluatedItems(k, c, flag)
    [] k.kw = "contains" -> ContainsKeyword(k, c, local, flag)
    [] k.kw = "minContains" -> MinContains(k, c)
    [] k.kw = "maxContains" -> MaxContains(k, c)
    [] OTHER -> Result(Assertion(k, c.instance), c)

Validate(schema, c, flag) ==
  LET tracking == [c EXCEPT !.track = @ \/ Has(schema, "unevaluatedProperties")
                                        \/ Has(schema, "unevaluatedItems")]
  IN IF schema.inherent # "none" THEN Result(schema.inherent = "true", c)
     ELSE ForAll(tracking, InSequence(schema.keywords), flag,
                 LAMBDA x, k : Keyword(k, x, schema, flag))

(***************************************************************************)
(* A schema is built of keywords and then validates the value, in any of   *)
(* the formats.                                                            *)
(***************************************************************************)
Init ==
  /\ instance \in Instances
  /\ keywords = <<>>
  /\ verdicts = <<>>

(* The next entry of the object that a schema is read from: no two have    *)
(* one name.                                                               *)
AddKeyword ==
  /\ verdicts = <<>>
  /\ Len(keywords) < MaxKeywords
  /\ \E k \in KeywordsFor[instance.type] :
       /\ ~ Has(Schema(keywords), k.kw)
       /\ keywords' = Append(keywords, k)
  /\ UNCHANGED <<instance, verdicts>>

IsValid(format) ==
  Validate(Schema(keywords), NewContext(instance), format = "Flag").valid

ValidateInstance ==
  /\ \E f \in Formats \ DOMAIN verdicts :
       verdicts' = [g \in DOMAIN verdicts \cup {f} |->
                      IF g = f THEN IsValid(f) ELSE verdicts[g]]
  /\ UNCHANGED <<instance, keywords>>

Next == AddKeyword \/ ValidateInstance

Spec == Init /\ [][Next]_vars
=============================================================================
