---------------------------- MODULE SchemaMeaning ----------------------------
(***************************************************************************)
(* What a schema accepts, by the drafts that the repository supports       *)
(* (README.md of the repository): the keywords are a set, without an order *)
(* among them, and subschemas see nothing of the schema around them. As in *)
(* the code and its test (UnevaluatedItemsTests.cs), an item that matches  *)
(* "contains" counts as evaluated; as in the code, a property named by     *)
(* dependentSchemas does so, too.                                          *)
(***************************************************************************)
EXTENDS SchemaKeywords
LOCAL INSTANCE SequencesExt
LOCAL INSTANCE FiniteSets

LOCAL Sub(schema, name) == Get(schema, name)
LOCAL Indices(v) == 0 .. Len(v.items) - 1
LOCAL Value(v, i) == v.items[i + 1]

(* What a value stands for: an object, a function of names.                *)
RECURSIVE Denoted(_)
Denoted(v) ==
  [type |-> v.type, text |-> v.text,
   members |-> [n \in Keys(v) |-> Denoted(Member(v, n))],
   items |-> IF IsArray(v) THEN [i \in DOMAIN v.items |-> Denoted(v.items[i])] ELSE <<>>]

RECURSIVE Accepts(_, _), Names(_, _), Positions(_, _)

(* The subschemas that apply to the value itself, besides "not".           *)
LOCAL Applied(schema, v) ==
  LET Of(k) ==
        CASE k.kw \in {"allOf", "anyOf", "oneOf"} -> ToSet(k.schemas)
          [] k.kw = "if" -> {k.schema}
          [] k.kw = "then" ->
               IF Has(schema, "if") /\ Accepts(Sub(schema, "if").schema, v) THEN {k.schema} ELSE {}
          [] k.kw = "else" ->
               IF Has(schema, "if") /\ ~ Accepts(Sub(schema, "if").schema, v) THEN {k.schema} ELSE {}
          [] k.kw = "dependentSchemas" ->
               {k.schemas[i] : i \in {j \in DOMAIN k.names : k.names[j] \in Keys(v)}}
          [] OTHER -> {}
  IN {s \in UNION {Of(schema.keywords[i]) : i \in DOMAIN schema.keywords} : Accepts(s, v)}

(* The properties that "properties" and "patternProperties" speak of.      *)
LOCAL Named(schema, v) ==
  LET Of(k) == CASE k.kw = "properties" -> ToSet(k.names)
                 [] k.kw = "patternProperties" -> UNION ToSet(k.matches)
                 [] OTHER -> {}
  IN Keys(v) \cap UNION {Of(schema.keywords[i]) : i \in DOMAIN schema.keywords}

(* The properties and the items that an accepting schema has evaluated,    *)
(* but for those of its own "unevaluated" keywords.                        *)
Names(schema, v) ==
  IF schema.inherent # "none" THEN {}
  ELSE IF Has(schema, "additionalProperties") \/ ~ IsObject(v) THEN Keys(v)
  ELSE UNION {
         Named(schema, v),
         IF Has(schema, "dependentSchemas")
         THEN Keys(v) \cap ToSet(Sub(schema, "dependentSchemas").names) ELSE {},
         UNION {IF Has(s, "unevaluatedProperties") THEN Keys(v) ELSE Names(s, v) :
                  s \in Applied(schema, v)}}

Positions(schema, v) ==
  LET items == Sub(schema, "items")
      own == IF ~ Has(schema, "items") THEN {}
             ELSE IF ~ items.isArray \/ Has(schema, "additionalItems") THEN Indices(v)
             ELSE {i \in Indices(v) : i < Len(items.schemas)}
      matched == IF ~ Has(schema, "contains") THEN {}
                 ELSE {i \in Indices(v) : Accepts(Sub(schema, "contains").schema, Value(v, i))}
  IN IF schema.inherent # "none" \/ ~ IsArray(v) THEN {}
     ELSE UNION {own, matched,
                 UNION {IF Has(s, "unevaluatedItems") THEN Indices(v) ELSE Positions(s, v) :
                          s \in Applied(schema, v)}}

LOCAL Matches(schema, v) ==
  Cardinality({i \in Indices(v) : Accepts(Sub(schema, "contains").schema, Value(v, i))})

LOCAL AllAccept(schema, v, names) == \A n \in names : Accepts(schema, Member(v, n))

(* What one keyword asks of an object, of an array and of any value.       *)
LOCAL OfObject(k, schema, v) ==
  CASE k.kw = "properties" ->
         \A i \in DOMAIN k.names :
            k.names[i] \in Keys(v) => Accepts(k.schemas[i], Member(v, k.names[i]))
    [] k.kw = "patternProperties" ->
         \A i \in DOMAIN k.matches : AllAccept(k.schemas[i], v, Keys(v) \cap k.matches[i])
    [] k.kw = "additionalProperties" -> AllAccept(k.schema, v, Keys(v) \ Named(schema, v))
    [] k.kw = "unevaluatedProperties" -> AllAccept(k.schema, v, Keys(v) \ Names(schema, v))
    [] k.kw = "propertyNames" -> \A n \in Keys(v) : Accepts(k.schema, Text(n))
    [] k.kw = "dependentSchemas" ->
         \A i \in DOMAIN k.names : k.names[i] \in Keys(v) => Accepts(k.schemas[i], v)
    [] k.kw = "dependentRequired" ->
         \A i \in DOMAIN k.names : k.names[i] \in Keys(v) => k.needed[i] \subseteq Keys(v)
    [] k.kw = "dependencies" ->
         \A i \in DOMAIN k.names :
            k.names[i] \in Keys(v) => /\ k.needed[i] \subseteq Keys(v)
                                      /\ k.needed[i] = {} => Accepts(k.schemas[i], v)
    [] k.kw = "required" -> \A i \in DOMAIN k.names : k.names[i] \in Keys(v)
    [] k.kw = "minProperties" -> Cardinality(Keys(v)) >= k.count
    [] k.kw = "maxProperties" -> Cardinality(Keys(v)) <= k.count
    [] OTHER -> TRUE

LOCAL OfArray(k, schema, v) ==
  CASE k.kw = "items" ->
         \A i \in Indices(v) :
            IF k.isArray THEN i < Len(k.schemas) => Accepts(k.schemas[i + 1], Value(v, i))
            ELSE Accepts(k.schemas[1], Value(v, i))
    [] k.kw = "additionalItems" ->
         Has(schema, "items") /\ Sub(schema, "items").isArray =>
           \A i \in Indices(v) :
              i >= Len(Sub(schema, "items").schemas) => Accepts(k.schema, Value(v, i))
    [] k.kw = "unevaluatedItems" ->
         \A i \in Indices(v) \ Positions(schema, v) : Accepts(k.schema, Value(v, i))
    [] k.kw = "contains" ->
         IF Has(schema, "minContains") THEN TRUE ELSE Matches(schema, v) >= 1
    [] k.kw = "minContains" -> Has(schema, "contains") => Matches(schema, v) >= k.count
    [] k.kw = "maxContains" -> Has(schema, "contains") => Matches(schema, v) <= k.count
    [] k.kw = "minItems" -> Len(v.items) >= k.count
    [] k.kw = "maxItems" -> Len(v.items) <= k.count
    [] k.kw = "uniqueItems" -> Cardinality({Denoted(x) : x \in ToSet(v.items)}) = Len(v.items)
    [] OTHER -> TRUE

LOCAL OfAny(k, schema, v) ==
  LET accepting == {i \in DOMAIN k.schemas : Accepts(k.schemas[i], v)}
  IN CASE k.kw = "allOf" -> accepting = DOMAIN k.schemas
       [] k.kw = "anyOf" -> accepting # {}
       [] k.kw = "oneOf" -> Cardinality(accepting) = 1
       [] k.kw = "not" -> ~ Accepts(k.schema, v)
       [] k.kw = "then" ->
            Has(schema, "if") /\ Accepts(Sub(schema, "if").schema, v) => Accepts(k.schema, v)
       [] k.kw = "else" ->
            Has(schema, "if") => Accepts(Sub(schema, "if").schema, v) \/ Accepts(k.schema, v)
       [] k.kw = "type" -> v.type \in k.types
       [] k.kw = "const" -> Denoted(v) = Denoted(k.value)
       [] k.kw = "enum" -> Denoted(v) \in {Denoted(x) : x \in ToSet(k.values)}
       [] OTHER -> TRUE

Accepts(schema, v) ==
  IF schema.inherent # "none" THEN schema.inherent = "true"
  ELSE \A i \in DOMAIN schema.keywords :
         LET k == schema.keywords[i]
         IN /\ OfAny(k, schema, v)
            /\ IsObject(v) => OfObject(k, schema, v)
            /\ IsArray(v) => OfArray(k, schema, v)
==============================================================================
