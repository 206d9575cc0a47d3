--------------------------- MODULE MCSchemaKeywords ---------------------------
(* Objects with the properties a and b, arrays of up to two items, and one *)
(* level of nesting, and a string that is the name of a type; the keywords *)
(* have subschemas that accept, reject or tell p from q, and subschemas    *)
(* that note properties or items.                                          *)
EXTENDS SchemaKeywordsProperties

S(text) == Text(text)
P == S("p")
Q == S("q")
Obj(keys, items) == [type |-> "object", text |-> "", keys |-> keys, items |-> items]
Arr(items) == [type |-> "array", text |-> "", keys |-> <<>>, items |-> items]
BA == Obj(<<"b", "a">>, <<Q, P>>)

MCInstances ==
  {Obj(<<"a">>, <<P>>), Obj(<<"a", "b">>, <<P, Q>>), Obj(<<"a", "b">>, <<Q, P>>),
   Obj(<<"b", "a">>, <<P, Obj(<<"b">>, <<Q>>)>>),
   Arr(<<P>>), Arr(<<P, Q>>), Arr(<<Q, Q>>), Arr(<<Arr(<<P, P>>), Q>>),
   Arr(<<Obj(<<"a">>, <<Q>>)>>),
   Arr(<<Obj(<<"a", "b">>, <<P, Q>>), BA>>),
   S("object"), S("string")}

True == Boolean(TRUE)
False == Boolean(FALSE)
One(k) == Schema(<<k>>)

OnlyP == One([kw |-> "const", value |-> P])
Strings == One([kw |-> "type", types |-> {"string"}])

Props(names, schemas) == [kw |-> "properties", names |-> names, schemas |-> schemas]
Patterns(matches, schemas) ==
  [kw |-> "patternProperties", matches |-> matches, schemas |-> schemas]
List(kw, schemas) == [kw |-> kw, schemas |-> schemas]
With(kw, schema) == [kw |-> kw, schema |-> schema]
Count(kw, n) == [kw |-> kw, count |-> n]
ItemsOf(isArray, schemas) == [kw |-> "items", isArray |-> isArray, schemas |-> schemas]

APisP == One(Props(<<"a">>, <<OnlyP>>))
BIsP == One(Props(<<"b">>, <<OnlyP>>))
HasB == One([kw |-> "required", names |-> <<"b">>])

ObjectKeywords ==
  {Props(<<"a">>, <<OnlyP>>),
   Props(<<"a">>, <<One(With("additionalProperties", False))>>),
   Props(<<"a">>, <<One(Props(<<"b">>, <<Strings>>))>>),
   Patterns(<<{"a", "b"}, {"b"}>>, <<Strings, OnlyP>>),
   With("additionalProperties", False), With("additionalProperties", OnlyP),
   With("unevaluatedProperties", False), With("unevaluatedProperties", OnlyP),
   List("allOf", <<APisP, HasB>>),
   List("allOf", <<One(With("additionalProperties", False))>>),
   List("anyOf", <<BIsP, APisP>>),
   List("oneOf", <<BIsP, APisP>>),
   With("not", BIsP), With("not", One(With("additionalProperties", False))),
   With("if", APisP), With("then", BIsP), With("else", BIsP),
   [kw |-> "dependentSchemas", names |-> <<"b">>, schemas |-> <<APisP>>],
   [kw |-> "dependentRequired", names |-> <<"a">>, needed |-> <<{"b"}>>],
   [kw |-> "dependencies", names |-> <<"b", "a">>, needed |-> <<{}, {"b"}>>,
    schemas |-> <<BIsP, True>>],
   With("propertyNames", One([kw |-> "enum", values |-> <<S("a"), S("p")>>])),
   Count("minProperties", 2), Count("maxProperties", 1)}

FirstIsP == One(ItemsOf(TRUE, <<OnlyP>>))

ArrayKeywords ==
  {ItemsOf(FALSE, <<OnlyP>>), ItemsOf(TRUE, <<OnlyP>>),
   ItemsOf(TRUE, <<True, OnlyP>>), ItemsOf(TRUE, <<One(With("additionalProperties", OnlyP))>>),
   ItemsOf(TRUE, <<One(ItemsOf(FALSE, <<OnlyP>>))>>),
   With("additionalItems", False), With("additionalItems", OnlyP),
   With("unevaluatedItems", False), With("unevaluatedItems", OnlyP),
   With("contains", OnlyP), Count("minContains", 0), Count("minContains", 2),
   Count("maxContains", 1),
   List("allOf", <<FirstIsP>>),
   List("anyOf", <<FirstIsP, One(ItemsOf(FALSE, <<True>>))>>),
   List("oneOf", <<One(With("contains", OnlyP)), One(ItemsOf(FALSE, <<OnlyP>>))>>),
   With("if", FirstIsP), With("then", False),
   Count("minItems", 2), Count("maxItems", 1), [kw |-> "uniqueItems"],
   [kw |-> "const", value |-> Arr(<<BA, BA>>)]}

OfType(types) == [kw |-> "type", types |-> types]

StringKeywords ==
  {OfType({"object"}), OfType({"array", "object"}), OfType({"object", "string"}),
   With("not", One(OfType({"array", "object"}))),
   List("anyOf", <<One(OfType({"array"})), OnlyP>>),
   List("oneOf", <<Strings, One(OfType({"object"}))>>),
   With("if", One(OfType({"object"}))), With("then", Strings), With("else", OnlyP),
   [kw |-> "const", value |-> S("object")],
   [kw |-> "enum", values |-> <<P, S("string")>>]}

MCKeywordsFor == [t \in {"object", "array", "string"} |->
                    CASE t = "object" -> ObjectKeywords
                      [] t = "array" -> ArrayKeywords
                      [] t = "string" -> StringKeywords]
=============================================================================
