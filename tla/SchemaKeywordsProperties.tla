----------------------- MODULE SchemaKeywordsProperties -----------------------
(* What the verdicts of SchemaKeywords have to be, against SchemaMeaning.  *)
EXTENDS SchemaMeaning
LOCAL INSTANCE SequencesExt

LOCAL Root == Schema(keywords)

(* The schema and all its subschemas.                                      *)
RECURSIVE Within(_)
Within(schema) ==
  LET Of(k) == UNION {IF "schemas" \in DOMAIN k THEN ToSet(k.schemas) ELSE {},
                      IF "schema" \in DOMAIN k THEN {k.schema} ELSE {}}
  IN {schema} \cup UNION {UNION {Within(s) : s \in Of(k)} : k \in ToSet(schema.keywords)}

Uses(schema, names) == \E n \in names : Has(schema, n)

Unevaluated == {"unevaluatedProperties", "unevaluatedItems"}
Dependent == Unevaluated \cup {"additionalProperties", "additionalItems"}

(* "then" and "else" come after their "if".                                *)
IfFirst(schema) ==
  \A i, j \in DOMAIN schema.keywords :
    schema.keywords[i].kw = "if" /\ schema.keywords[j].kw \in {"then", "else"} => i < j

HasItemsArray(schema) == Has(schema, "items") /\ Get(schema, "items").isArray

(* An array of schemas in "items" reports nothing it finds under Flag.     *)
NoItemsArray == \A s \in Within(Root) : ~ HasItemsArray(s)

(* All texts in a value, the names of members included.                    *)
RECURSIVE Texts(_)
Texts(v) == {v.text} \cup Keys(v) \cup UNION {Texts(x) : x \in ToSet(v.items)}

(* "type" accepts a string that is the name of an allowed type             *)
(* (TypeKeyword.cs:83).                                                    *)
NoTypeNames ==
  \A s \in Within(Root) : Has(s, "type") =>
    LET types == Get(s, "type").types
    IN "string" \in types \/ Texts(instance) \cap types = {}

Flat == \A i \in DOMAIN instance.items : instance.items[i].items = <<>>

(* Schemas without "additional" and "unevaluated" keywords accept what     *)
(* they mean, under any format: neither the sharing of contexts nor the    *)
(* early exits of the Flag format change a verdict. ("items" with an array *)
(* is right but for Flag, "type" but for strings that name a type.)        *)
AsSpecified ==
  \A f \in DOMAIN verdicts :
    (/\ \A s \in Within(Root) : ~ Uses(s, Dependent) /\ IfFirst(s)
     /\ NoTypeNames
     /\ f = "Flag" => NoItemsArray)
    => verdicts[f] = Accepts(Root, instance)

(* With those keywords in the schema itself, and none in its subschemas:   *)
(* on values whose members have none themselves, they apply to exactly     *)
(* what no other keyword and no valid subschema has evaluated.             *)
EvaluatedAsSpecified ==
  (/\ "Verbose" \in DOMAIN verdicts
   /\ Flat
   /\ NoTypeNames
   /\ \A s \in Within(Root) : IfFirst(s) /\ (s = Root \/ ~ Uses(s, Dependent)))
  => verdicts["Verbose"] = Accepts(Root, instance)

(* The copies of contexts only ever add to what counts as evaluated: where *)
(* nothing is negated or counted, a value that the schema means to accept  *)
(* is accepted, whatever is nested in what and in whatever order.          *)
NeverRejectsAccepted ==
  (/\ "Verbose" \in DOMAIN verdicts
   /\ \A s \in Within(Root) : ~ Uses(s, {"not", "oneOf", "if", "maxContains"})
   /\ Accepts(Root, instance))
  => verdicts["Verbose"]

(* The formats agree, where no "unevaluated" keyword could miss what an    *)
(* early exit has left out.                                                *)
EarlyExitsHarmless ==
  (/\ DOMAIN verdicts = Formats
   /\ NoItemsArray
   /\ \A s \in Within(Root) : ~ Uses(s, Unevaluated))
  => verdicts["Flag"] = verdicts["Verbose"]
=============================================================================
