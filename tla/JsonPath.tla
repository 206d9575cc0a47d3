------------------------------ MODULE JsonPath ------------------------------
(***************************************************************************)
(* JsonPath.Evaluate: the operators of a path are applied to the values    *)
(* found so far, which begin with the document. A value is a record of its *)
(* type, its leaf (numbers; booleans as 0 and 1), and for arrays and       *)
(* objects the items, in the order of insertion, and their names. A        *)
(* sequence of values may be None instead: an exception was thrown.        *)
(***************************************************************************)
EXTENDS Integers, SequencesExt

CONSTANTS
  Documents,
  Operators, (* for each document, the operators that may come first in a  *)
             (* path for it, second, ...                                   *)
  IntMax,    (* int.MaxValue, beyond which an index wraps                  *)
  None       (* null: of an int? or where an exception was thrown          *)

VARIABLES
  json,   (* the document                                                  *)
  path,   (* Operators, as far as they have been applied                   *)
  current

pathVars == <<json, path, current>>

Leaf(type, x) == [type |-> type, leaf |-> x, names |-> <<>>, items |-> <<>>]
Number(n) == Leaf("number", n)

(* What a loop has gathered, unless one of its rounds threw.               *)
Gather(parts) == IF None \in ToSet(parts) THEN None ELSE FlattenSeq(parts)

------------------------------------------------------------------------------
(* Indices are those of the code, from 0.                                  *)
(* As if an index beyond the end were not moved to it.                     *)
ResolveIndexUnlimited(index, count) == IF index < 0 THEN count + index ELSE index

ResolveIndex(index, count) ==
  IF index < 0 THEN count + index ELSE Min({index, count})

(* An int after an addition.                                               *)
Wrap(n) == ((n + IntMax + 1) % (2 * (IntMax + 1))) - (IntMax + 1)

(* An index that is not in the array throws. A step of 0 takes the first   *)
(* item until memory ends, and then throws.                                *)
RECURSIVE FindSlow(_, _, _, _)
FindSlow(items, index, end, step) ==
  LET rest == FindSlow(items, Wrap(index + step), end, step)
  IN IF ~ IF step > 0 THEN index < end ELSE index > end THEN <<>>
     ELSE IF step = 0 \/ index \notin 0 .. Len(items) - 1 \/ rest = None THEN None
     ELSE <<items[index + 1]>> \o rest

(* Slice.Find.                                                             *)
FindSlice(slice, items) ==
  LET count == Len(items)
      index == IF slice.index < 0 THEN slice.index + count ELSE slice.index
      start == Max({ResolveIndex(IF slice.start = None THEN 0 ELSE slice.start, count), 0})
      end == ResolveIndex(IF slice.end = None THEN count ELSE slice.end, count)
      step == IF slice.step = None THEN 1 ELSE slice.step
  IN IF slice.index # None
     THEN IF index \in 0 .. count - 1 THEN <<items[index + 1]>> ELSE <<>>
     ELSE IF start = end \/ (step > 0 /\ end <= start) THEN <<>>
     ELSE FindSlow(items, start, end, step)

(* JsonValue.Equals: the members of objects are in no order.               *)
RECURSIVE Equals(_, _)
Equals(v, w) ==
  LET Same(i, j) == Equals(v.items[i], w.items[j])
  IN /\ v.type = w.type /\ v.leaf = w.leaf /\ Len(v.items) = Len(w.items)
     /\ \A i \in DOMAIN v.items :
          IF v.type = "object" THEN \E j \in DOMAIN w.names : w.names[j] = v.names[i] /\ Same(i, j)
          ELSE Same(i, i)

(* A HashSet of values, in the order of insertion.                         *)
HashSet(values) ==
  FoldLeft(LAMBDA set, v : IF \E i \in DOMAIN set : Equals(set[i], v) THEN set ELSE Append(set, v),
           <<>>, values)

(* HasPropertyExpression: the property is there, and is not false.         *)
HasProperty(value, name) ==
  /\ value.type = "object"
  /\ \E i \in DOMAIN value.names : value.names[i] = name /\ value.items[i] # Leaf("boolean", 0)

(* IJsonPathArrayQuery.Find. Of the expressions there are @.name, as a     *)
(* filter, and @.length plus an offset, as an index.                       *)
Find(query, items) ==
  CASE query.of = "slices" ->
         LET found == Gather([k \in DOMAIN query.slices |-> FindSlice(query.slices[k], items)])
         IN IF found = None THEN None ELSE HashSet(found)
    [] query.of = "wildcard" -> items
    [] query.of = "filter" -> SelectSeq(items, LAMBDA v : HasProperty(v, query.name))
    [] query.of = "index" ->
         LET index == Len(items) + query.offset
         IN IF index \in 0 .. Len(items) - 1 THEN <<items[index + 1]>> ELSE <<>>

------------------------------------------------------------------------------
(* A value and all within it, in the order in which every search meets them*)
RECURSIVE Met(_)
Met(value) == <<value>> \o FlattenSeq([i \in DOMAIN value.items |-> Met(value.items[i])])

(* JsonObject.TryGetValue.                                                 *)
TryGetValue(value, name) ==
  IF value.type = "object" /\ Contains(value.names, name)
  THEN <<value.items[CHOOSE i \in DOMAIN value.names : value.names[i] = name]>>
  ELSE <<>>

(* What an operator finds in one value: IJsonPathOperator.Evaluate, and    *)
(* for a search what its parameter finds in one value that it meets.       *)
EvaluateOne(op, value) ==
  CASE op.op = "name" -> TryGetValue(value, op.name)
    [] op.op = "wildcard" -> value.items
    [] op.op = "array" ->
         IF value.type \in {"array", "object"} THEN Find(op.query, value.items) ELSE <<>>
    [] op.op = "length" ->
         IF value.type = "array" THEN <<Number(Len(value.items))>> ELSE <<>>

SearchOne(parameter, value) ==
  CASE parameter.op = "name" -> TryGetValue(value, parameter.name)
    [] parameter.op = "wildcard" -> <<value>>
    [] parameter.op = "array" ->
         IF value.type = "array" THEN Find(parameter.query, value.items) ELSE <<>>
    [] parameter.op = "length" ->
         <<Number(IF value.type = "array" THEN Len(value.items) ELSE 1)>>

Search(parameter, values) ==
  LET met == FlattenSeq([i \in DOMAIN values |-> Met(values[i])])
  IN Gather([i \in DOMAIN met |-> SearchOne(parameter, met[i])])

(* WildCardSearchParameter: "we don't want to include the root".           *)
SearchAll(values) ==
  LET found == Search([op |-> "wildcard"], values)
  IN IF found = <<>> THEN None ELSE Tail(found)

EvaluateOperator(op, values) ==
  CASE op.op # "search" -> Gather([i \in DOMAIN values |-> EvaluateOne(op, values[i])])
    [] op.op = "search" /\ op.parameter.op = "wildcard" -> SearchAll(values)
    [] op.op = "search" /\ op.parameter.op # "wildcard" -> Search(op.parameter, values)

Evaluate(operators, value) ==
  FoldLeft(LAMBDA found, op : IF found = None THEN None ELSE EvaluateOperator(op, found),
           <<value>>, operators)

------------------------------------------------------------------------------
Init ==
  /\ json \in Documents
  /\ path = <<>>
  /\ current = <<json>>

(* One round of the loop of Evaluate.                                      *)
Apply(op) ==
  /\ current # None
  /\ path' = Append(path, op)
  /\ current' = EvaluateOperator(op, current)
  /\ UNCHANGED json

Next ==
  /\ Len(path) < Len(Operators[json])
  /\ \E op \in Operators[json][Len(path) + 1] : Apply(op)
=============================================================================
