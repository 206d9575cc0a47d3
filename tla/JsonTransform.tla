--------------------------- MODULE JsonTransform ---------------------------
(***************************************************************************)
(* JsonTransformer.Transform: a template with paths in it becomes a        *)
(* document. A template is a constant value, the text of a path from the   *)
(* root or ("@") from the local value, an object, or an array.             *)
(***************************************************************************)
EXTENDS PathMeaning

CONSTANTS
  Templates,    (* for each name of a template, the template               *)
  MaxTransforms

VARIABLES
  result, (* of transforming the document, or None                         *)
  used    (* the names of the templates, in order                          *)

Container(type, names, items) ==
  IF None \in ToSet(items) THEN None
  ELSE [type |-> type, leaf |-> None, names |-> names, items |-> items]

ArrayOf(items) == Container("array", <<>>, items)

(* As if the items were taken from the front.                              *)
TransformStringFirst(source, localSource, template, index) ==
  LET items == Evaluate(template.path, IF template.isLocal THEN localSource ELSE source)
  IN IF items = None \/ (items = <<>> /\ index # -1) THEN None
     ELSE IF index = -1 /\ Len(items) # 1 THEN ArrayOf(items) ELSE items[1]

(* A path that finds one value stands for it; if it finds others it stands *)
(* for all of them, or within an array with a path for the one at index.   *)
TransformString(source, localSource, template, index) ==
  LET items == Evaluate(template.path, IF template.isLocal THEN localSource ELSE source)
  IN CASE items = None -> None
       [] items # None /\ Len(items) = 1 -> items[1]
       [] items # None /\ Len(items) # 1 /\ index = -1 -> ArrayOf(items)
       [] OTHER -> IF index < Len(items) THEN items[index + 1] ELSE None

(* An array of a path and another template is one of that template for each*)
(* item that the path finds in the source, be it local or not.             *)
IsLoop(template) ==
  template.is = "array" /\ Len(template.items) = 2 /\ template.items[1].is = "path"

RECURSIVE TransformValue(_, _, _, _)
TransformValue(source, localSource, template, index) ==
  LET part(t) == TransformValue(source, localSource, t, index)
      parts == [k \in DOMAIN template.items |-> part(template.items[k])]
      found == Evaluate(template.items[1].path, source)
  IN CASE template.is = "constant" -> template.value
       [] template.is = "path" -> TransformString(source, localSource, template, index)
       [] template.is = "object" -> Container("object", template.names, parts)
       [] IsLoop(template) ->
            IF found = None THEN None
            ELSE ArrayOf([k \in DOMAIN found |->
                            TransformValue(source, found[k], template.items[2], k - 1)])
       [] template.is = "array" /\ ~ IsLoop(template) -> ArrayOf(parts)

------------------------------------------------------------------------------
TransformInit ==
  /\ MeantInit
  /\ result = json
  /\ used = <<>>

Transform(name) ==
  /\ path = <<>>
  /\ result # None
  /\ Len(used) < MaxTransforms
  /\ result' = TransformValue(result, result, Templates[name], -1)
  /\ used' = Append(used, name)
  /\ UNCHANGED <<pathVars, meant>>

TransformNext ==
  \/ used = <<>> /\ MeantNext /\ UNCHANGED <<result, used>>
  \/ \E name \in DOMAIN Templates : Transform(name)

------------------------------------------------------------------------------
(* An array of objects that have each the names of the template "rows", in *)
(* their order.                                                            *)
IsTable(value) ==
  /\ value.type = "array"
  /\ \A row \in ToSet(value.items) :
       row.type = "object" /\ row.names = Templates["rows"].items[2].names

(* A table transformed to columns, by paths that are local to its rows, and*)
(* back, by paths that take turns through the columns, is the table again: *)
(* for any number of rows, none and one included, and for cells that are   *)
(* arrays or objects themselves. No item is lost, doubled, or unwrapped.   *)
RestoredByReverse ==
  IsTable(json) /\ used = <<"columns", "rows">> => result = json
=============================================================================
