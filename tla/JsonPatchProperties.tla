------------------------- MODULE JsonPatchProperties -------------------------
(***************************************************************************)
(* JsonPatch against the meaning of JSON Patch on documents as values.     *)
(***************************************************************************)
EXTENDS JsonPatch

Reference == INSTANCE PatchReference

(* The document is a tree: each of its containers is in one place.         *)
NoSharing ==
  LET R == Reach(heap, current)
      Holders(l) == UNION {{m} \X {k \in DOMAIN heap[m].at : heap[m].at[k] = l} : m \in R}
  IN \A l \in R : Cardinality(Holders(l)) = IF l = current THEN 0 ELSE 1

(* The document, as a value, before and after a step.                      *)
Doc == Tree(heap, current)

InArray(path) == IsKind(heap, Evaluate(heap, current, Front(path)).json, "array")

(* The value does not contain the container it is to be put into.          *)
FreshAt(value, path) ==
  path # <<>> => Evaluate(heap, current, Front(path)).json \notin Reach(heap, value)

(* Moves that the code's copy-then-remove gets right: nothing is put in    *)
(* front of what is removed, and the removal does not shift the target.    *)
MoveOrderIrrelevant(from, path) ==
  /\ from # <<>> /\ path # <<>>
  /\ Dash \notin ToSet(from) /\ Dash \notin ToSet(Front(path))
  /\ ~ IsPrefix(path, from) /\ ~ IsPrefix(from, path)
  /\ InArray(path) =>
       \/ Last(path) = Dash
       \/ /\ Front(from) = Front(path)
          /\ Number(Last(from)) < Number(Last(path))
          /\ Number(Last(path)) < Len(heap[Evaluate(heap, current, Front(path)).json].at)
  /\ InArray(from) => ~ IsStrictPrefix(Front(from), Front(path))

(* A copy is put behind the element at its index, so only one to a member  *)
(* or to the end of an array arrives where its path says.                  *)
CopyAtEnd(path) ==
  path # <<>> /\ InArray(path) =>
    \/ Last(path) = Dash
    \/ Number(Last(path)) = Len(heap[Evaluate(heap, current, Front(path)).json].at)

(* The numeral 2147483647 names no element, yet the code takes it for "-"  *)
(* when it adds and removes.                                               *)
NoSentinel(path) == \A i \in DOMAIN path : Number(path[i]) # IntMax

Regular(a) ==
  /\ a.op # "test" => NoSentinel(a.from \o a.path)
  /\ CASE a.op = "add" -> FreshAt(a.value, a.path)
       [] a.op = "remove" -> a.path # <<>>
       [] a.op = "replace" -> a.path # <<>> /\ FreshAt(a.value, a.path)
       [] a.op = "move" -> \/ a.from = a.path /\ Reference!Has(Doc, a.from)
                           \/ MoveOrderIrrelevant(a.from, a.path)
       [] a.op = "copy" -> ~ IsPrefix(a.from, a.path) /\ CopyAtEnd(a.path)
       [] OTHER -> TRUE

(* On a document without sharing, a regular action does what JSON Patch    *)
(* says: it fails, and then leaves the document as it was, exactly when it *)
(* must, and else gives the document it must. In particular remove-then-   *)
(* add replaces nothing but the value at its path, and copy-then-remove    *)
(* moves.                                                                  *)
Expected(a) ==
  LET value == Tree(heap, a.value)
      Gives(can, tree) == IF can THEN status' = "ok" /\ Doc' = tree
                                 ELSE status' # "ok" /\ Doc' = Doc
  IN CASE a.op = "add" ->
            Gives(Reference!CanAdd(Doc, a.path), Reference!Added(Doc, a.path, value))
       [] a.op = "remove" ->
            Gives(Reference!CanRemove(Doc, a.path), Reference!Removed(Doc, a.path))
       [] a.op = "replace" ->
            Gives(Reference!CanRemove(Doc, a.path), Reference!Replaced(Doc, a.path, value))
       [] a.op = "move" /\ a.from = a.path -> Gives(TRUE, Doc)
       [] a.op = "move" /\ a.from # a.path ->
            Gives(Reference!CanMove(Doc, a.from, a.path), Reference!Moved(Doc, a.from, a.path))
       [] a.op = "copy" ->
            Gives(Reference!CanCopy(Doc, a.from, a.path), Reference!Copied(Doc, a.from, a.path))
       [] a.op = "test" ->
            Gives(Reference!Has(Doc, a.path) /\ Reference!At(Doc, a.path) = value, Doc)

AsSpecified == [][NoSharing /\ Regular(last') => Expected(last')]_vars

(* A movement within an array loses no element and duplicates none.        *)
MoveKeepsElements ==
  [][/\ NoSharing
     /\ last'.op = "move" /\ status' = "ok"
     /\ last'.from # <<>> /\ last'.path # <<>>
     /\ Front(last'.from) = Front(last'.path) /\ InArray(last'.path)
     => LET array == Evaluate(heap, current, Front(last'.path)).json
        IN ToBag(heap'[array].at) = ToBag(heap[array].at)]_vars
==============================================================================
