--------------------------- MODULE PatchReference ---------------------------
(***************************************************************************)
(* What the operations of JSON Patch mean (README.md:99 of the repository  *)
(* refers to jsonpatch.com), on documents as values: a scalar, or a record *)
(* of a kind and of the members or elements. Each operation is a value; it *)
(* applies when the predicate of the same name holds. As in the code, the  *)
(* segment "-" names the last element where an element must exist.         *)
(***************************************************************************)
LOCAL INSTANCE Integers
LOCAL INSTANCE SequencesExt

CONSTANTS Dash, Numeral, Scalars

LOCAL IsArray(tree) == tree \notin Scalars /\ tree.kind = "array"

(* The key or the 1-based position a segment names in a container.         *)
LOCAL Place(tree, segment) ==
  IF ~ IsArray(tree) THEN segment
  ELSE IF segment = Dash THEN Len(tree.at)
  ELSE IF segment \in DOMAIN Numeral THEN Numeral[segment] + 1 ELSE 0

RECURSIVE Has(_, _)
Has(tree, path) ==
  path = <<>> \/
  /\ tree \notin Scalars
  /\ Place(tree, Head(path)) \in DOMAIN tree.at
  /\ Has(tree.at[Place(tree, Head(path))], Tail(path))

RECURSIVE At(_, _)
At(tree, path) ==
  IF path = <<>> THEN tree ELSE At(tree.at[Place(tree, Head(path))], Tail(path))

(* Put content, in the place of what container the path names.             *)
RECURSIVE With(_, _, _)
With(tree, path, content) ==
  IF path = <<>> THEN content
  ELSE LET p == Place(tree, Head(path))
       IN [tree EXCEPT !.at[p] = With(@, Tail(path), content)]

(* Where an addition puts its value: at an index up to the length of the   *)
(* array, or behind the last element.                                      *)
LOCAL AddPlace(tree, segment) ==
  IF segment = Dash THEN Len(tree.at) + 1 ELSE Place(tree, segment)

CanAdd(tree, path) ==
  path = <<>> \/
  LET parent == At(tree, Front(path))
  IN /\ Has(tree, Front(path))
     /\ parent \notin Scalars
     /\ IsArray(parent) => AddPlace(parent, Last(path)) \in 1 .. Len(parent.at) + 1

Added(tree, path, value) ==
  IF path = <<>> THEN value
  ELSE LET parent == At(tree, Front(path))
           at == parent.at
           seg == Last(path)
       IN With(tree, Front(path),
               [parent EXCEPT !.at =
                  IF IsArray(parent)
                  THEN InsertAt(at, AddPlace(parent, seg), value)
                  ELSE [k \in DOMAIN at \cup {seg} |-> IF k = seg THEN value ELSE at[k]]])

CanRemove(tree, path) == path # <<>> /\ Has(tree, path)

Removed(tree, path) ==
  LET parent == At(tree, Front(path))
      at == parent.at
      p == Place(parent, Last(path))
  IN With(tree, Front(path),
          [parent EXCEPT !.at = IF IsArray(parent)
                                THEN RemoveAt(at, p)
                                ELSE [k \in DOMAIN at \ {p} |-> at[k]]])

(* A replacement leaves everything else where it is.                       *)
Replaced(tree, path, value) == With(tree, path, value)

(* A move removes, then adds what it removed.                              *)
CanMove(tree, from, path) ==
  /\ CanRemove(tree, from)
  /\ CanAdd(Removed(tree, from), path)

Moved(tree, from, path) == Added(Removed(tree, from), path, At(tree, from))

CanCopy(tree, from, path) == Has(tree, from) /\ CanAdd(tree, path)

Copied(tree, from, path) == Added(tree, path, At(tree, from))
==============================================================================
