----------------------------- MODULE MCJsonPatch -----------------------------
(* Two documents, an object with an array and an object in it, and an      *)
(* array with an object in it; patches insert a scalar or an object. The   *)
(* segment "1" is an index and a key.                                      *)
EXTENDS JsonPatchProperties

CONSTANTS doc, inner, list, patchObj, x, y, z, a, zero, one, two, minusFive, huge

MCLocs == {doc, inner, list, patchObj}
MCScalars == {x, y, z}
MCSegments == {a, zero, one, two, minusFive, huge, Dash}
MCNumeral == [s \in {zero, one, two, minusFive, huge} |->
                CASE s = zero -> 0 [] s = one -> 1 [] s = two -> 2
                  [] s = minusFive -> -5 [] s = huge -> IntMax]
MCPaths == {<<>>, <<a>>, <<one>>, <<zero>>, <<two>>, <<Dash>>,
            <<a, zero>>, <<a, one>>, <<a, two>>, <<a, Dash>>, <<a, minusFive>>, <<a, huge>>,
            <<one, a>>, <<one, one>>, <<zero, a>>, <<zero, one>>}
MCValues == {y, patchObj}

Object(at) == [kind |-> "object", at |-> at]
Array(at) == [kind |-> "array", at |-> at]

InObject == [l \in MCLocs |->
  CASE l = doc -> Object([k \in {a, one} |-> IF k = a THEN list ELSE inner])
    [] l = inner -> Object([k \in {a} |-> x])
    [] l = list -> Array(<<x, y, z>>)
    [] l = patchObj -> Object(<<>>)]
InList == [l \in MCLocs |->
  CASE l = doc -> Array(<<inner, x, y>>)
    [] l = inner -> Object([k \in {a} |-> list])
    [] l = list -> Array(<<>>)
    [] l = patchObj -> Object(<<>>)]
MCHeaps == {InObject, InList}
==============================================================================
