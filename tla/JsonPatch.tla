------------------------------ MODULE JsonPatch ------------------------------
(***************************************************************************)
(* JsonPatch.TryApply (src/Manatee.Json/Patch) over a heap of JSON         *)
(* containers. Objects and arrays are shared by reference, as in the code, *)
(* where a JsonValue is an immutable wrapper around a scalar or around a   *)
(* mutable JsonObject or JsonArray. One step applies one JsonPatchAction.  *)
(***************************************************************************)
EXTENDS Integers, Sequences, SequencesExt

CONSTANTS
  Locs,       (* the identities of objects and arrays                      *)
  Scalars,    (* strings, numbers, Booleans and null: never mutated        *)
  Document,   (* the caller's document                                     *)
  Segments,   (* the segments of JSON pointers                             *)
  Dash,       (* the segment "-"                                           *)
  Numeral,    (* the integers that segments without a leading zero denote  *)
  IntMax,     (* int.MaxValue, longer than any array                       *)
  Paths,      (* the pointers that patches use: sequences of segments      *)
  Values,     (* the values that patches add, replace by and test for      *)
  Heaps,      (* the containers before the patch is applied                *)
  MaxActions, (* bound: the length of a patch                              *)
  NULL        (* the null reference                                        *)

Refs == Locs \cup Scalars

(* Objects are functions on keys, arrays are sequences; no reference in    *)
(* them is null.                                                           *)
Objects == [kind : {"object"}, at : UNION {[keys -> Refs] : keys \in SUBSET Segments}]
Arrays == [kind : {"array"}, at : Seq(Refs)]

ASSUME LocsAssumption == NULL \notin Refs /\ Locs \cap Scalars = {}
ASSUME DocumentAssumption ==
  /\ Document \in Refs /\ Values \subseteq Refs
  /\ Heaps \subseteq [Locs -> Objects \cup Arrays]
ASSUME PathsAssumption ==
  /\ Paths \subseteq Seq(Segments)
  /\ DOMAIN Numeral \subseteq Segments /\ Numeral \in [DOMAIN Numeral -> Int]
  /\ IntMax \in Nat
  /\ MaxActions \in Nat

VARIABLES
  heap,     (* the content of each container                               *)
  current,  (* current in TryApply                                         *)
  status,   (* "ok", "failed": an error is reported, "throws"              *)
  last,     (* the action applied last                                     *)
  applied   (* how many have been                                          *)

vars == <<heap, current, status, last, applied>>

IsKind(h, v, kind) == v \in Locs /\ h[v].kind = kind
Write(h, v, content) == [h EXCEPT ![v].at = content]

(* int.TryParse and the leading-zero rule: -1 is no index.                 *)
Number(part) == IF part \in DOMAIN Numeral THEN Numeral[part] ELSE -1

(* JsonPointerFunctions has int.MaxValue stand for "-", and does not tell  *)
(* the numeral of that number from it.                                     *)
Index(part) == IF part = Dash THEN IntMax ELSE Number(part)
Greater(a, b) == IF a > b THEN a ELSE b

------------------------------------------------------------------------------
(* JsonPointer.Evaluate: fold _EvaluateSegment over the segments.          *)
EvaluateSegment(h, found, segment) ==
  LET at == h[found.json].at
      n  == Number(segment)
      missing == [json |-> NULL, status |-> "failed"]
  IN IF found.status # "ok" THEN found
     ELSE CASE IsKind(h, found.json, "object") ->
                 IF segment \in DOMAIN at THEN [found EXCEPT !.json = at[segment]] ELSE missing
            [] IsKind(h, found.json, "array") /\ segment = Dash ->
                 IF at = <<>> THEN [missing EXCEPT !.status = "throws"]
                 ELSE [found EXCEPT !.json = Last(at)]
            [] IsKind(h, found.json, "array") /\ segment # Dash ->
                 IF n \in 0 .. Len(at) - 1 THEN [found EXCEPT !.json = at[n + 1]] ELSE missing
            [] OTHER -> missing

(* What is found after each of them, and after all.                        *)
Evaluation(h, json, path) ==
  LET found[n \in 0 .. Len(path)] ==
        IF n = 0 THEN [json |-> json, status |-> "ok"]
        ELSE EvaluateSegment(h, found[n - 1], path[n])
  IN found

Evaluate(h, json, path) == Evaluation(h, json, path)[Len(path)]

(* JsonPointerFunctions.ResolvePointer: the container of what a path names *)
(* and its key or index there.                                             *)
WalkFrom(json, s) == [parent |-> NULL, key |-> -1, current |-> json, status |-> s]

ResolvePartStale(h, w, part) ==
  IF w.status = "ok" /\ IsKind(h, w.current, "object") /\ part \in DOMAIN h[w.current].at
  THEN [w EXCEPT !.parent = w.current, !.key = part]
  ELSE [w EXCEPT !.status = "failed"]

ResolvePart(h, w, part) ==
  LET at == h[w.current].at
      n  == Index(part)
      index == IF n = IntMax THEN Len(at) - 1 ELSE n
  IN IF w.status # "ok" THEN w
     ELSE CASE IsKind(h, w.current, "object") ->
                 IF part \in DOMAIN at
                 THEN [w EXCEPT !.parent = w.current, !.key = part, !.current = at[part]]
                 ELSE [w EXCEPT !.status = "failed"]
            [] IsKind(h, w.current, "array") ->
                 IF n = -1 \/ (n # IntMax /\ Len(at) <= n)
                 THEN [w EXCEPT !.status = "failed"]
                 ELSE IF index < 0
                 THEN [w EXCEPT !.status = "throws"]
                 ELSE [w EXCEPT !.parent = w.current, !.key = index, !.current = at[index + 1]]
            [] OTHER -> [w EXCEPT !.status = "failed"]

Resolution(h, json, path) ==
  LET walk[n \in 0 .. Len(path)] ==
        IF n = 0 THEN WalkFrom(json, IF path = <<>> THEN "failed" ELSE "ok")
        ELSE ResolvePart(h, walk[n - 1], path[n])
  IN walk

ResolvePointer(h, json, path) == Resolution(h, json, path)[Len(path)]

(* JsonPointerFunctions.InsertValue: walk to the place of the last part,   *)
(* which need not exist, ...                                               *)
InsertPart(h, w, part) ==
  LET at == h[w.current].at
      n  == Index(part)
      index == IF n = IntMax THEN Greater(0, Len(at) - 1) ELSE n
  IN IF w.status # "ok" THEN w
     ELSE CASE IsKind(h, w.current, "object") ->
                 [w EXCEPT !.parent = w.current, !.key = part,
                           !.current = IF part \in DOMAIN at THEN at[part] ELSE NULL]
            [] IsKind(h, w.current, "array") ->
                 IF n = -1
                 THEN [w EXCEPT !.status = "failed"]
                 ELSE IF index < 0
                 THEN [w EXCEPT !.status = "throws"]
                 ELSE [w EXCEPT !.parent = w.current,
                                !.key = IF part = Dash THEN Len(at) ELSE index,
                                !.current = IF index < Len(at) THEN at[index + 1] ELSE NULL]
            [] OTHER -> [w EXCEPT !.status = "failed"]

Insertion(h, json, path) ==
  LET walk[n \in 0 .. Len(path)] ==
        IF n = 0 THEN WalkFrom(json, "ok")
        ELSE InsertPart(h, walk[n - 1], path[n])
  IN walk

Outcome(h, json, s) == [heap |-> h, json |-> json, status |-> s]

(* ... then put the value there, before the element at its index or, with  *)
(* insertAfter, behind it.                                                 *)
InsertValueOverwriting(h, json, path, value, insertAfter) ==
  LET w == Insertion(h, json, path)[Len(path)]
      at == h[w.parent].at
  IN IF path = <<>> THEN Outcome(h, value, "ok")
     ELSE IF w.status # "ok" THEN Outcome(h, json, w.status)
     ELSE IF IsKind(h, w.parent, "object")
     THEN Outcome(Write(h, w.parent, [k \in DOMAIN at \cup {w.key} |->
                                        IF k = w.key THEN value ELSE at[k]]), json, "ok")
     ELSE CASE w.key > Len(at) -> Outcome(h, json, "failed")
            [] w.key = Len(at) -> Outcome(Write(h, w.parent, Append(at, value)), json, "ok")
            [] OTHER -> Outcome(Write(h, w.parent, [at EXCEPT ![w.key + 1] = value]), json, "ok")

InsertValue(h, json, path, value, insertAfter) ==
  LET w == Insertion(h, json, path)[Len(path)]
      at == h[w.parent].at
  IN IF path = <<>> THEN Outcome(h, value, "ok")
     ELSE IF w.status # "ok" THEN Outcome(h, json, w.status)
     ELSE IF IsKind(h, w.parent, "object")
     THEN Outcome(Write(h, w.parent, [k \in DOMAIN at \cup {w.key} |->
                                        IF k = w.key THEN value ELSE at[k]]), json, "ok")
     ELSE CASE w.key > Len(at) -> Outcome(h, json, "failed")
            [] w.key = Len(at) -> Outcome(Write(h, w.parent, Append(at, value)), json, "ok")
            [] OTHER ->
                 Outcome(Write(h, w.parent,
                               InsertAt(at, w.key + (IF insertAfter THEN 2 ELSE 1), value)),
                         json, "ok")

------------------------------------------------------------------------------
(* JsonPatchAction._RemoveAtPath. Its first test reads the action's Path,  *)
(* also when a move removes at From.                                       *)
RemoveLeavingHole(h, json, Path, path) ==
  LET w == ResolvePointer(h, json, path)
      at == h[w.parent].at
  IN IF Path = <<>> \/ w.status # "ok" THEN Outcome(h, json, "failed")
     ELSE IF IsKind(h, w.parent, "object")
     THEN Outcome(Write(h, w.parent, [k \in DOMAIN at \ {w.key} |-> at[k]]), json, "ok")
     ELSE Outcome(Write(h, w.parent, [at EXCEPT ![w.key + 1] = NULL]), json, "ok")

RemoveAtPath(h, json, Path, path) ==
  LET w == ResolvePointer(h, json, path)
      at == h[w.parent].at
  IN CASE Path = <<>> ->
            IF IsKind(h, json, "object")
            THEN Outcome(Write(h, json, <<>>), json, "ok")
            ELSE Outcome(h, json, "throws")
       [] Path # <<>> /\ w.status # "ok" -> Outcome(h, json, w.status)
       [] Path # <<>> /\ w.status = "ok" ->
            IF IsKind(h, w.parent, "object")
            THEN Outcome(Write(h, w.parent, [k \in DOMAIN at \ {w.key} |-> at[k]]), json, "ok")
            ELSE Outcome(Write(h, w.parent, RemoveAt(at, w.key + 1)), json, "ok")

(* A copy inserts the very container it found, after the element at Path.  *)
CopyTo(h, json, From, Path) ==
  LET found == Evaluate(h, json, From)
  IN IF found.status # "ok"
     THEN Outcome(h, json, found.status)
     ELSE InsertValue(h, json, Path, found.json, TRUE)

MoveTo(h, json, From, Path) ==
  LET copy == CopyTo(h, json, From, Path)
  IN CASE From = Path -> Outcome(h, json, "ok")
       [] From # Path /\ copy.status # "ok" -> copy
       [] From # Path /\ copy.status = "ok" -> RemoveAtPath(copy.heap, json, Path, From)

ReplaceAtPath(h, json, Path, value) ==
  LET remove == RemoveAtPath(h, json, Path, Path)
  IN IF remove.status = "ok"
     THEN InsertValue(remove.heap, json, Path, value, FALSE)
     ELSE remove

(* The value a reference denotes: JsonValue.Equals compares these. A value *)
(* that contains itself is cut off below every container there is.         *)
Tree(h, v) ==
  LET tree[d \in 0 .. Cardinality(Locs) + 1, w \in Refs] ==
        IF w \in Locs /\ d > 0
        THEN [h[w] EXCEPT !.at = [k \in DOMAIN @ |-> tree[d - 1, @[k]]]]
        ELSE w
  IN tree[Cardinality(Locs) + 1, v]

TestAt(h, json, Path, value) ==
  LET found == Evaluate(h, json, Path)
  IN IF found.status # "ok"
     THEN Outcome(h, json, found.status)
     ELSE Outcome(h, json, IF Tree(h, found.json) = Tree(h, value) THEN "ok" ELSE "failed")

------------------------------------------------------------------------------
NoAction == [op |-> "none", from |-> <<>>, path |-> <<>>, value |-> NULL]

(* new JsonValue(json) wraps the caller's own container.                   *)
Init ==
  /\ heap \in Heaps
  /\ current = Document
  /\ status = "ok"
  /\ last = NoAction
  /\ applied = 0

(* The body of the loop of TryApply: a failure ends it, an exception       *)
(* leaves it.                                                              *)
TryApply(action, result) ==
  /\ status = "ok"
  /\ applied < MaxActions
  /\ applied' = applied + 1
  /\ last' = action
  /\ heap' = result.heap
  /\ status' = result.status
  /\ current' = IF result.status = "ok" THEN result.json ELSE current

AddToOriginal(path, value) ==
  TryApply([NoAction EXCEPT !.op = "add", !.path = path, !.value = value],
           InsertValue(heap, Document, path, value, FALSE))

AddValue(path, value) ==
  TryApply([NoAction EXCEPT !.op = "add", !.path = path, !.value = value],
           InsertValue(heap, current, path, value, FALSE))

RemoveValue(path) ==
  TryApply([NoAction EXCEPT !.op = "remove", !.path = path],
           RemoveAtPath(heap, current, path, path))

ReplaceValue(path, value) ==
  TryApply([NoAction EXCEPT !.op = "replace", !.path = path, !.value = value],
           ReplaceAtPath(heap, current, path, value))

MoveValue(from, path) ==
  TryApply([NoAction EXCEPT !.op = "move", !.from = from, !.path = path],
           MoveTo(heap, current, from, path))

CopyValue(from, path) ==
  TryApply([NoAction EXCEPT !.op = "copy", !.from = from, !.path = path],
           CopyTo(heap, current, from, path))

TestValue(path, value) ==
  TryApply([NoAction EXCEPT !.op = "test", !.path = path, !.value = value],
           TestAt(heap, current, path, value))

Next ==
  \E path \in Paths :
    \/ \E value \in Values : AddValue(path, value)
    \/ RemoveValue(path)
    \/ \E value \in Values : ReplaceValue(path, value)
    \/ \E from \in Paths : MoveValue(from, path)
    \/ \E from \in Paths : CopyValue(from, path)
    \/ \E value \in Values : TestValue(path, value)

Spec == Init /\ [][Next]_vars

------------------------------------------------------------------------------
(* The heap consists of objects and arrays of references.                  *)
TypeOK ==
  /\ heap \in [Locs -> Objects \cup Arrays]
  /\ current \in Refs
  /\ status \in {"ok", "failed", "throws"}
  /\ applied \in 0 .. MaxActions

(* The library resolves pointers twice, for reading and for removing: both *)
(* find the same value, or both find none. (There are two exceptions, both *)
(* for parts that ResolvePointer reads as numbers: a negative numeral      *)
(* makes it throw, and 2147483647 is the last element to it, while         *)
(* JsonPointer.Evaluate finds nothing there.)                              *)
ResolversAgree ==
  \A path \in Paths \ {<<>>} :
    LET found == Evaluate(heap, current, path)
        w == ResolvePointer(heap, current, path)
        slot == IF IsKind(heap, w.parent, "array") THEN w.key + 1 ELSE w.key
    IN (\A i \in DOMAIN path : Number(path[i]) \in -1 .. IntMax - 1) =>
         /\ w.status = found.status
         /\ w.status = "ok" => w.current = found.json /\ heap[w.parent].at[slot] = found.json

Children(h, l) == {h[l].at[k] : k \in DOMAIN h[l].at} \cap Locs
Closed(h, X) == \A l \in X : Children(h, l) \subseteq X

(* The containers a value consists of: those that are in every set that    *)
(* has it and, with a container, the containers in it.                     *)
Reach(h, v) ==
  {l \in Locs : \A X \in SUBSET Locs : {v} \cap Locs \subseteq X /\ Closed(h, X) => l \in X}

(* An action writes only to containers of the current document: the value  *)
(* it inserts, and a document that an earlier action replaced at the root, *)
(* stay as they are.                                                       *)
WritesCurrentOnly ==
  [][\A l \in Locs : heap'[l] # heap[l] => l \in Reach(heap, current)]_vars
==============================================================================
