---------------------------- MODULE PathMeaning ----------------------------
(***************************************************************************)
(* What a path selects, as a relation between places of a document: for    *)
(* each operator, which places it leads to from a place, and how often a   *)
(* path leads to one, without an order of steps, without recursion, and    *)
(* without regard to what is there. JsonPath works on values instead.      *)
(***************************************************************************)
EXTENDS JsonPath

CONSTANTS MaxItems, MaxDepth (* of the documents                           *)

VARIABLE
  meant (* history: for each node that the path leads to, in how many ways  *)

At(value, place) == FoldLeft(LAMBDA v, i : v.items[i], value, place)

Places ==
  [value \in Documents |->
     {p \in BoundedSeq(1 .. MaxItems, MaxDepth) :
        \A k \in DOMAIN p : p[k] \in DOMAIN At(value, SubSeq(p, 1, k - 1)).items}]

(* a[start:end:step] of an array with n items, as in Python, which has the *)
(* same notation (path.md names slices without defining them).             *)
InSlice(slice, n, i) ==
  LET step == IF slice.step = None THEN 1 ELSE slice.step
      (* negative indices count from the end                               *)
      place(index) == IF index < 0 THEN index + n ELSE index
      within(index, least, most) == Max({least, Min({most, place(index)})})
      from == IF step > 0
              THEN IF slice.start = None THEN 0 ELSE within(slice.start, 0, n)
              ELSE IF slice.start = None THEN n - 1 ELSE within(slice.start, -1, n - 1)
      to == IF step > 0
            THEN IF slice.end = None THEN n ELSE within(slice.end, 0, n)
            ELSE IF slice.end = None THEN -1 ELSE within(slice.end, -1, n - 1)
  IN IF slice.index # None THEN i = place(slice.index)
     ELSE /\ step # 0
          /\ IF step > 0 THEN from <= i /\ i < to ELSE to < i /\ i <= from
          /\ (i - from) % (IF step > 0 THEN step ELSE -step) = 0

Chosen(query, value, i) ==
  LET n == Len(value.items)
  IN CASE query.of = "slices" -> \E s \in ToSet(query.slices) : InSlice(s, n, i - 1)
       [] query.of = "wildcard" -> TRUE
       [] query.of = "filter" -> HasProperty(value.items[i], query.name)
       [] query.of = "index" -> i - 1 = n + query.offset

(* A node is a place, or what was measured there.                          *)
Value(node) ==
  LET value == At(json, node.place)
  IN CASE ~ node.measured -> value
       [] node.measured /\ value.type = "array" -> Number(Len(value.items))
       [] OTHER -> Number(1)

(* Whether the item at place p is one that a name, * or [] in its parent   *)
(* selects.                                                                *)
Picks(op, p) ==
  LET parent == At(json, Front(p))
  IN CASE op.op = "name" -> parent.type = "object" /\ parent.names[Last(p)] = op.name
       [] op.op = "wildcard" -> TRUE
       [] op.op = "array" -> Chosen(op.query, parent, Last(p))

Leads(op, from, to) ==
  LET isArray(p) == At(json, p).type = "array"
      p == to.place
      parameter == op.parameter
  IN /\ ~ from.measured
     /\ CASE op.op = "length" -> to.measured /\ p = from.place /\ isArray(p)
          [] op.op \in {"name", "wildcard", "array"} ->
               ~ to.measured /\ p # <<>> /\ Front(p) = from.place /\ Picks(op, p)
          [] op.op = "search" /\ parameter.op = "length" ->
               to.measured /\ IsPrefix(from.place, p)
          [] op.op = "search" /\ parameter.op # "length" ->
               /\ ~ to.measured
               /\ IsStrictPrefix(from.place, p)
               /\ parameter.op = "array" => isArray(Front(p))
               /\ Picks(parameter, p)

Nodes == [place : Places[json], measured : BOOLEAN]

Ways(nodes) == MapThenSumSet(LAMBDA n : meant[n], nodes)

MeantInit ==
  /\ Init
  /\ meant = ([place |-> <<>>, measured |-> FALSE] :> 1)

MeantNext ==
  /\ Next
  /\ LET from(n) == {m \in DOMAIN meant : Leads(Last(path'), m, n)}
     IN meant' = [n \in {n \in Nodes : from(n) # {}} |-> Ways(from(n))]

------------------------------------------------------------------------------
(* A step so large that an index of the slice wraps throws. With a step    *)
(* that is not positive, the code begins where it is told to, and at the   *)
(* first item otherwise, also when that is at the end of the array or      *)
(* beyond, and does not stop before the first.                             *)
AsInPython(slice, n) ==
  \/ slice.step = None
  \/ /\ slice.step > 0
     /\ \A i \in 0 .. n - 1 : InSlice(slice, n, i) => i + slice.step <= IntMax
  \/ /\ slice.step < 0
     /\ slice.start # None /\ slice.start \in -n .. n - 1
     /\ slice.end # None /\ slice.end >= -n - 1

Slices(op) ==
  CASE op.op = "array" /\ op.query.of = "slices" -> ToSet(op.query.slices)
    [] op.op = "search" /\ op.parameter.op = "array" /\ op.parameter.query.of = "slices" ->
         ToSet(op.parameter.query.slices)
    [] OTHER -> {}

(* Slices merge what is equal.                                             *)
NoTwins(value) ==
  \A p \in Places[value] :
    LET items == At(value, p).items
    IN \A i, j \in DOMAIN items : i < j => ~ Equals(items[i], items[j])

(* Whether the next operator is one that does what it means.               *)
Regular(op) ==
  /\ op.op = "search" /\ op.parameter.op = "wildcard" => Ways(DOMAIN meant) = 1
  /\ op.op = "search" /\ op.parameter.op = "length" => \A n \in DOMAIN meant : ~ n.measured
  /\ Slices(op) # {} => NoTwins(json)
  /\ \A p \in Places[json], s \in Slices(op) :
       At(json, p).type \in {"array", "object"} /\ s.index = None =>
         AsInPython(s, Len(At(json, p).items))

(* current has the values of the nodes, each as often as ways lead there.  *)
IsMeant ==
  /\ current # None
  /\ ToSet(current) = {Value(n) : n \in DOMAIN meant}
  /\ \A v \in ToSet(current) :
       Cardinality({i \in DOMAIN current : current[i] = v})
         = Ways({n \in DOMAIN meant : Value(n) = v})

(* Whatever operators a path combines, searches in what searches found     *)
(* included, Evaluate finds the values at the places it means, each as     *)
(* often as there are ways to it, and does not throw. Excepted are slices  *)
(* that count down from the end or beyond the first item, and those whose  *)
(* step leads from one of their items beyond the largest int; equal items  *)
(* of one array under slices; ..length of a length; and ..* unless one     *)
(* value was found before: it drops the first, and throws if there is none.*)
FindsWhatIsMeant ==
  [][path' # path /\ IsMeant /\ Regular(Last(path')) => IsMeant']_<<pathVars, meant>>
=============================================================================
