----------------------------- MODULE MCJsonPath -----------------------------
(***************************************************************************)
(* Arrays of up to three numbers, under every slice, and two documents with*)
(* objects and arrays in each other, under every other operator, too.      *)
(***************************************************************************)
EXTENDS JsonTransform

Array(items) == [type |-> "array", leaf |-> None, names |-> <<>>, items |-> items]
Object(names, items) == [type |-> "object", leaf |-> None, names |-> names, items |-> items]
False == Leaf("boolean", 0)

Numbers(n) == Array([i \in 1 .. n |-> Number(i)])
Nested ==
  Object(<<"a", "b">>,
    <<Array(<<Object(<<"a", "b">>, <<Number(1), False>>), Array(<<Number(1), Number(2)>>)>>),
      Object(<<"b">>, <<Array(<<>>)>>)>>)
Ones == Array(<<Number(1), Number(1)>>)
Twins ==
  Array(<<Object(<<"a", "b">>, <<Number(1), Ones>>), Object(<<"b", "a">>, <<Ones, Number(1)>>),
          Number(1)>>)

Ends == {None} \cup -4 .. 4
AllSlices ==
  [index : {None}, start : Ends, end : Ends,
   step : {None} \cup -2 .. 2 \cup {-IntMax - 1, IntMax - 1, IntMax}]
  \cup [index : -4 .. 3, start : {None}, end : {None}, step : {None}]
Index(i) == [index |-> i, start |-> None, end |-> None, step |-> None]
From(start, end) == [index |-> None, start |-> start, end |-> end, step |-> None]
SliceQuery(slices) == [of |-> "slices", slices |-> slices]

Queries ==
  {SliceQuery(s) : s \in {<<Index(0)>>, <<Index(-1), Index(0)>>, <<From(0, 2), Index(1)>>}}
  \cup {[of |-> "wildcard"]}
  \cup [of : {"filter"}, name : {"a", "b"}]
  \cup [of : {"index"}, offset : {-1, 0}]
Simple ==
  [op : {"name"}, name : {"a", "b"}] \cup [op : {"array"}, query : Queries]
    \cup {[op |-> "wildcard"], [op |-> "length"]}
AnyOperator == Simple \cup [op : {"search"}, parameter : Simple]
Wide == {[op |-> "array", query |-> SliceQuery(<<s>>)] : s \in AllSlices}

Cells == {Number(1), False, Numbers(0), Numbers(1), Object(<<"a">>, <<Number(0)>>)}
Tables ==
  {Array(rows) : rows \in BoundedSeq({Object(<<"a", "b">>, cells) : cells \in Cells \X Cells}, 2)}

Lists == {Numbers(n) : n \in {0, 1, 3}}
MCDocuments == Lists \cup {Nested, Twins} \cup Tables
MCOperators ==
  [d \in MCDocuments |->
     CASE d \in Lists -> <<AnyOperator \cup Wide, AnyOperator>>
       [] d \in {Nested, Twins} -> <<AnyOperator, AnyOperator, AnyOperator>>
       [] OTHER -> <<>>]

(* As in Manatee.Json.Tests/Transform/ClientTest.cs, with two columns.     *)
Name(n) == [op |-> "name", name |-> n]
Nth(i) == [op |-> "array", query |-> SliceQuery(<<Index(i)>>)]
Each == [op |-> "array", query |-> [of |-> "wildcard"]]
Local(p) == [is |-> "path", isLocal |-> TRUE, path |-> p]
Root(p) == [is |-> "path", isLocal |-> FALSE, path |-> p]
Items(templates) == [is |-> "array", items |-> templates]
MCTemplates ==
  [columns |->
     Items(<<[is |-> "constant", value |-> Numbers(2)],
             Items(<<Root(<<Each>>), Local(<<Name("a")>>)>>),
             Items(<<Root(<<Each>>), Local(<<Name("b")>>)>>)>>),
   rows |->
     Items(<<Root(<<Nth(1), Each>>),
             [is |-> "object", names |-> <<"a", "b">>,
              items |-> <<Local(<<>>), Root(<<Nth(2), Each>>)>>]>>)]
=============================================================================
