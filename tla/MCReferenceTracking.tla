------------------------ MODULE MCReferenceTracking ------------------------
(* Every graph of two objects, p of the root and of the other naming an    *)
(* object and q a list of up to two objects; and graphs with a dictionary, *)
(* an IJsonSerializable, and two objects that are equal.                   *)
EXTENDS ReferenceTracking, TLC

CONSTANTS r, o, l, k, x, y

Member(name, v) == [name |-> name, value |-> v]
MemberLists == {<<>>} \cup {<<Member("p", v)>> : v \in {r, o}}
WithList == {<<>>, <<Member("q", l)>>}
ListMembers ==
  {<<>>} \cup {<<Member("0", v)>> : v \in {r, o}}
         \cup {<<Member("0", v), Member("1", w)>> : v, w \in {r, o}}

Graph(rm, om, lm) ==
  [root    |-> r,
   kind    |-> r :> "object" @@ o :> "object" @@ l :> "list",
   members |-> r :> rm @@ o :> om @@ l :> lm,
   equal   |-> [n \in {r, o, l} |-> n]]

PlainGraphs ==
  {Graph(a \o b, c \o d, e) : a, c \in MemberLists, b, d \in WithList, e \in ListMembers}

(* The root has an object, then a dictionary or a custom k of objects,     *)
(* then an object that k may hold and the first object again.              *)
Others == {o, l, x, y}
Holding(kind, content) ==
  [root    |-> r,
   kind    |-> r :> "object" @@ k :> kind @@ [n \in Others |-> "object"],
   members |-> r :> <<Member("p", o), Member("q", k), Member("s", l), Member("t", o), Member("u", l)>>
               @@ k :> content @@ [n \in Others |-> <<>>],
   equal   |-> [n \in {r, k} \cup Others |-> n]]

Contents ==
  {<<>>, <<Member("p", l)>>, <<Member("p", o), Member("q", l)>>, <<Member("p", x), Member("s", y)>>}

MCGraphs ==
  PlainGraphs
    \cup {Holding(kind, c) : kind \in {"dict", "custom"}, c \in Contents}
    \cup {[Holding("object", <<>>) EXCEPT !.equal[l] = o]}

Doc(members, children) ==
  [p \in {<<>>} \cup DOMAIN children |->
     IF p = <<>> THEN [Node("object") EXCEPT !.members = members] ELSE children[p]]

(* A marker behind, and a marker before, the object it names.              *)
MCDocuments ==
  {Doc(<<"p", "q">>, <<"p">> :> Node("object") @@ <<"q">> :> Marker(<<"p">>)),
   Doc(<<"p", "q">>, <<"q">> :> Node("object") @@ <<"p">> :> Marker(<<"q">>)),
   Doc(<<"p">>, <<"p">> :> Marker(<<>>))}
==============================================================================
