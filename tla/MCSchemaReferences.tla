-------------------------- MODULE MCSchemaReferences --------------------------
(* Documents with an address, pointers and references to another document  *)
(* (a, with the downloads b and bb) and to a meta-schema (m); without an   *)
(* address, around one with it (c); with local names (d); and with one     *)
(* local name inside another (e).                                          *)
EXTENDS SchemaReferences

CONSTANTS t1, t2, u, v, w, x, y,
  a, a1, a2, a3, a4, a5, m, m1, b, b1, bb, bb1, c, c1, c2, c3, c4, d, d1, d2, d3, d4, e, e1, e2

MCOrderlySchemas == {a, a1, a2, a3, a4, a5, b, b1, bb, bb1, m, m1}
MCSchemas == MCOrderlySchemas \cup {c, c1, c2, c3, c4, d, d1, d2, d3, d4, e, e1, e2}

Node(id, anchor, ref, subschemas, draft) ==
  [id |-> id, anchor |-> anchor, ref |-> ref, subschemas |-> subschemas, draft |-> draft]
Leaf(draft) == Node(NULL, NULL, NULL, <<>>, draft)
RefTo(ref, draft) == Node(NULL, NULL, ref, <<>>, draft)
Pointer(keyword, key) == [uri |-> NULL, frag |-> <<"#/", keyword, key>>]
In(keyword, key, s) == [at |-> <<keyword, key>>, schema |-> s]

MCSchema == [s \in Schemas |->
  CASE s = a -> Node(At(u), NULL, NULL,
                     <<In("properties", "p", a1), In("properties", "q", a2),
                       In("properties", "r", a4), In("properties", "s", a5),
                       In("definitions", "k", a3)>>, "older")
    [] s = a1 -> RefTo(Pointer("definitions", "k"), "older")
    [] s \in {a2, a3} -> RefTo(At(v), "older")
    [] s = a4 -> RefTo([uri |-> NULL, frag |-> <<"#">>], "older")
    [] s = a5 -> RefTo([uri |-> y, frag |-> <<"#">>], "older")
    [] s = m -> Node([uri |-> y, frag |-> <<"#">>], NULL, NULL,
                     <<In("properties", "s", m1)>>, "older")
    [] s = m1 -> RefTo([uri |-> NULL, frag |-> <<"#">>], "older")
    [] s = b -> Node(NULL, NULL, Pointer("properties", "p"), <<In("properties", "p", b1)>>, "any")
    [] s = bb -> Node(NULL, NULL, Pointer("properties", "p"), <<In("properties", "p", bb1)>>, "any")
    [] s \in {b1, bb1} -> Leaf("any")
    [] s = c -> Node(NULL, NULL, NULL,
                     <<In("properties", "k", c2), In("properties", "l", c3),
                       In("properties", "p", c1), In("properties", "q", c4)>>, "any")
    [] s = c1 -> RefTo(Pointer("properties", "l"), "any")
    [] s = c2 -> Leaf("any")
    [] s = c3 -> Node(At(w), NULL, NULL, <<>>, "any")
    [] s = c4 -> RefTo(At(w), "any")
    [] s = d -> Node(At(x), NULL, NULL,
                     <<In("properties", "p", d1), In("properties", "q", d2),
                       In("$defs", "k", d3), In("$defs", "l", d4)>>, "2019-09")
    [] s = d1 -> RefTo(Local("foo"), "2019-09")
    [] s = d2 -> RefTo(Local("bar"), "2019-09")
    [] s = d3 -> Node(Local("foo"), NULL, NULL, <<>>, "2019-09")
    [] s = d4 -> Node(NULL, "bar", NULL, <<>>, "2019-09")
    [] s = e -> Node(NULL, NULL, Local("foo"), <<In("properties", "k", e1)>>, "any")
    [] s = e1 -> Node(Local("foo"), NULL, NULL, <<In("properties", "p", e2)>>, "any")
    [] s = e2 -> Node(Local("bar"), NULL, NULL, <<>>, "any")]

MCOnline == [uri \in Uris |-> IF uri = v THEN <<b, bb>> ELSE <<>>]
MCBuiltIn == [address \in {At(y)} |-> m]

(* Each URI is the address of one schema, until b is downloaded again.     *)
ASSUME MCClaimedOnce == ClaimedOnce(Schemas \ {bb, bb1})
(* Document a and those it refers to are out of each other's way, and what *)
(* their references designate is there; a and m are plain.                 *)
ASSUME MCOrderly == a \in Roots => Orderly(MCOrderlySchemas) /\ Connected(MCOrderlySchemas)
ASSUME MCPlain == Plain = {a, m} \cap Roots

MCInstances == {{"p"}, {"q"}, {"p", "q", "r"}, {"s"}}
===============================================================================
