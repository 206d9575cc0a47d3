------------------------- MODULE MCAbstractionMap -------------------------
(***************************************************************************)
(* interface IBase; abstract class A : IBase; class B : A; class C : B;    *)
(* and of the generic collections IEnumerable, IList and List the          *)
(* definitions, the types of integers, and what they inherit from:         *)
(* IEnumerable of IList's parameter is a type, and is not the definition   *)
(* of IEnumerable. MapGeneric admits definitions with closed types and     *)
(* closed types with definitions, but not List<> with List<int>.           *)
(***************************************************************************)
EXTENDS AbstractionMap

MCNone == "no type"
Classes ==
  [object    |-> [base |-> MCNone, interfaces |-> <<>>],
   IBase     |-> [base |-> MCNone, interfaces |-> <<>>],
   A         |-> [base |-> "object", interfaces |-> <<"IBase">>],
   B         |-> [base |-> "A", interfaces |-> <<"IBase">>],
   C         |-> [base |-> "B", interfaces |-> <<"IBase">>]]
Collections ==
  [IEnum     |-> [base |-> MCNone, interfaces |-> <<>>],
   IEnumOf   |-> [base |-> MCNone, interfaces |-> <<"IEnum">>],
   IEnumT    |-> [base |-> MCNone, interfaces |-> <<"IEnum">>],
   IEnumInt  |-> [base |-> MCNone, interfaces |-> <<"IEnum">>],
   IListOf   |-> [base |-> MCNone, interfaces |-> <<"IEnumT", "IEnum">>],
   IListT    |-> [base |-> MCNone, interfaces |-> <<"IEnumT", "IEnum">>],
   IListInt  |-> [base |-> MCNone, interfaces |-> <<"IEnumInt", "IEnum">>],
   ListOf    |-> [base |-> "object", interfaces |-> <<"IListT", "IEnumT", "IEnum">>],
   ListInt   |-> [base |-> "object", interfaces |-> <<"IListInt", "IEnumInt", "IEnum">>]]

All == Classes @@ Collections
MCTypes == DOMAIN All
MCAbstract == MCTypes \ {"object", "B", "C", "ListOf", "ListInt"}
MCBase == [t \in MCTypes |-> All[t].base]
MCInterfaces == [t \in MCTypes |-> All[t].interfaces]
MCDefinition ==
  [t \in MCTypes |->
     CASE t \in {"IEnumOf", "IEnumT", "IEnumInt"} -> "IEnumOf"
       [] t \in {"IListOf", "IListT", "IListInt"} -> "IListOf"
       [] t \in {"ListOf", "ListInt"} -> "ListOf"
       [] OTHER -> t]
MCOpen == {"IEnumOf", "IListOf", "ListOf"}
MCRequested == DOMAIN Classes \cup {"IEnum", "IEnumInt", "IListInt", "ListInt"}
MCArguments ==
  [t \in MCTypes |->
     CASE t \in {"IEnumInt", "IListInt", "ListInt"} -> <<"int">>
       [] t \in {"IEnumT", "IListT"} -> <<"parameter of another">>
       [] OTHER -> <<>>]
MCDefaults == <<[from |-> "IListOf", to |-> "ListOf"]>>
MCPairs ==
  [from : {"IBase", "A"}, to : {"B", "C"}]
  \cup {[from |-> "B", to |-> "C"],
        [from |-> "object", to |-> "B"],
        [from |-> "IListInt", to |-> "ListInt"],
        [from |-> "IListOf", to |-> "ListInt"],
        [from |-> "ListOf", to |-> "ListInt"]}
MCSupers ==
  LET interfaces(t) == Range(All[t].interfaces)
      classes(t) == CASE t \in {"A", "ListOf", "ListInt"} -> {"object"}
                      [] t = "B" -> {"A", "object"}
                      [] t = "C" -> {"B", "A", "object"}
                      [] OTHER -> {}
  IN [t \in MCTypes |-> interfaces(t) \cup classes(t)]

ASSUME MCOpenBases == OpenBases
==============================================================================
