------------------------------ MODULE TypeMap ------------------------------
(***************************************************************************)
(* What an abstraction map promises: which type stands for an abstraction  *)
(* is decided by the calls of the program that map and remove types, in    *)
(* their order, and by nothing else. To look a type up is no step of it.   *)
(***************************************************************************)
CONSTANTS
  Abstractions, (* interfaces and abstract classes                         *)
  Concretions,  (* types that can be instantiated                          *)
  Supers,       (* for each type, the types it derives from or implements  *)
  Pairs,        (* which types may be mapped to which: [from, to]          *)
  Initial       (* the mappings that a map may begin with                  *)

VARIABLE mapped (* a function from some abstractions to concretions        *)

Init == mapped \in Initial

(* None, Unmapped and Override: the bases of tAbstract that are mapped, too*)
Bases(tAbstract, behavior) ==
  CASE behavior = "None" -> {}
    [] behavior = "Unmapped" -> Supers[tAbstract] \ DOMAIN mapped
    [] behavior = "Override" -> Supers[tAbstract]

Map(tAbstract, tConcrete, behavior) ==
  LET set == ({tAbstract} \cup Bases(tAbstract, behavior)) \cap Abstractions
  IN mapped' = [t \in DOMAIN mapped \cup set |-> IF t \in set THEN tConcrete ELSE mapped[t]]

RemoveMap(tAbstract) ==
  /\ tAbstract \in DOMAIN mapped
  /\ mapped' = [t \in DOMAIN mapped \ {tAbstract} |-> mapped[t]]

(* With removeRelated: whatever else stands for the same.                  *)
RemoveRelated(tConcrete) ==
  mapped' = [t \in {a \in DOMAIN mapped : mapped[a] # tConcrete} |-> mapped[t]]

Next ==
  \/ \E pair \in Pairs, b \in {"None", "Unmapped", "Override"} : Map(pair.from, pair.to, b)
  \/ \E t \in Abstractions : RemoveMap(t)
  \/ \E c \in Concretions : RemoveRelated(c)

Spec == Init /\ [][Next]_mapped
=============================================================================
