--------------------------- MODULE AbstractionMap ---------------------------
(***************************************************************************)
(* The AbstractionMap of a serializer: a dictionary from types to types    *)
(* that the program fills and that look-ups fill, too. Types are given by  *)
(* what reflection says of them. Its users are the program, which maps and *)
(* removes types, and SerializerFactory and AutoSerializer, which look     *)
(* types up in the course of every call.                                   *)
(***************************************************************************)
EXTENDS Naturals, FiniteSets, Sequences, SequencesExt

CONSTANTS
  Types,
  Abstract,   (* IsAbstract or IsInterface                                 *)
  Base,       (* BaseType, or NoType                                       *)
  Interfaces, (* ImplementedInterfaces, as a sequence                      *)
  Definition, (* for a generic type its generic definition, else itself    *)
  Open,       (* generic definitions                                       *)
  Requested,  (* types that members, values and calls of the program have  *)
  Arguments,  (* GenericTypeArguments: <<>> for a definition, too          *)
  Defaults,   (* what the default map maps: [from, to], in order           *)
  Pairs,      (* what the program maps: [from, to]                         *)
  Supers,     (* for each type, the types it derives from or implements    *)
  NoType

Pair == [from : Types, to : Types]

ASSUME TypesAssumption ==
  /\ IsFiniteSet(Types)
  /\ Abstract \cup Open \cup Requested \subseteq Types
  /\ Open \cap Requested = {}
  /\ NoType \notin Types
  /\ Base \in [Types -> Types \cup {NoType}]
  /\ Interfaces \in [Types -> Seq(Types)]
  /\ Supers \in [Types -> SUBSET Types]
  /\ Pairs \subseteq Pair
  /\ Defaults \in Seq(Pair)

(* A type derives from its base and implements its interfaces, and derives *)
(* from and implements what these do, and never itself.                    *)
Direct(t) == ({Base[t]} \cup Range(Interfaces[t])) \ {NoType}

ASSUME SupersAssumption ==
  /\ \A t \in Types : Supers[t] = Direct(t) \cup UNION {Supers[s] : s \in Direct(t)}
  /\ \A t \in Types : t \notin Supers[t] /\ \A s \in Supers[t] : Supers[s] \subseteq Supers[t]

(* Generic types are made of definitions, which have no arguments and are  *)
(* no other type's base: BaseType gives a type made of it, with parameters.*)
(* What a definition derives from, its types do, with other arguments.     *)
ASSUME GenericsAssumption ==
  /\ Definition \in [Types -> Types]
  /\ \A t \in Types : Definition[t] # t => Definition[t] \in Open
  /\ \A t \in Open : Definition[t] = t /\ Arguments[t] = <<>>
  /\ \A t \in Types : Supers[t] \cap Open = {}
  /\ \A t \in Types : \A s \in Supers[Definition[t]] : \E r \in Supers[t] : Definition[r] = Definition[s]

VARIABLE registry (* _registry: a function from some types to types        *)

Behaviors == {"None", "Unmapped", "Override"}

(* ReflectionExtensions.InheritsFrom: of a generic base class, its         *)
(* definition counts, of a generic interface its definition, too.          *)
InheritsFrom(t, base) ==
  \/ base = t
  \/ base \in {Definition[s] : s \in Supers[t]} \cup Range(Interfaces[t])

(* The type constraint of Map, whose arguments are closed, and the checks  *)
(* of MapGeneric, which do not ask whether both types are definitions, or  *)
(* none of them.                                                           *)
CanMap(t, c) ==
  /\ c \notin Abstract
  /\ \/ {t, c} \cap Open = {} /\ t \in Supers[c] \cup {c}
     \/ InheritsFrom(c, t)

ASSUME DefaultsAssumption == \A i \in DOMAIN Defaults : CanMap(Defaults[i].from, Defaults[i].to)

(* open.MakeGenericType(t.GetTypeArguments()): NoType where it throws, for *)
(* no definition, for no arguments, and for arguments that the constraints *)
(* of the definition exclude.                                              *)
MakeGenericType(open, t) ==
  LET made == {c \in Types : Definition[c] = open /\ Arguments[c] = Arguments[t]}
  IN IF open \notin Open \/ Arguments[t] = <<>> \/ made = {} THEN NoType
     ELSE CHOOSE c \in made : TRUE

------------------------------------------------------------------------------
(* The types that _MapBaseTypes meets. Their order does not matter: all are*)
(* mapped to one type.                                                     *)
BaseTypes[t \in Types] == Direct(t) \cup UNION {BaseTypes[s] : s \in Direct(t)}

Put(r, ts, c) == [s \in DOMAIN r \cup ts |-> IF s \in ts THEN c ELSE r[s]]

(* As if only a base type that is mapped to the same were left alone.      *)
IsSetUnlessSame(r, base, c, overwrite) == overwrite \/ base \notin DOMAIN r \/ r[base] # c

(* Whether _MapBaseTypes sets a base type.                                 *)
IsSet(r, base, c, overwrite) == overwrite \/ base \notin DOMAIN r

MapTypes(r, t, c, behavior) ==
  LET overwrite == behavior = "Override"
      bases == IF behavior = "None" THEN {}
               ELSE {s \in BaseTypes[t] : IsSet(r, s, c, overwrite)}
  IN Put(r, {t} \cup bases, c)

(* AbstractionMap.Default, which a new serializer copies: after each of the*)
(* calls of its static constructor, and after all.                         *)
Defaulted[n \in 0 .. Len(Defaults)] ==
  IF n = 0 THEN <<>>
  ELSE MapTypes(Defaulted[n - 1], Defaults[n].from, Defaults[n].to, "Unmapped")

Default == Defaulted[Len(Defaults)]

Init == registry \in {Default, <<>>}

(* Map and MapGeneric.                                                     *)
Map(t, c, behavior) ==
  /\ CanMap(t, c)
  /\ registry' = MapTypes(registry, t, c, behavior)

RemoveMap(t, removeRelated) ==
  /\ t \in DOMAIN registry
  /\ LET kept(s) == s # t /\ (removeRelated => registry[s] # registry[t])
     IN registry' = Restrict(registry, {s \in DOMAIN registry : kept(s)})

(* What GetMap returns.                                                    *)
Mapped(t) ==
  CASE t \in DOMAIN registry -> registry[t]
    [] t \notin DOMAIN registry /\ Definition[t] \in DOMAIN registry ->
         MakeGenericType(registry[Definition[t]], t)
    [] OTHER -> t

(* As if every type were noted.                                            *)
GetMapOfAny(t) ==
  /\ t \notin DOMAIN registry
  /\ Definition[t] \notin DOMAIN registry
  /\ registry' = Put(registry, {t}, t)

(* GetMap, which every call does for the type requested and the type of    *)
(* the value: a concrete type that nothing is mapped for is noted as its   *)
(* own.                                                                    *)
GetMap(t) ==
  /\ t \notin DOMAIN registry
  /\ Definition[t] \notin DOMAIN registry
  /\ t \notin Abstract
  /\ registry' = Put(registry, {t}, t)

(* As if IdentifyTypeToResolve did not know of generic definitions.        *)
IdentifyDirectly(t) ==
  CASE t \in DOMAIN registry /\ registry[t] \notin Open -> registry[t]
    [] t \in DOMAIN registry /\ registry[t] \in Open -> MakeGenericType(registry[t], t)
    [] OTHER -> t

(* IdentifyTypeToResolve, for JSON without a $type: NoType if it throws.   *)
IdentifyTypeToResolve(t) ==
  LET known == {t, Definition[t]} \cap DOMAIN registry
      found == registry[IF t \in known THEN t ELSE Definition[t]]
  IN CASE known = {} -> t
       [] known # {} /\ found \in Open -> MakeGenericType(found, t)
       [] OTHER -> found

Next ==
  \/ \E pair \in Pairs, b \in Behaviors : Map(pair.from, pair.to, b)
  \/ \E t \in Requested, related \in BOOLEAN : RemoveMap(t, related)
  \/ \E t \in Requested : GetMap(t)

Spec == Init /\ [][Next]_registry

------------------------------------------------------------------------------
(* A definition, or a type with its parameters or arguments that one       *)
(* derives from: the keys that mapping a definition sets.                  *)
OfDefinition(t) == t \in Open \/ \E o \in Open : t \in Supers[o]

(* Every entry leads to a type that is not abstract, and that derives from *)
(* the key or, only where a definition is the key, the value or the reason *)
(* for the entry, from a type of the same definition as the key: as List<> *)
(* does, and List<int> when MapGeneric was given that, for IList<>.        *)
TypeOK ==
  \A t \in DOMAIN registry :
    LET c == registry[t]
    IN /\ t \in Types /\ c \in Types \ Abstract
       /\ \/ t \in Supers[c] \cup {c}
          \/ /\ c \in Open \/ OfDefinition(t)
             /\ \E s \in Supers[c] \cup {c} : Definition[s] = Definition[t]

OfAbstractions(r) == Restrict(r, DOMAIN r \cap Abstract)

Promised == INSTANCE TypeMap WITH
  Abstractions <- Abstract, Concretions <- Types \ Abstract,
  Initial <- {OfAbstractions(Default), <<>>}, mapped <- OfAbstractions(registry)

CallsCorrespond ==
  /\ \A pair \in Pairs, b \in Behaviors :
       Map(pair.from, pair.to, b) => Promised!Map(pair.from, pair.to, b)
  /\ \A t \in Requested : RemoveMap(t, TRUE) => Promised!RemoveRelated(registry[t])
  /\ \A t \in Requested : RemoveMap(t, FALSE) =>
       IF t \in Abstract THEN Promised!RemoveMap(t) ELSE UNCHANGED OfAbstractions(registry)
  /\ \A t \in Requested : GetMap(t) => UNCHANGED OfAbstractions(registry)

(* What stands for an abstraction is decided by the program's calls, with  *)
(* the bases that None, Unmapped and Override name, and never by a look-up *)
(* before or in between: AbstractionMap.cs:119 only notes concrete types.  *)
ImplementsTypeMap == Promised!Spec /\ [][CallsCorrespond]_registry

(* MapGeneric was given a type that is no definition for that of t.        *)
MappedToNoDefinition(t) ==
  /\ t \notin DOMAIN registry
  /\ Definition[t] \in DOMAIN registry
  /\ registry[Definition[t]] \notin Open

(* SerializerFactory asks GetMap and AutoSerializer, for the same type,    *)
(* IdentifyTypeToResolve: they give the same type. There are two exceptions*)
(* in which one of them throws: the second, where GetMap gives a generic   *)
(* definition for a type without arguments, and GetMap, where a definition *)
(* is mapped to a type that is none: the second gives that.                *)
LookupsAgree ==
  \A t \in Requested :
    LET map == Mapped(t)
        identified == IdentifyTypeToResolve(t)
    IN IF map \in Open THEN identified = NoType
       ELSE IF MappedToNoDefinition(t)
       THEN map = NoType /\ identified = registry[Definition[t]]
       ELSE identified = map

(* No generic definition derives from a type with arguments of its own that*)
(* is requested, as that of class Some<T> : IList<int> does: mapped to it, *)
(* IList<int> is Some<> for GetMap and Some<int> for IdentifyTypeToResolve.*)
OpenBases == \A o \in Open : \A t \in Supers[o] \cap Requested : Arguments[t] = <<>>
==============================================================================
