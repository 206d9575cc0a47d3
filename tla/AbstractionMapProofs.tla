------------------------ MODULE AbstractionMapProofs ------------------------
(***************************************************************************)
(* AbstractionMap for all types and all mappings: that every entry leads to*)
(* a type that can stand for its key, that the two look-ups agree, and that*)
(* it keeps the promise of TypeMap.                                        *)
(***************************************************************************)
EXTENDS AbstractionMap, CommonLemmas, FiniteSetTheorems

(* The entries themselves, and what they have to do with generics: an entry*)
(* has a definition as its value only for a definition, and for a type that*)
(* one derives from.                                                       *)
Registries == UNION {[D -> Types \ Abstract] : D \in SUBSET Types}

StandsFor(c, t) ==
  \/ t \in Supers[c] \cup {c}
  \/ /\ c \in Open \/ OfDefinition(t)
     /\ \E s \in Supers[c] \cup {c} : Definition[s] = Definition[t]

Stands(r) == \A t \in DOMAIN r : StandsFor(r[t], t)

Generic(r) == \A t \in DOMAIN r : r[t] \in Open => OfDefinition(t)

Sound(r) == r \in Registries /\ Stands(r) /\ Generic(r)

IInv == Sound(registry)

------------------------------------------------------------------------------
(* The walk over base types meets the types a type derives from: a type    *)
(* has more of them than each of its bases, so that the walk ends.         *)
LEMMA DirectAreTypes ==
  ASSUME NEW t \in Types
  PROVE  /\ Direct(t) \subseteq Types
         /\ Supers[t] \subseteq Types
         /\ Direct(t) \subseteq Supers[t]
         /\ \A s \in Direct(t) : Supers[s] \subseteq Supers[t] /\ s \notin Supers[s]
<1>1. \A s \in Range(Interfaces[t]) : s \in Types
  <2>1. Interfaces[t] \in Seq(Types)
    BY TypesAssumption
  <2> QED
    BY <2>1, ElementOfSeq DEF Range
<1>2. Base[t] \in Types \cup {NoType} /\ Supers[t] \subseteq Types
  BY TypesAssumption
<1>3. Direct(t) \subseteq Types
  BY <1>1, <1>2 DEF Direct
<1>4. Supers[t] = Direct(t) \cup UNION {Supers[s] : s \in Direct(t)}
  BY SupersAssumption
<1> QED
  BY <1>2, <1>3, <1>4, SupersAssumption, Zenon

LEMMA SupersFinite ==
  ASSUME NEW t \in Types
  PROVE  /\ IsFiniteSet(Supers[t]) /\ Cardinality(Supers[t]) \in Nat
         /\ \A s \in Direct(t) : Cardinality(Supers[s]) < Cardinality(Supers[t])
<1>1. IsFiniteSet(Types)
  BY TypesAssumption
<1>2. \A s \in Types : IsFiniteSet(Supers[s]) /\ Cardinality(Supers[s]) \in Nat
  <2> TAKE s \in Types
  <2>1. Supers[s] \in SUBSET Types
    BY DirectAreTypes
  <2> QED
    BY <1>1, <2>1, FS_Subset, FS_CardinalityType, Zenon
<1>3. ASSUME NEW s \in Direct(t)
      PROVE  Cardinality(Supers[s]) < Cardinality(Supers[t])
  <2>1. s \in Types /\ s \in Supers[t] /\ s \notin Supers[s] /\ Supers[s] \in SUBSET Supers[t]
    BY DirectAreTypes
  <2>2. /\ Cardinality(Supers[s]) <= Cardinality(Supers[t])
        /\ Cardinality(Supers[t]) = Cardinality(Supers[s]) => Supers[t] = Supers[s]
    BY <1>2, <2>1, FS_Subset, Zenon
  <2>3. Cardinality(Supers[t]) # Cardinality(Supers[s])
    BY <2>1, <2>2
  <2> QED
    BY <1>2, <2>1, <2>2, <2>3
<1> QED
  BY <1>2, <1>3

LEMMA BaseTypesAreSupers ==
  ASSUME NEW t \in Types
  PROVE  BaseTypes[t] = Supers[t]
<1> DEFINE Walk(f) == [u \in Types |-> Direct(u) \cup UNION {f[s] : s \in Direct(u)}]
<1>1. Supers = Walk(Supers)
  <2>1. Supers = [u \in Types |-> Supers[u]]
    BY TypesAssumption
  <2>2. \A u \in Types : Supers[u] = Direct(u) \cup UNION {Supers[s] : s \in Direct(u)}
    BY SupersAssumption
  <2> QED
    BY <2>1, <2>2, Zenon
<1>2. BaseTypes = CHOOSE f : f = Walk(f)
  BY Zenon DEF BaseTypes
<1>3. BaseTypes = Walk(BaseTypes)
  <2> HIDE DEF Walk
  <2> QED
    BY <1>1, <1>2, Zenon
<1>4. \A u \in Types : BaseTypes[u] = Direct(u) \cup UNION {BaseTypes[s] : s \in Direct(u)}
  BY <1>3, Zenon
<1> DEFINE Bad == {u \in Types : BaseTypes[u] # Supers[u]}
           Sizes == {Cardinality(Supers[u]) : u \in Bad}
<1>5. SUFFICES ASSUME Bad # {} PROVE FALSE
  OBVIOUS
<1>6. Sizes \in SUBSET Nat /\ Sizes # {}
  BY <1>5, SupersFinite
<1>7. PICK n \in Sizes : \A m \in Sizes : n <= m
  <2> HIDE DEF Sizes
  <2> QED
    BY <1>6, LeastNumber
<1>8. PICK u \in Bad : n = Cardinality(Supers[u])
  BY <1>7
<1>9. ASSUME NEW s \in Direct(u)
      PROVE  BaseTypes[s] = Supers[s]
  <2>1. s \in Types /\ Cardinality(Supers[s]) < n /\ n \in Nat /\ Cardinality(Supers[s]) \in Nat
    BY <1>8, SupersFinite, DirectAreTypes
  <2>2. s \notin Bad
    <3>1. Cardinality(Supers[s]) \notin Sizes
      <4> HIDE DEF Sizes
      <4> QED
        BY <1>7, <2>1
    <3> QED
      BY <3>1
  <2> QED
    BY <2>1, <2>2
<1>10. UNION {BaseTypes[s] : s \in Direct(u)} = UNION {Supers[s] : s \in Direct(u)}
  BY <1>9, Zenon
<1>11. BaseTypes[u] = Supers[u]
  <2>1. u \in Types
    BY <1>8
  <2>2. BaseTypes[u] = Direct(u) \cup UNION {Supers[s] : s \in Direct(u)}
    BY <1>4, <1>10, <2>1, Zenon
  <2> QED
    BY <2>1, <2>2, SupersAssumption, Zenon
<1> QED
  BY <1>8, <1>11

------------------------------------------------------------------------------
(* Which types a call of Map sets.                                         *)
Set(r, t, behavior) ==
  {t} \cup IF behavior = "None" THEN {}
           ELSE {s \in Supers[t] : behavior = "Override" \/ s \notin DOMAIN r}

LEMMA MapSets ==
  ASSUME NEW r, NEW t \in Types, NEW c, NEW b \in Behaviors
  PROVE  /\ MapTypes(r, t, c, b) = Put(r, Set(r, t, b), c)
         /\ Set(r, t, b) \subseteq {t} \cup Supers[t]
         /\ Set(r, t, b) \subseteq Types
<1>1. BaseTypes[t] = Supers[t] /\ Supers[t] \subseteq Types
  BY BaseTypesAreSupers, DirectAreTypes
<1> QED
  BY <1>1 DEF MapTypes, Set, IsSet

(* What a type may be mapped to stands for the types it derives from, too. *)
LEMMA CanMapStands ==
  ASSUME NEW t \in Types, NEW c \in Types, CanMap(t, c), NEW s \in {t} \cup Supers[t]
  PROVE  /\ s \in Types /\ StandsFor(c, s)
         /\ c \in Open => OfDefinition(s)
<1>1. PICK a \in Supers[c] \cup {c} : t \in {a, Definition[a]}
  <2>1. CASE t \in Supers[c] \cup {c}
    BY <2>1
  <2>2. CASE InheritsFrom(c, t)
    <3>1. CASE c = t
      BY <3>1
    <3>2. CASE t \in {Definition[a] : a \in Supers[c]}
      BY <3>2
    <3>3. CASE t \in Range(Interfaces[c])
      <4>1. NoType \notin Types
        BY TypesAssumption
      <4>2. t \in Direct(c)
        BY <3>3, <4>1 DEF Direct
      <4>3. t \in Supers[c]
        BY <4>2, DirectAreTypes
      <4> QED
        BY <4>3
    <3> QED
      BY <2>2, <3>1, <3>2, <3>3 DEF InheritsFrom
  <2> QED
    BY <2>1, <2>2 DEF CanMap
<1>2. Supers[t] \subseteq Types /\ Supers[c] \subseteq Types
  BY DirectAreTypes
<1>3. a \in Types /\ s \in Types
  BY <1>1, <1>2
<1>4. CASE s \in Supers[c] \cup {c}
  <2>1. c \in Open => OfDefinition(s)
    BY <1>4 DEF OfDefinition
  <2> QED
    BY <1>3, <1>4, <2>1 DEF StandsFor
<1>5. CASE t = a
  <2>1. s \in Supers[c] \cup {c}
    BY <1>1, <1>5, SupersAssumption
  <2> QED
    BY <1>4, <2>1
<1>6. CASE t = Definition[a] /\ t # a
  <2>1. t \in Open /\ Definition[t] = t
    BY <1>3, <1>6, GenericsAssumption
  <2>2. OfDefinition(s)
    BY <2>1 DEF OfDefinition
  <2>3. \E d \in Supers[c] \cup {c} : Definition[d] = Definition[s]
    <3>1. CASE s = t
      BY <1>1, <1>6, <2>1, <3>1
    <3>2. CASE s \in Supers[t]
      <4>1. PICK d \in Supers[a] : Definition[d] = Definition[s]
        BY <1>3, <1>6, <3>2, GenericsAssumption
      <4>2. d \in Supers[c] \cup {c}
        BY <1>1, <4>1, SupersAssumption
      <4> QED
        BY <4>1, <4>2
    <3> QED
      BY <3>1, <3>2
  <2> QED
    BY <1>3, <2>2, <2>3 DEF StandsFor
<1> QED
  BY <1>1, <1>5, <1>6

LEMMA MapKeepsSound ==
  ASSUME NEW r, Sound(r), NEW t \in Types, NEW c \in Types, CanMap(t, c), NEW b \in Behaviors
  PROVE  Sound(MapTypes(r, t, c, b))
<1> DEFINE q == MapTypes(r, t, c, b)
           set == Set(r, t, b)
<1>1. /\ q = Put(r, set, c)
      /\ set \subseteq {t} \cup Supers[t]
      /\ set \subseteq Types
  BY MapSets
<1>2. \A s \in set : StandsFor(c, s) /\ (c \in Open => OfDefinition(s))
  BY <1>1, CanMapStands
<1>3. c \in Types \ Abstract
  BY DEF CanMap
<1> HIDE DEF q, set
<1>4. DOMAIN r \subseteq Types /\ \A s \in DOMAIN r : r[s] \in Types \ Abstract
  BY DEF Sound, Registries
<1>5. DOMAIN q = DOMAIN r \cup set /\ \A s \in DOMAIN q : q[s] = IF s \in set THEN c ELSE r[s]
  BY <1>1 DEF Put
<1>6. q \in Registries
  <2>1. DOMAIN r \cup set \in SUBSET Types
    BY <1>1, <1>4
  <2>2. q \in [DOMAIN r \cup set -> Types \ Abstract]
    BY <1>1, <1>3, <1>4 DEF Put
  <2> QED
    BY <2>1, <2>2 DEF Registries
<1>7. Stands(q)
  BY <1>2, <1>5 DEF Sound, Stands
<1>8. Generic(q)
  BY <1>2, <1>5 DEF Sound, Generic
<1> QED
  BY <1>6, <1>7, <1>8 DEF Sound, q

LEMMA EmptyIsSound == Sound(<<>>)
<1>1. DOMAIN <<>> = {}
  BY EmptySeq
<1>2. <<>> \in [{} -> Types \ Abstract]
  OBVIOUS
<1>3. <<>> \in Registries
  BY <1>2 DEF Registries
<1> QED
  BY <1>1, <1>3 DEF Sound, Stands, Generic

(* The default map is made by calls of MapGeneric.                         *)
LEMMA DefaultIsSound == Sound(Default)
<1> DEFINE N == Len(Defaults)
           S == {r \in Registries : Sound(r)}
           Mapping(n, r) == MapTypes(r, Defaults[n].from, Defaults[n].to, "Unmapped")
           step == [n \in 1 .. N |-> [r \in S |-> Mapping(n, r)]]
<1>1. N \in Nat /\ \A n \in 1 .. N : Defaults[n] \in Pair /\ n \in DOMAIN Defaults
  BY TypesAssumption, ElementOfSeq, LenProperties
<1>2. ASSUME NEW n \in 1 .. N, NEW r \in S
      PROVE  Mapping(n, r) \in S
  <2>1. Defaults[n].from \in Types /\ Defaults[n].to \in Types
    BY <1>1 DEF Pair
  <2>2. CanMap(Defaults[n].from, Defaults[n].to)
    BY <1>1, DefaultsAssumption
  <2>3. Sound(Mapping(n, r))
    BY <2>1, <2>2, MapKeepsSound DEF Behaviors
  <2> QED
    BY <2>3 DEF Sound
<1>3. step \in StepsOn(S, N)
  BY <1>2 DEF StepsOn
<1>4. <<>> \in S
  BY EmptyIsSound DEF Sound
<1>5. PICK f \in [0 .. N -> S] :
        f[0] = <<>> /\ \A n \in 1 .. N : f[n] = step[n][f[n - 1]]
  <2>1. \E f : IterationOf(f, step, <<>>, S, N)
    <3> HIDE DEF S, step, N
    <3> QED
      BY <1>1, <1>3, <1>4, Iterated, Zenon
  <2> QED
    BY <2>1 DEF IterationOf
<1> DEFINE Body(g) == [n \in 0 .. N |-> IF n = 0 THEN <<>> ELSE Mapping(n, g[n - 1])]
<1>6. f = Body(f)
  <2>1. ASSUME NEW n \in 1 .. N
        PROVE  f[n] = Mapping(n, f[n - 1])
    <3>1. n - 1 \in 0 .. N
      BY <1>1
    <3>2. f[n - 1] \in S
      <4> HIDE DEF S
      <4> QED
        BY <1>5, <3>1
    <3> QED
      BY <1>5, <3>2
  <2> HIDE DEF step, Mapping, S
  <2> QED
    BY <1>1, <1>5, <2>1
<1>7. Defaulted = CHOOSE g : g = Body(g)
  BY Zenon DEF Defaulted
<1>8. Defaulted = Body(Defaulted)
  <2> HIDE DEF Body
  <2> QED
    BY <1>6, <1>7, Zenon
<1> DEFINE Z == {n \in 0 .. N : Defaulted[n] \in S}
<1>9. 0 \in Z
  <2> HIDE DEF Mapping, S
  <2> QED
    BY <1>1, <1>4, <1>8
<1>10. ASSUME NEW n \in 1 .. N, n - 1 \in Z
       PROVE  n \in Z
  <2>1. Defaulted[n] = Mapping(n, Defaulted[n - 1])
    <3> HIDE DEF Mapping, S
    <3> QED
      BY <1>1, <1>8
  <2> QED
    BY <1>1, <1>2, <1>10, <2>1
<1>11. 0 .. N \subseteq Z
  <2> HIDE DEF Z, N
  <2> QED
    BY <1>1, <1>9, <1>10, Upwards
<1>12. N \in 0 .. N
  BY <1>1
<1>13. Defaulted[N] \in S
  BY <1>11, <1>12
<1> QED
  BY <1>13 DEF Default

------------------------------------------------------------------------------
LEMMA InitIsSound ==
  ASSUME Init
  PROVE  IInv
BY EmptyIsSound, DefaultIsSound DEF Init, IInv

LEMMA MapStep ==
  ASSUME IInv, NEW pair \in Pairs, NEW b \in Behaviors, Map(pair.from, pair.to, b)
  PROVE  IInv'
<1>1. pair.from \in Types /\ pair.to \in Types
  BY TypesAssumption DEF Pair
<1>2. Sound(MapTypes(registry, pair.from, pair.to, b))
  BY <1>1, MapKeepsSound DEF IInv, Map
<1> QED
  BY <1>2 DEF Map, IInv

(* A removal leaves the entries that it leaves as they are.                *)
LEMMA RestrictKeepsSound ==
  ASSUME NEW r, Sound(r), NEW D \in SUBSET DOMAIN r
  PROVE  Sound(Restrict(r, D))
<1>1. DOMAIN Restrict(r, D) = D /\ \A t \in D : Restrict(r, D)[t] = r[t]
  BY DEF Restrict
<1>2. DOMAIN r \subseteq Types /\ \A t \in DOMAIN r : r[t] \in Types \ Abstract
  BY DEF Sound, Registries
<1>3. Restrict(r, D) \in Registries
  <2>1. D \in SUBSET Types /\ Restrict(r, D) \in [D -> Types \ Abstract]
    BY <1>2 DEF Restrict
  <2> QED
    BY <2>1 DEF Registries
<1>4. Stands(Restrict(r, D)) /\ Generic(Restrict(r, D))
  BY <1>1 DEF Sound, Stands, Generic
<1> QED
  BY <1>3, <1>4 DEF Sound

LEMMA RemoveStep ==
  ASSUME IInv, NEW t \in Requested, NEW related \in BOOLEAN, RemoveMap(t, related)
  PROVE  IInv'
<1> DEFINE D == {s \in DOMAIN registry : s # t /\ (related => registry[s] # registry[t])}
<1>1. registry' = Restrict(registry, D)
  BY DEF RemoveMap
<1>2. D \in SUBSET DOMAIN registry
  OBVIOUS
<1> HIDE DEF D
<1>3. Sound(Restrict(registry, D))
  BY <1>2, RestrictKeepsSound DEF IInv
<1> QED
  BY <1>1, <1>3 DEF IInv

(* What a look-up notes is no definition, and stands for itself.           *)
LEMMA GetStep ==
  ASSUME IInv, NEW t \in Requested, GetMap(t)
  PROVE  IInv'
<1>1. t \in Types \ Abstract /\ t \notin Open
  BY TypesAssumption DEF GetMap
<1>2. /\ DOMAIN registry' = DOMAIN registry \cup {t}
      /\ \A s \in DOMAIN registry' : registry'[s] = IF s = t THEN t ELSE registry[s]
  BY DEF GetMap, Put
<1>3. DOMAIN registry \subseteq Types /\ \A s \in DOMAIN registry : registry[s] \in Types \ Abstract
  BY DEF IInv, Sound, Registries
<1>4. registry' \in Registries
  <2>1. registry' \in [DOMAIN registry \cup {t} -> Types \ Abstract]
    BY <1>1, <1>3 DEF GetMap, Put
  <2>2. DOMAIN registry \cup {t} \in SUBSET Types
    BY <1>1, <1>3
  <2> QED
    BY <2>1, <2>2 DEF Registries
<1>5. StandsFor(t, t)
  BY DEF StandsFor
<1>6. Stands(registry')
  BY <1>2, <1>5 DEF IInv, Sound, Stands
<1>7. Generic(registry')
  BY <1>1, <1>2 DEF IInv, Sound, Generic
<1> QED
  BY <1>4, <1>6, <1>7 DEF IInv, Sound

(* Every entry is sound, whatever the program maps, removes and looks up.  *)
THEOREM EntriesInvariant == Spec => []IInv
<1>1. IInv /\ [Next]_registry => IInv'
  <2> SUFFICES ASSUME IInv, [Next]_registry
               PROVE  IInv'
    OBVIOUS
  <2>1. CASE Next
    BY <2>1, MapStep, RemoveStep, GetStep DEF Next
  <2>2. CASE UNCHANGED registry
    BY <2>2 DEF IInv
  <2> QED
    BY <2>1, <2>2
<1> QED
  BY <1>1, InitIsSound, PTL DEF Spec

(* Every entry leads to a type that is not abstract and that derives from  *)
(* the key, or from a type of the key's definition: what AbstractionMap.Map*)
(* and MapGeneric check of one pair holds for all the bases that           *)
(* _MapBaseTypes sets.                                                     *)
THEOREM TypeCorrect == Spec => []TypeOK
<1>1. IInv => TypeOK
  <2> SUFFICES ASSUME IInv, NEW t \in DOMAIN registry
               PROVE  /\ t \in Types /\ registry[t] \in Types \ Abstract
                      /\ StandsFor(registry[t], t)
    BY Zenon DEF TypeOK, StandsFor
  <2>1. t \in Types /\ registry[t] \in Types \ Abstract
    BY DEF IInv, Sound, Registries
  <2>2. StandsFor(registry[t], t)
    BY DEF IInv, Sound, Stands
  <2> QED
    BY <2>1, <2>2
<1> QED
  BY <1>1, EntriesInvariant, PTL

------------------------------------------------------------------------------
LEMMA LookupsAgreeOnSound ==
  ASSUME IInv, OpenBases
  PROVE  LookupsAgree
<1> SUFFICES ASSUME NEW t \in Requested
             PROVE  /\ Mapped(t) \in Open => IdentifyTypeToResolve(t) = NoType
                    /\ Mapped(t) \notin Open /\ MappedToNoDefinition(t) =>
                         Mapped(t) = NoType /\ IdentifyTypeToResolve(t) = registry[Definition[t]]
                    /\ Mapped(t) \notin Open /\ ~ MappedToNoDefinition(t) =>
                         IdentifyTypeToResolve(t) = Mapped(t)
  BY Zenon DEF LookupsAgree
<1>1. t \in Types /\ t \notin Open /\ NoType \notin Open
  BY TypesAssumption
<1>2. CASE t \in DOMAIN registry
  <2>1. Mapped(t) = registry[t]
    BY <1>2 DEF Mapped
  <2>2. /\ registry[t] \in Open => IdentifyTypeToResolve(t) = MakeGenericType(registry[t], t)
        /\ registry[t] \notin Open => IdentifyTypeToResolve(t) = registry[t]
    BY <1>2 DEF IdentifyTypeToResolve
  <2>3. ASSUME registry[t] \in Open
        PROVE  MakeGenericType(registry[t], t) = NoType
    <3>1. PICK o \in Open : t \in Supers[o]
      BY <1>1, <1>2, <2>3 DEF IInv, Sound, Generic, OfDefinition
    <3>2. Arguments[t] = <<>>
      BY <3>1 DEF OpenBases
    <3> QED
      BY <3>2 DEF MakeGenericType
  <2>4. ~ MappedToNoDefinition(t)
    BY <1>2 DEF MappedToNoDefinition
  <2> QED
    BY <2>1, <2>2, <2>3, <2>4
<1>3. CASE t \notin DOMAIN registry /\ Definition[t] \in DOMAIN registry
  <2> DEFINE m == MakeGenericType(registry[Definition[t]], t)
  <2>1. Definition[t] # t /\ Definition[t] \in Open
    BY <1>1, <1>3, GenericsAssumption
  <2>2. Mapped(t) = m
    BY <1>3 DEF Mapped
  <2>3. MappedToNoDefinition(t) <=> registry[Definition[t]] \notin Open
    BY <1>3 DEF MappedToNoDefinition
  <2>4. IdentifyTypeToResolve(t) = IF registry[Definition[t]] \in Open THEN m
                                   ELSE registry[Definition[t]]
    BY <1>3, <2>1 DEF IdentifyTypeToResolve
  <2>5. m = NoType \/ m \notin Open
    <3>1. CASE Arguments[t] = <<>>
      BY <3>1 DEF MakeGenericType
    <3>2. CASE Arguments[t] # <<>>
      <4>1. m = NoType \/ Arguments[m] = Arguments[t]
        BY <3>2 DEF MakeGenericType
      <4> QED
        BY <3>2, <4>1, GenericsAssumption
    <3> QED
      BY <3>1, <3>2
  <2>6. registry[Definition[t]] \notin Open => m = NoType
    BY DEF MakeGenericType
  <2> HIDE DEF m
  <2> QED
    BY <1>1, <2>2, <2>3, <2>4, <2>5, <2>6
<1>4. CASE t \notin DOMAIN registry /\ Definition[t] \notin DOMAIN registry
  BY <1>1, <1>4 DEF Mapped, IdentifyTypeToResolve, MappedToNoDefinition
<1> QED
  BY <1>2, <1>3, <1>4

(* GetMap and IdentifyTypeToResolve, which look a type up in ways of their *)
(* own for one JSON value, give one type, or one of them throws, and only  *)
(* where LookupsAgree says so.                                             *)
THEOREM LookupsAlwaysAgree ==
  ASSUME OpenBases
  PROVE  Spec => []LookupsAgree
<1>1. IInv => LookupsAgree
  BY LookupsAgreeOnSound
<1> QED
  BY <1>1, EntriesInvariant, PTL

------------------------------------------------------------------------------
(* What the registry has for abstractions, after each action.              *)
LEMMA MapRefines ==
  ASSUME NEW t \in Types, NEW c, NEW b \in Behaviors, Map(t, c, b)
  PROVE  Promised!Map(t, c, b)
<1> DEFINE set == Set(registry, t, b)
           q == OfAbstractions(registry)
           promised == ({t} \cup Promised!Bases(t, b)) \cap Abstract
<1>1. registry' = Put(registry, set, c)
  BY MapSets DEF Map
<1>2. DOMAIN q = DOMAIN registry \cap Abstract /\ \A s \in DOMAIN q : q[s] = registry[s]
  BY DEF OfAbstractions, Restrict
<1>3. promised = set \cap Abstract
  BY <1>2 DEF Promised!Bases, Set, Behaviors
<1>4. OfAbstractions(registry)' =
        [s \in DOMAIN q \cup promised |-> IF s \in promised THEN c ELSE q[s]]
  <2> HIDE DEF set, promised, q
  <2>1. DOMAIN registry' \cap Abstract = DOMAIN q \cup promised
    BY <1>1, <1>2, <1>3 DEF Put
  <2>2. ASSUME NEW s \in DOMAIN q \cup promised
        PROVE  registry'[s] = IF s \in promised THEN c ELSE q[s]
    BY <1>1, <1>2, <1>3 DEF Put
  <2>3. OfAbstractions(registry)' = [s \in DOMAIN registry' \cap Abstract |-> registry'[s]]
    BY DEF OfAbstractions, Restrict
  <2> QED
    BY <2>1, <2>2, <2>3
<1> QED
  BY <1>4 DEF Promised!Map

LEMMA RemoveRefines ==
  ASSUME NEW t \in Requested, NEW related \in BOOLEAN, RemoveMap(t, related)
  PROVE  /\ related => Promised!RemoveRelated(registry[t])
         /\ ~ related /\ t \in Abstract => Promised!RemoveMap(t)
         /\ ~ related /\ t \notin Abstract => UNCHANGED OfAbstractions(registry)
<1> DEFINE q == OfAbstractions(registry)
           kept == {s \in DOMAIN registry : s # t /\ (related => registry[s] # registry[t])}
<1>1. q = [s \in DOMAIN registry \cap Abstract |-> registry[s]]
  BY DEF OfAbstractions, Restrict
<1>2. OfAbstractions(registry)' = [s \in kept \cap Abstract |-> registry[s]]
  <2>1. registry' = [s \in kept |-> registry[s]]
    BY DEF RemoveMap, Restrict
  <2>2. OfAbstractions(registry)' = [s \in DOMAIN registry' \cap Abstract |-> registry'[s]]
    BY DEF OfAbstractions, Restrict
  <2> HIDE DEF kept
  <2> QED
    BY <2>1, <2>2
<1>3. DOMAIN q = DOMAIN registry \cap Abstract /\ \A s \in DOMAIN q : q[s] = registry[s]
  BY <1>1
<1>4. t \in DOMAIN registry
  BY DEF RemoveMap
<1> HIDE DEF q
<1>5. ASSUME related
      PROVE  Promised!RemoveRelated(registry[t])
  <2>1. kept \cap Abstract = {a \in DOMAIN q : q[a] # registry[t]}
    BY <1>3, <1>4, <1>5
  <2>2. OfAbstractions(registry)' = [s \in {a \in DOMAIN q : q[a] # registry[t]} |-> q[s]]
    BY <1>2, <1>3, <2>1
  <2> QED
    BY <2>2 DEF Promised!RemoveRelated, q
<1>6. ASSUME ~ related, t \in Abstract
      PROVE  Promised!RemoveMap(t)
  <2>1. kept \cap Abstract = DOMAIN q \ {t} /\ t \in DOMAIN q
    BY <1>3, <1>4, <1>6
  <2>2. OfAbstractions(registry)' = [s \in DOMAIN q \ {t} |-> q[s]]
    BY <1>2, <1>3, <2>1
  <2> QED
    BY <2>1, <2>2 DEF Promised!RemoveMap, q
<1>7. ASSUME ~ related, t \notin Abstract
      PROVE  UNCHANGED OfAbstractions(registry)
  <2>1. kept \cap Abstract = DOMAIN registry \cap Abstract
    BY <1>7
  <2> QED
    BY <1>1, <1>2, <2>1 DEF q
<1> QED
  BY <1>5, <1>6, <1>7

LEMMA GetRefines ==
  ASSUME NEW t \in Requested, GetMap(t)
  PROVE  UNCHANGED OfAbstractions(registry)
<1>1. /\ OfAbstractions(registry) = [s \in DOMAIN registry \cap Abstract |-> registry[s]]
      /\ OfAbstractions(registry)' = [s \in DOMAIN registry' \cap Abstract |-> registry'[s]]
  BY DEF OfAbstractions, Restrict
<1>2. t \notin Abstract /\ registry' = Put(registry, {t}, t)
  BY DEF GetMap
<1>3. /\ DOMAIN registry' \cap Abstract = DOMAIN registry \cap Abstract
      /\ \A s \in DOMAIN registry \cap Abstract : registry'[s] = registry[s]
  BY <1>2 DEF Put
<1> QED
  BY <1>1, <1>3

(* The abstraction map is a TypeMap for abstract types: every mapping and  *)
(* every removal is the step of its name, and no look-up is a step.        *)
THEOREM KeepsPromise == Spec => ImplementsTypeMap
<1>1. Init => Promised!Init
  <2>1. ASSUME registry = <<>>
        PROVE  OfAbstractions(registry) = <<>>
    <3>1. DOMAIN registry = {}
      BY <2>1, EmptySeq
    <3>2. OfAbstractions(registry) = [s \in {} |-> registry[s]]
      BY <3>1 DEF OfAbstractions, Restrict
    <3> QED
      BY <3>2
  <2> QED
    BY <2>1 DEF Init, Promised!Init
<1>2. ASSUME [Next]_registry
      PROVE  [CallsCorrespond]_registry
  <2>1. CallsCorrespond
    <3>1. ASSUME NEW pair \in Pairs, NEW b \in Behaviors, Map(pair.from, pair.to, b)
          PROVE  Promised!Map(pair.from, pair.to, b)
      BY <3>1, MapRefines, TypesAssumption DEF Pair
    <3> QED
      BY <3>1, RemoveRefines, GetRefines DEF CallsCorrespond
  <2> QED
    BY <2>1
<1>3. ASSUME IInv, [Next]_registry
      PROVE  [Promised!Next]_(OfAbstractions(registry))
  <2>1. ASSUME NEW pair \in Pairs, NEW b \in Behaviors, Map(pair.from, pair.to, b)
        PROVE  Promised!Next
    <3>1. Promised!Map(pair.from, pair.to, b)
      BY <2>1, MapRefines, TypesAssumption DEF Pair
    <3> QED
      BY <3>1 DEF Promised!Next, Behaviors
  <2>2. ASSUME NEW t \in Requested, NEW related \in BOOLEAN, RemoveMap(t, related)
        PROVE  Promised!Next \/ UNCHANGED OfAbstractions(registry)
    <3>1. registry[t] \in Types \ Abstract
      BY <1>3, <2>2 DEF RemoveMap, IInv, Sound, Registries
    <3> QED
      BY <2>2, <3>1, RemoveRefines DEF Promised!Next
  <2>3. ASSUME NEW t \in Requested, GetMap(t)
        PROVE  UNCHANGED OfAbstractions(registry)
    BY <2>3, GetRefines
  <2>4. CASE UNCHANGED registry
    BY <2>4 DEF OfAbstractions
  <2> QED
    BY <1>3, <2>1, <2>2, <2>3, <2>4 DEF Next
<1> QED
  BY <1>1, <1>2, <1>3, EntriesInvariant, PTL DEF Spec, ImplementsTypeMap, Promised!Spec
==============================================================================
