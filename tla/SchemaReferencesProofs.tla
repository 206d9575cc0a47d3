------------------------ MODULE SchemaReferencesProofs ------------------------
(***************************************************************************)
(* What holds of the registry and of the references in any set of schemas, *)
(* with any number of threads: nothing is in use that was not given or     *)
(* downloaded, what is registered can be unregistered, an address stands   *)
(* for one schema as long as nobody unregisters any and no two of them     *)
(* claim it, and references are resolved to what they designate, if the    *)
(* documents are orderly, and found, unless calls overlap.                 *)
(***************************************************************************)
EXTENDS SchemaReferences, CommonLemmas

Stages == {"register", "marking", "registering", "keywords", "resolve"}

(* What is left to do of a schema is among its keywords.                   *)
Suits(f) ==
  /\ f.stage \in {"marking", "registering"} => f.todo # <<>>
  /\ f.left \subseteq {0} \cup DOMAIN Schema[f.schema].subschemas
  /\ 0 \in f.left => Ref(f.schema) # NULL

FramesOf(X) ==
  {f \in [schema : X, root : X, base : Addresses \cup {NULL}, instance : Instances \cup {{}},
          stage : Stages, todo : Seq(X), left : SUBSET Nat] : Suits(f)}

(* The schemas that the registries, the references and the calls hold are  *)
(* all in X.                                                               *)
InPlay(X) ==
  /\ lookup \in [DOMAIN lookup -> X]
  /\ \A t \in Threads : local[t] \in [DOMAIN local[t] -> X]
  /\ resolved \in [Schemas -> X \cup {NULL}]
  /\ resolvedRoot \in [Schemas -> X \cup {NULL}]
  /\ frames \in [Threads -> Seq(FramesOf(X))]

Typed ==
  /\ DOMAIN lookup \subseteq Addresses
  /\ fetched \in [Uris -> Nat]
  /\ \A u \in Uris : fetched[u] <= Len(Online[u])
  /\ documentPath \in [Schemas -> Addresses \cup {NULL}]
  /\ hasRegistered \in [Schemas -> BOOLEAN]
  /\ local \in [Threads -> {local[t] : t \in Threads}]
  /\ \A t \in Threads : DOMAIN local[t] \subseteq Addresses
  /\ outcome \in [Threads -> [root : Roots \cup {NULL}, how : {"none", "valid", "threw"}]]
  /\ removed \in BOOLEAN
  /\ InPlay(Schemas)

(* A set of schemas that holds the subschemas of each.                     *)
Closed(X) ==
  /\ X \subseteq Schemas
  /\ \A s \in X : \A i \in DOMAIN Schema[s].subschemas : Schema[s].subschemas[i].schema \in X

------------------------------------------------------------------------------
LEMMA SchemaTypes ==
  ASSUME NEW s \in Schemas
  PROVE  /\ Id(s) \in Addresses \cup {NULL}
         /\ Ref(s) \in Addresses \cup {NULL}
         /\ Schema[s].anchor \in STRING \cup {NULL}
         /\ Schema[s].subschemas \in Seq(Keyed)
BY SchemaShape DEF Id, Ref

LEMMA SchemasAreClosed == Closed(Schemas)
<1> SUFFICES ASSUME NEW s \in Schemas, NEW i \in DOMAIN Schema[s].subschemas
             PROVE Schema[s].subschemas[i].schema \in Schemas
  BY DEF Closed
<1>1. Schema[s].subschemas[i] \in Keyed
  BY SchemaTypes, LenProperties, ElementOfSeq
<1> QED
  BY <1>1 DEF Keyed

LEMMA SubschemasAreIn ==
  ASSUME NEW X, Closed(X), NEW s \in X
  PROVE  /\ Subschemas(s) \in Seq(X)
         /\ DOMAIN Subschemas(s) = DOMAIN Schema[s].subschemas
         /\ DOMAIN Schema[s].subschemas \subseteq Nat \ {0}
<1>1. s \in Schemas
  BY DEF Closed
<1>2. Schema[s].subschemas \in Seq(Keyed)
  BY <1>1, SchemaTypes
<1>3. PICK n \in Nat : DOMAIN Schema[s].subschemas = 1 .. n
  BY <1>2, LenProperties
<1>4. Subschemas(s) \in [1 .. n -> X]
  BY <1>3 DEF Subschemas, Closed
<1>5. Subschemas(s) \in Seq(X)
  BY <1>4
<1> QED
  BY <1>3, <1>4, <1>5

LEMMA AddressIsRecord ==
  ASSUME NEW a \in Addresses
  PROVE  /\ a.uri \in Uris \cup {NULL}
         /\ a.frag \in Seq(Parts)
         /\ a # NULL
         /\ a = [uri |-> a.uri, frag |-> a.frag]
BY NullIsNothing DEF Addresses

LEMMA AtIsAddress ==
  ASSUME NEW u \in Uris \cup {NULL}
  PROVE  /\ At(u) \in Addresses
         /\ At(u).uri = u
         /\ At(u).frag = <<>>
         /\ TrimEnd(At(u)) = At(u)
<1>1. <<>> # <<"#">> /\ <<>> \in Seq(Parts)
  OBVIOUS
<1> QED
  BY <1>1 DEF At, Addresses, TrimEnd

LEMMA TrimEndTyped ==
  ASSUME NEW a \in Addresses
  PROVE TrimEnd(a) \in Addresses /\ TrimEnd(a).uri = a.uri
BY AddressIsRecord, AtIsAddress DEF TrimEnd

LEMMA JoinTyped ==
  ASSUME NEW a \in Addresses, NEW b \in Addresses
  PROVE  /\ Join(b, a) \in Addresses
         /\ IsAbsolute(a) => Join(b, a) = a
         /\ ~ IsAbsolute(a) => Join(b, a).frag = a.frag
         /\ IsAbsolute(b) => IsAbsolute(Join(b, a))
BY DEF Join, Addresses, IsAbsolute

LEMMA PathTyped ==
  ASSUME Typed, NEW s \in Schemas
  PROVE  /\ DocumentPath(s) \in Addresses \cup {NULL}
         /\ PathRead(s) \in [Schemas -> Addresses \cup {NULL}]
         /\ \A x \in Schemas \ {s} : PathRead(s)[x] = documentPath[x]
         /\ PathRead(s)[s] = DocumentPath(s)
         /\ documentPath[s] # NULL => PathRead(s) = documentPath
BY SchemaTypes DEF Typed, DocumentPath, PathRead

------------------------------------------------------------------------------
(* The calls of a thread after each kind of step.                          *)
LEMMA TopTyped ==
  ASSUME NEW X, frames \in [Threads -> Seq(FramesOf(X))], NEW t \in Threads, ~ Idle(t)
  PROVE  /\ Top(t) \in FramesOf(X)
         /\ Len(frames[t]) \in Nat \ {0}
BY TopIsIn DEF Top, Idle

LEMMA FramesWithTop ==
  ASSUME NEW X, frames \in [Threads -> Seq(FramesOf(X))], NEW t \in Threads, ~ Idle(t),
         NEW f \in FramesOf(X), SetTop(t, f)
  PROVE frames' \in [Threads -> Seq(FramesOf(X))]
<1>1. Len(frames[t]) \in 1 .. Len(frames[t])
  BY TopTyped
<1>2. [frames[t] EXCEPT ![Len(frames[t])] = f] \in Seq(FramesOf(X))
  BY <1>1, ExceptSeq
<1> QED
  BY <1>2 DEF SetTop

LEMMA FramesWithCall ==
  ASSUME NEW X, frames \in [Threads -> Seq(FramesOf(X))], NEW t \in Threads, ~ Idle(t),
         NEW f \in FramesOf(X), NEW g \in FramesOf(X),
         frames' = [frames EXCEPT ![t] = Append(Front(@) \o <<f>>, g)]
  PROVE frames' \in [Threads -> Seq(FramesOf(X))]
<1>1. Front(frames[t]) \in Seq(FramesOf(X))
  BY Popped DEF Front, Idle
<1>2. Front(frames[t]) \o <<f>> \in Seq(FramesOf(X))
  BY <1>1, ConcatProperties
<1>3. Append(Front(frames[t]) \o <<f>>, g) \in Seq(FramesOf(X))
  BY <1>2, AppendProperties
<1> QED
  BY <1>3

LEMMA FramesReturned ==
  ASSUME NEW X, frames \in [Threads -> Seq(FramesOf(X))], NEW t \in Threads, ~ Idle(t),
         frames' = [frames EXCEPT ![t] = Front(@)]
  PROVE frames' \in [Threads -> Seq(FramesOf(X))]
<1>1. Front(frames[t]) \in Seq(FramesOf(X))
  BY Popped DEF Front, Idle
<1> QED
  BY <1>1

LEMMA FramesThrown ==
  ASSUME NEW X, frames \in [Threads -> Seq(FramesOf(X))], NEW t \in Threads,
         frames' = [frames EXCEPT ![t] = <<>>]
  PROVE frames' \in [Threads -> Seq(FramesOf(X))]
BY EmptySeq

LEMMA NewFrame ==
  ASSUME NEW X, NEW s \in X, NEW r \in X, NEW b \in Addresses \cup {NULL},
         NEW i \in Instances \cup {{}}
  PROVE Frame(s, r, b, i) \in FramesOf(X)
<1>1. <<s>> \in Seq(X)
  OBVIOUS
<1> QED
  BY <1>1 DEF Frame, FramesOf, Suits, Stages

------------------------------------------------------------------------------
(* The registries after each kind of step.                                 *)
LEMMA WithIn ==
  ASSUME NEW X, NEW f, f \in [DOMAIN f -> X], NEW x, NEW y \in X
  PROVE  /\ DOMAIN With(f, x, y) = DOMAIN f \cup {x}
         /\ With(f, x, y) \in [DOMAIN With(f, x, y) -> X]
         /\ With(f, x, y)[x] = y
         /\ \A k \in DOMAIN f \ {x} : With(f, x, y)[k] = f[k]
BY DEF With

LEMMA WithoutIn ==
  ASSUME NEW X, NEW f, f \in [DOMAIN f -> X], NEW x
  PROVE  /\ DOMAIN Without(f, x) \subseteq DOMAIN f
         /\ Without(f, x) \in [DOMAIN Without(f, x) -> X]
         /\ \A k \in DOMAIN Without(f, x) : Without(f, x)[k] = f[k]
BY DEF Without

LEMMA EmptyIn ==
  ASSUME NEW X
  PROVE DOMAIN Empty = {} /\ Empty \in [DOMAIN Empty -> X]
BY DEF Empty

LEMMA MetaSchemasAre ==
  MetaSchemas \subseteq Schemas /\ DOMAIN BuiltIn \subseteq Addresses
BY BuiltInShape, AtIsAddress DEF MetaSchemas

LEMMA BuiltInIn ==
  ASSUME NEW X, MetaSchemas \subseteq X
  PROVE BuiltIn \in [DOMAIN BuiltIn -> X]
BY BuiltInShape DEF MetaSchemas

LEMMA FoundIn ==
  ASSUME NEW X, NULL \notin X, NEW f, f \in [DOMAIN f -> X], NEW x
  PROVE  /\ Found(f, x) \in X \cup {NULL}
         /\ Found(f, x) # NULL <=> x \in DOMAIN f
         /\ Found(f, x) # NULL => Found(f, x) = f[x] /\ Found(f, x) \in X
BY DEF Found

LEMMA LocalNamesTyped ==
  ASSUME Typed, NEW s \in Schemas
  PROVE LocalNames(s) \subseteq Addresses
<1>1. Id(s) # NULL => Id(s) \in Addresses
  BY SchemaTypes
<1>2. ASSUME Schema[s].anchor # NULL PROVE AnchorUri(s) \in Addresses
  <2>1. <<"#", Schema[s].anchor>> \in Seq(Parts)
    <3>1. Schema[s].anchor \in Parts /\ "#" \in Parts
      BY <1>2, SchemaTypes DEF Parts
    <3>2. \A x, y \in Parts : <<x, y>> \in Seq(Parts)
      OBVIOUS
    <3> QED
      BY <3>1, <3>2, Zenon
  <2>2. CASE DocumentPath(s) = NULL
    BY <2>1, <2>2 DEF AnchorUri, Local, Addresses
  <2>3. CASE DocumentPath(s) # NULL
    <3>1. DocumentPath(s) \in Addresses
      BY <2>3, PathTyped
    <3>2. DocumentPath(s).frag \o <<"#", Schema[s].anchor>> \in Seq(Parts)
      BY <2>1, <3>1, AddressIsRecord, ConcatProperties
    <3> QED
      BY <2>3, <3>1, <3>2 DEF AnchorUri, Addresses
  <2> QED
    BY <2>2, <2>3
<1> QED
  BY <1>1, <1>2 DEF LocalNames

LEMMA LocalRegistered ==
  ASSUME Typed, NEW X, X \subseteq Schemas, NEW t \in Threads, NEW s \in X, RegisterLocal(t, s),
         \A u \in Threads : local[u] \in [DOMAIN local[u] -> X]
  PROVE  /\ local' \in [Threads -> {local'[u] : u \in Threads}]
         /\ \A u \in Threads : /\ local'[u] \in [DOMAIN local'[u] -> X]
                               /\ DOMAIN local'[u] \subseteq Addresses
<1> DEFINE new == [k \in DOMAIN local[t] \cup LocalNames(s) |->
                     IF k \in LocalNames(s) THEN s ELSE local[t][k]]
<1>1. DOMAIN local = Threads
  BY DEF Typed
<1>2. local' = [local EXCEPT ![t] = new]
  BY DEF RegisterLocal
<1>3. new \in [DOMAIN new -> X] /\ DOMAIN new \subseteq Addresses
  BY LocalNamesTyped DEF Typed
<1>4. DOMAIN local' = Threads /\ local'[t] = new /\ \A u \in Threads \ {t} : local'[u] = local[u]
  <2> HIDE DEF new
  <2> QED
    BY <1>1, <1>2
<1>5. local' = [u \in Threads |-> local'[u]]
  <2> HIDE DEF new
  <2> QED
    BY <1>1, <1>2
<1> HIDE DEF new
<1> QED
  BY <1>3, <1>4, <1>5 DEF Typed

LEMMA PathAfterLocalTyped ==
  ASSUME Typed, NEW s \in Schemas
  PROVE  /\ PathAfterLocal(s) \in [Schemas -> Addresses \cup {NULL}]
         /\ \A x \in Schemas \ {s} : PathAfterLocal(s)[x] = documentPath[x]
         /\ PathAfterLocal(s)[s] \in {documentPath[s], DocumentPath(s)}
         /\ documentPath[s] # NULL => PathAfterLocal(s) = documentPath
BY PathTyped DEF PathAfterLocal, Typed

(* What is downloaded is a new schema.                                     *)
NewIsIn(X) ==
  \A u \in Uris : Downloads(u) /\ fetched'[u] # fetched[u] => Online[u][fetched[u] + 1] \in X

LEMMA DownloadTyped ==
  ASSUME Typed, NEW u \in Uris, Downloads(u)
  PROVE  /\ fetched[u] \in Nat
         /\ fetched[u] + 1 \in 1 .. Len(Online[u])
         /\ fetched[u] + 1 \in DOMAIN Online[u]
         /\ Online[u] \in Seq(Schemas)
         /\ Got(u) = Online[u][fetched[u] + 1]
         /\ Got(u) \in Schemas
         /\ Registered(At(u)) = NULL
         /\ At(u) \notin DOMAIN lookup
<1>1. Online[u] \in Seq(Schemas) /\ fetched[u] \in Nat /\ fetched[u] < Len(Online[u])
  BY DocumentShape DEF Typed, Downloads
<1>2. fetched[u] + 1 \in 1 .. Len(Online[u])
  BY <1>1, LenProperties
<1>3. Online[u][fetched[u] + 1] \in Schemas /\ fetched[u] + 1 \in DOMAIN Online[u]
  BY <1>1, <1>2, ElementOfSeq, LenProperties
<1>4. Registered(At(u)) = NULL
  BY DEF Downloads
<1>5. At(u) \notin DOMAIN lookup
  BY <1>4, FoundIn, AtIsAddress, NullIsNothing DEF Registered, Typed, InPlay
<1> QED
  BY <1>1, <1>2, <1>3, <1>4, <1>5 DEF Got

LEMMA GotIn ==
  ASSUME Typed, NEW X, Closed(X), lookup \in [DOMAIN lookup -> X], NEW u \in Uris, Get(u),
         NewIsIn(X)
  PROVE  /\ Got(u) \in X \cup {NULL}
         /\ lookup' \in [DOMAIN lookup' -> X]
         /\ DOMAIN lookup' \subseteq Addresses
         /\ fetched' \in [Uris -> Nat]
         /\ \A v \in Uris : fetched'[v] <= Len(Online[v])
         /\ documentPath' \in [Schemas -> Addresses \cup {NULL}]
<1>0. NULL \notin X
  BY NullIsNothing DEF Closed
<1>1. CASE Downloads(u)
  <2>1. /\ fetched' = [fetched EXCEPT ![u] = @ + 1]
        /\ documentPath' = [documentPath EXCEPT ![Got(u)] = At(u)]
        /\ lookup' = With(lookup, At(u), Got(u))
    BY <1>1 DEF Get
  <2>2. fetched'[u] = fetched[u] + 1 /\ fetched'[u] # fetched[u]
    BY <1>1, <2>1, DownloadTyped DEF Typed
  <2>3. Got(u) \in X
    BY <1>1, <2>2, DownloadTyped DEF NewIsIn
  <2>4. fetched' \in [Uris -> Nat] /\ \A v \in Uris : fetched'[v] <= Len(Online[v])
    BY <1>1, <2>1, <2>2, DownloadTyped DEF Typed
  <2>5. documentPath' \in [Schemas -> Addresses \cup {NULL}]
    BY <2>1, AtIsAddress DEF Typed
  <2>6. lookup' \in [DOMAIN lookup' -> X] /\ DOMAIN lookup' \subseteq Addresses
    <3>1. /\ DOMAIN With(lookup, At(u), Got(u)) = DOMAIN lookup \cup {At(u)}
          /\ With(lookup, At(u), Got(u)) \in [DOMAIN With(lookup, At(u), Got(u)) -> X]
      BY <2>3 DEF With
    <3> QED
      BY <2>1, <3>1, AtIsAddress, Zenon DEF Typed
  <2> QED
    BY <2>3, <2>4, <2>5, <2>6
<1>2. CASE ~ Downloads(u)
  <2>1. UNCHANGED <<lookup, fetched, documentPath>>
    BY <1>2 DEF Get
  <2>2. Got(u) \in X \cup {NULL}
    BY <1>0, <1>2, FoundIn DEF Got, Registered
  <2> QED
    BY <2>1, <2>2 DEF Typed
<1> QED
  BY <1>1, <1>2

------------------------------------------------------------------------------
(* Every action keeps what is in play within a closed set, if what it      *)
(* starts from and what it downloads are in the set.                       *)
LEMMA CallKeepsPlay ==
  ASSUME Typed, NEW X, Closed(X), Roots \subseteq X, MetaSchemas \subseteq X, InPlay(X),
         NewIsIn(X), NEW t \in Threads, Call(t)
  PROVE InPlay(X)'
<1>1. ASSUME NEW s \in Roots, NEW i \in Instances, Validate(t, s, i)
      PROVE InPlay(X)'
  <2>1. Frame(s, s, NULL, i) \in FramesOf(X)
    BY NewFrame
  <2>2. <<Frame(s, s, NULL, i)>> \in Seq(FramesOf(X))
    BY <2>1
  <2>3. frames' \in [Threads -> Seq(FramesOf(X))]
    BY <1>1, <2>2 DEF Validate, InPlay
  <2>4. \A u \in Threads : local'[u] \in [DOMAIN local'[u] -> X]
    BY <1>1, EmptyIn DEF Validate, InPlay, Typed
  <2> QED
    BY <1>1, <2>3, <2>4 DEF Validate, InPlay, schemaVars
<1>2. ASSUME NEW s \in Roots, Register(t, s)
      PROVE InPlay(X)'
  <2>1. lookup' \in [DOMAIN lookup' -> X]
    BY <1>2 DEF Register, InPlay, With
  <2> QED
    BY <1>2, <2>1 DEF Register, InPlay
<1>3. ASSUME NEW s \in Roots, Unregister(t, s)
      PROVE InPlay(X)'
  <2>1. lookup' \in [DOMAIN lookup' -> X]
    BY <1>3 DEF Unregister, InPlay, Without
  <2> QED
    BY <1>3, <2>1 DEF Unregister, InPlay
<1>4. ASSUME NEW u \in Uris, UnregisterAt(t, u)
      PROVE InPlay(X)'
  <2>1. lookup' \in [DOMAIN lookup' -> X]
    BY <1>4 DEF UnregisterAt, InPlay, Without
  <2> QED
    BY <1>4, <2>1 DEF UnregisterAt, InPlay, schemaVars
<1>5. ASSUME NEW u \in Uris, Fetch(t, u)
      PROVE InPlay(X)'
  <2>1. lookup' \in [DOMAIN lookup' -> X]
    BY <1>5, GotIn DEF Fetch, InPlay
  <2> QED
    BY <1>5, <2>1 DEF Fetch, InPlay
<1>6. CASE Clear(t)
  BY <1>6, BuiltInIn DEF Clear, InPlay, schemaVars
<1> QED
  BY <1>1, <1>2, <1>3, <1>4, <1>5, <1>6 DEF Call

LEMMA WalkKeepsPlay ==
  ASSUME Typed, NEW X, Closed(X), InPlay(X), NEW t \in Threads,
         Pass(t) \/ Mark(t) \/ RegisterSubschemas(t)
  PROVE InPlay(X)'
<1> DEFINE f == Top(t)
<1>1. ~ Idle(t) /\ frames \in [Threads -> Seq(FramesOf(X))]
  BY DEF Pass, Mark, RegisterSubschemas, InPlay
<1>2. f \in FramesOf(X)
  BY <1>1, TopTyped
<1>3. f.todo # <<>> /\ Head(f.todo) \in X /\ Tail(f.todo) \in Seq(X)
  <2>1. f.todo # <<>>
    BY <1>2 DEF Pass, Mark, RegisterSubschemas, FramesOf, Suits
  <2>2. f.todo \in Seq(X)
    BY <1>2 DEF FramesOf
  <2> QED
    BY <2>1, <2>2, HeadTailProperties
<1>4. CASE Pass(t)
  <2>1. [f EXCEPT !.todo = Tail(@)] \in FramesOf(X) \/ f.stage # "register"
    BY <1>2, <1>3 DEF FramesOf, Suits, Stages
  <2>2. [f EXCEPT !.stage = "marking"] \in FramesOf(X)
    BY <1>2, <1>3 DEF FramesOf, Suits, Stages
  <2>3. frames' \in [Threads -> Seq(FramesOf(X))]
    <3> HIDE DEF f
    <3>1. CASE hasRegistered[Head(f.todo)]
      <4>1. SetTop(t, [f EXCEPT !.todo = Tail(@)]) /\ f.stage = "register"
        BY <1>4, <3>1 DEF Pass, f
      <4> QED
        BY <1>1, <2>1, <4>1, FramesWithTop
    <3>2. CASE ~ hasRegistered[Head(f.todo)]
      <4>1. SetTop(t, [f EXCEPT !.stage = "marking"])
        BY <1>4, <3>2 DEF Pass, f
      <4> QED
        BY <1>1, <2>2, <4>1, FramesWithTop
    <3> QED
      BY <3>1, <3>2
  <2> QED
    BY <1>4, <2>3 DEF Pass, InPlay, schemaVars
<1>5. CASE Mark(t)
  <2>1. [f EXCEPT !.stage = "registering"] \in FramesOf(X)
    BY <1>2, <1>3 DEF FramesOf, Suits, Stages
  <2>2. SetTop(t, [f EXCEPT !.stage = "registering"])
    BY <1>5 DEF Mark
  <2>3. frames' \in [Threads -> Seq(FramesOf(X))]
    BY <1>1, <2>1, <2>2, FramesWithTop
  <2> QED
    BY <1>5, <2>3 DEF Mark, InPlay
<1>6. CASE RegisterSubschemas(t)
  <2> DEFINE s == Head(f.todo)
             address == Address(f, s)
             b == IF Registers(f, s) THEN address ELSE f.base
             g == [f EXCEPT !.stage = "register", !.base = b,
                            !.todo = Subschemas(s) \o Tail(@)]
  <2>1. SetTop(t, g)
    BY <1>6 DEF RegisterSubschemas
  <2>2. s \in Schemas /\ f.base \in Addresses \cup {NULL}
    BY <1>2, <1>3 DEF Closed, FramesOf
  <2>3. address \in Addresses \cup {NULL}
    BY <2>2, SchemaTypes, JoinTyped DEF Address
  <2>4. Subschemas(s) \o Tail(f.todo) \in Seq(X)
    BY <1>3, SubschemasAreIn, ConcatProperties
  <2>5. g \in FramesOf(X)
    <3>1. b \in Addresses \cup {NULL}
      BY <2>2, <2>3
    <3> HIDE DEF b
    <3> QED
      BY <1>2, <2>4, <3>1 DEF FramesOf, Suits, Stages
  <2>6. frames' \in [Threads -> Seq(FramesOf(X))]
    <3> HIDE DEF g
    <3> QED
      BY <1>1, <2>1, <2>5, FramesWithTop
  <2>7. lookup' \in [DOMAIN lookup' -> X]
    <3>1. lookup' = IF Registers(f, s) THEN With(lookup, address, s) ELSE lookup
      BY <1>6 DEF RegisterSubschemas
    <3> HIDE DEF address, f, s
    <3> QED
      BY <1>3, <3>1 DEF With, InPlay, s
  <2>8. \A u \in Threads : local'[u] \in [DOMAIN local'[u] -> X]
    BY <1>3, <1>6, LocalRegistered DEF RegisterSubschemas, Closed, InPlay
  <2> QED
    BY <1>6, <2>6, <2>7, <2>8 DEF RegisterSubschemas, InPlay
<1> QED
  BY <1>4, <1>5, <1>6

LEMMA KeywordsTyped ==
  ASSUME NEW f \in FramesOf(Schemas)
  PROVE  /\ Keywords(f) \subseteq {0} \cup DOMAIN Schema[f.schema].subschemas
         /\ 0 \in Keywords(f) => Ref(f.schema) # NULL
         /\ Keywords(f) \subseteq Nat
<1>1. f.schema \in Schemas
  BY DEF FramesOf
<1>2. DOMAIN Schema[f.schema].subschemas \subseteq Nat \ {0}
  BY <1>1, SchemasAreClosed, SubschemasAreIn
<1> QED
  BY <1>2 DEF Keywords

LEMMA BaseUriTyped ==
  ASSUME Typed, NEW f \in FramesOf(Schemas)
  PROVE BaseUri(f) \in Addresses \cup {NULL}
<1> DEFINE path == DocumentPath(f.schema)
           base == IF ~ SetsBase(f) \/ path = NULL THEN f.base
                   ELSE IF f.base = NULL THEN path ELSE Join(f.base, path)
<1>1. path \in Addresses \cup {NULL} /\ f.base \in Addresses \cup {NULL}
  BY PathTyped DEF FramesOf
<1>2. base \in Addresses \cup {NULL}
  BY <1>1, JoinTyped
<1>3. BaseUri(f) = IF base = NULL THEN NULL ELSE TrimEnd(base)
  BY DEF BaseUri
<1> HIDE DEF base
<1> QED
  BY <1>2, <1>3, TrimEndTyped

LEMMA FramesAreOfSchemas ==
  ASSUME NEW X, Closed(X), NEW f \in FramesOf(X)
  PROVE  /\ f \in FramesOf(Schemas)
         /\ f.schema \in X /\ f.root \in X /\ f.schema \in Schemas /\ f.root \in Schemas
         /\ f.base \in Addresses \cup {NULL}
<1>1. f.todo \in Seq(Schemas)
  <2>1. f.todo \in Seq(X) /\ X \subseteq Schemas
    BY DEF FramesOf, Closed
  <2> QED
    BY <2>1, SeqMonotonic
<1> QED
  BY <1>1 DEF FramesOf, Closed

LEMMA KeywordsKeepPlay ==
  ASSUME Typed, NEW X, Closed(X), InPlay(X), NEW t \in Threads,
         Begin(t) \/ PropertiesKeyword(t) \/ RefKeyword(t) \/ Return(t)
  PROVE InPlay(X)'
<1> DEFINE f == Top(t)
<1>1. ~ Idle(t) /\ frames \in [Threads -> Seq(FramesOf(X))]
  BY DEF Begin, PropertiesKeyword, RefKeyword, Return, InPlay
<1>2. f \in FramesOf(X)
  BY <1>1, TopTyped
<1>3. f \in FramesOf(Schemas) /\ f.schema \in X /\ f.root \in X
  BY <1>2, FramesAreOfSchemas
<1>4. CASE Begin(t)
  <2> DEFINE g == [f EXCEPT !.stage = "keywords", !.base = BaseUri(f), !.left = Keywords(f)]
  <2>1. SetTop(t, g) \/ Throw(t)
    BY <1>4 DEF Begin
  <2>2. g \in FramesOf(X)
    <3>1. BaseUri(f) \in Addresses \cup {NULL}
      BY <1>3, BaseUriTyped
    <3>2. /\ Keywords(f) \subseteq {0} \cup DOMAIN Schema[f.schema].subschemas
          /\ 0 \in Keywords(f) => Ref(f.schema) # NULL
          /\ Keywords(f) \in SUBSET Nat
      BY <1>3, KeywordsTyped
    <3> HIDE DEF f
    <3> QED
      BY <1>2, <3>1, <3>2 DEF FramesOf, Suits, Stages
  <2>3. frames' \in [Threads -> Seq(FramesOf(X))]
    <3>1. CASE SetTop(t, g)
      <4> HIDE DEF g
      <4> QED
        BY <1>1, <2>2, <3>1, FramesWithTop
    <3>2. CASE Throw(t)
      BY <1>1, <3>2, FramesThrown DEF Throw
    <3> QED
      BY <2>1, <3>1, <3>2
  <2>4. \A u \in Threads : local'[u] \in [DOMAIN local'[u] -> X]
    BY <1>3, <1>4, LocalRegistered DEF Begin, Closed, InPlay
  <2> QED
    BY <1>4, <2>3, <2>4 DEF Begin, InPlay
<1>5. CASE PropertiesKeyword(t)
  <2> DEFINE i == Min(f.left)
             g == [f EXCEPT !.left = @ \ {i}]
             h == Frame(Subschemas(f.schema)[i], f.root, f.base, {})
  <2>1. frames' = [frames EXCEPT ![t] = Append(Front(@) \o <<g>>, h)]
    BY <1>5 DEF PropertiesKeyword
  <2>2. g \in FramesOf(X)
    <3> HIDE DEF i
    <3> QED
      BY <1>2 DEF FramesOf, Suits
  <2>3. i \in f.left
    <3>1. f.left \in SUBSET Nat
      BY <1>2 DEF FramesOf
    <3> QED
      BY <1>5, <3>1, MinIsLeast DEF PropertiesKeyword
  <2>4. i \in DOMAIN Subschemas(f.schema)
    <3>1. f.left \subseteq {0} \cup DOMAIN Schema[f.schema].subschemas /\ 0 \notin f.left
      BY <1>2, <1>5 DEF FramesOf, Suits, PropertiesKeyword
    <3>2. DOMAIN Subschemas(f.schema) = DOMAIN Schema[f.schema].subschemas
      BY <1>3, SubschemasAreIn
    <3> HIDE DEF i, f
    <3> QED
      BY <2>3, <3>1, <3>2
  <2>5. Subschemas(f.schema)[i] \in X
    <3>1. Subschemas(f.schema) \in Seq(X)
      BY <1>3, SubschemasAreIn
    <3> HIDE DEF i, f
    <3> QED
      BY <2>4, <3>1, ElementOfSeq, LenProperties
  <2>6. h \in FramesOf(X)
    <3>1. f.base \in Addresses \cup {NULL}
      BY <1>2 DEF FramesOf
    <3> HIDE DEF i, f
    <3> QED
      BY <1>3, <2>5, <3>1, NewFrame
  <2>7. frames' \in [Threads -> Seq(FramesOf(X))]
    <3> HIDE DEF g, h
    <3> QED
      BY <1>1, <2>1, <2>2, <2>6, FramesWithCall
  <2> QED
    BY <1>5, <2>7 DEF PropertiesKeyword, InPlay, schemaVars
<1>6. CASE RefKeyword(t)
  <2> DEFINE root == resolvedRoot[f.schema]
             target == resolved[f.schema]
             from == IF root = NULL THEN f.root ELSE root
             g == [f EXCEPT !.left = @ \ {0}]
             h == Frame(target, from, RefBase(f), f.instance)
  <2>1. frames' = [frames EXCEPT ![t] = Append(Front(@) \o <<g>>, h)] /\ target # NULL
    BY <1>6 DEF RefKeyword
  <2>2. g \in FramesOf(X)
    BY <1>2 DEF FramesOf, Suits
  <2>3. f.schema \in Schemas
    BY <1>3 DEF Closed
  <2>4. target \in X /\ root \in X \cup {NULL} /\ from \in X
    BY <1>3, <2>1, <2>3 DEF InPlay
  <2>5. RefBase(f) \in Addresses \cup {NULL}
    BY <2>4, PathTyped DEF RefBase, Closed
  <2>6. f.instance \in Instances \cup {{}}
    BY <1>2 DEF FramesOf
  <2>7. h \in FramesOf(X)
    <3> HIDE DEF target, from, f
    <3> QED
      BY <2>4, <2>5, <2>6, NewFrame
  <2>8. frames' \in [Threads -> Seq(FramesOf(X))]
    <3> HIDE DEF g, h
    <3> QED
      BY <1>1, <2>1, <2>2, <2>7, FramesWithCall
  <2> QED
    BY <1>6, <2>8 DEF RefKeyword, InPlay
<1>7. CASE Return(t)
  <2>1. frames' \in [Threads -> Seq(FramesOf(X))]
    BY <1>1, <1>7, FramesReturned DEF Return
  <2> QED
    BY <1>7, <2>1 DEF Return, InPlay, schemaVars
<1> QED
  BY <1>4, <1>5, <1>6, <1>7

(* A reference is looked up at an address.                                 *)
LEMMA RootAddress ==
  ASSUME Typed, NEW f \in FramesOf(Schemas), 0 \in f.left
  PROVE  /\ Ref(f.schema) \in Addresses
         /\ LET address == IF Ref(f.schema).uri # NULL \/ f.base = NULL THEN Ref(f.schema).uri
                           ELSE f.base.uri
            IN address \in Uris \cup {NULL}
<1>1. f.schema \in Schemas /\ f.base \in Addresses \cup {NULL} /\ Ref(f.schema) # NULL
  BY DEF FramesOf, Suits
<1>2. Ref(f.schema) \in Addresses
  BY <1>1, SchemaTypes
<1> QED
  BY <1>1, <1>2, AddressIsRecord

LEMMA ResolveRootKeepsPlay ==
  ASSUME Typed, NEW X, Closed(X), InPlay(X), NewIsIn(X), NEW t \in Threads, ResolveRoot(t)
  PROVE InPlay(X)'
<1> DEFINE f == Top(t)
           s == f.schema
           known == IF IsLocalSchemaId(Ref(s)) THEN Found(local[t], TrimEnd(Ref(s))) ELSE NULL
           address == IF Ref(s).uri # NULL \/ f.base = NULL THEN Ref(s).uri ELSE f.base.uri
           g == [f EXCEPT !.stage = "resolve"]
<1>1. ~ Idle(t) /\ frames \in [Threads -> Seq(FramesOf(X))]
  BY DEF ResolveRoot, InPlay
<1>2. f \in FramesOf(X)
  BY <1>1, TopTyped
<1>3. f \in FramesOf(Schemas) /\ f.schema \in X /\ f.root \in X /\ s \in Schemas
  BY <1>2, FramesAreOfSchemas
<1>4. 0 \in f.left
  BY DEF ResolveRoot
<1>5. address \in Uris \cup {NULL}
  BY <1>3, <1>4, RootAddress
<1>6. g \in FramesOf(X)
  BY <1>2 DEF FramesOf, Suits, Stages
<1>7. NULL \notin X
  BY NullIsNothing DEF Closed
<1>8. known \in X \cup {NULL}
  <2>1. local[t] \in [DOMAIN local[t] -> X]
    BY DEF InPlay
  <2> QED
    BY <1>7, <2>1, FoundIn
<1>9. UNCHANGED local
  BY DEF ResolveRoot
<1>10. CASE /\ known # NULL
            /\ resolved' = [resolved EXCEPT ![s] = known]
            /\ UNCHANGED <<lookup, fetched, documentPath, resolvedRoot, frames>>
  <2> HIDE DEF known, f, s
  <2>1. resolved' \in [Schemas -> X \cup {NULL}]
    BY <1>3, <1>8, <1>10 DEF InPlay
  <2> QED
    BY <1>9, <1>10, <2>1 DEF InPlay
<1>11. CASE /\ known = NULL /\ address # NULL
            /\ Get(address)
            /\ resolvedRoot' = [resolvedRoot EXCEPT ![s] = Got(address)]
            /\ SetTop(t, g)
            /\ UNCHANGED resolved
  <2> HIDE DEF known, address, f, s, g
  <2>1. Got(address) \in X \cup {NULL} /\ lookup' \in [DOMAIN lookup' -> X]
    BY <1>5, <1>11, GotIn DEF InPlay
  <2>2. resolvedRoot' \in [Schemas -> X \cup {NULL}]
    BY <1>3, <1>11, <2>1 DEF InPlay
  <2>3. frames' \in [Threads -> Seq(FramesOf(X))]
    BY <1>1, <1>6, <1>11, FramesWithTop
  <2> QED
    BY <1>9, <1>11, <2>1, <2>2, <2>3 DEF InPlay
<1>12. CASE /\ known = NULL /\ address = NULL
            /\ resolvedRoot' = [resolvedRoot EXCEPT ![s] = f.root]
            /\ SetTop(t, g)
            /\ UNCHANGED <<lookup, fetched, documentPath, resolved>>
  <2> HIDE DEF known, address, f, s, g
  <2>1. resolvedRoot' \in [Schemas -> X \cup {NULL}]
    BY <1>3, <1>12 DEF InPlay
  <2>2. frames' \in [Threads -> Seq(FramesOf(X))]
    BY <1>1, <1>6, <1>12, FramesWithTop
  <2> QED
    BY <1>9, <1>12, <2>1, <2>2 DEF InPlay
<1> QED
  BY <1>10, <1>11, <1>12 DEF ResolveRoot

LEMMA SubschemaIn ==
  ASSUME NEW X, Closed(X), NEW r \in X, NEW ref
  PROVE  /\ ResolveSubschema(r, ref) \in X \cup {NULL}
         /\ ResolveSubschema(r, ref) # NULL =>
              \E i \in DOMAIN Schema[r].subschemas :
                ResolveSubschema(r, ref) = Schema[r].subschemas[i].schema
BY DEF ResolveSubschema, Closed

LEMMA ResolveTargetKeepsPlay ==
  ASSUME Typed, NEW X, Closed(X), InPlay(X), NEW t \in Threads, ResolveTarget(t)
  PROVE InPlay(X)'
<1> DEFINE f == Top(t)
           s == f.schema
           root == resolvedRoot[s]
           wellKnown == Registered(Ref(s))
           sub == ResolveSubschema(root, Ref(s))
           g == [f EXCEPT !.stage = "keywords"]
<1>1. ~ Idle(t) /\ frames \in [Threads -> Seq(FramesOf(X))]
  BY DEF ResolveTarget, InPlay
<1>2. f \in FramesOf(X)
  BY <1>1, TopTyped
<1>3. f.schema \in X /\ s \in Schemas
  BY <1>2, FramesAreOfSchemas
<1>4. g \in FramesOf(X)
  BY <1>2 DEF FramesOf, Suits, Stages
<1>5. NULL \notin X
  BY NullIsNothing DEF Closed
<1>6. wellKnown \in X \cup {NULL}
  BY <1>5, FoundIn DEF InPlay, Registered
<1>7. root \in X \cup {NULL}
  BY <1>3 DEF InPlay
<1>8. root # NULL => sub \in X \cup {NULL}
  BY <1>7, SubschemaIn
<1>9. UNCHANGED <<lookup, resolvedRoot, local>>
  BY DEF ResolveTarget
<1>10. Continue(t) \/ Throw(t)
  BY DEF ResolveTarget, NoRoot
<1>11. frames' \in [Threads -> Seq(FramesOf(X))]
  <2>1. Continue(t) => SetTop(t, g)
    BY DEF Continue
  <2>2. CASE Continue(t)
    <3> HIDE DEF g
    <3> QED
      BY <1>1, <1>4, <2>1, <2>2, FramesWithTop
  <2>3. CASE Throw(t)
    BY <1>1, <2>3, FramesThrown DEF Throw
  <2> QED
    BY <1>10, <2>2, <2>3
<1>12. resolved' \in [Schemas -> X \cup {NULL}]
  <2>1. \/ resolved' = resolved
        \/ \E r \in X \cup {NULL} : resolved' = [resolved EXCEPT ![s] = r]
    BY <1>6, <1>7, <1>8 DEF ResolveTarget
  <2> HIDE DEF s
  <2> QED
    BY <1>3, <2>1 DEF InPlay
<1> QED
  BY <1>9, <1>11, <1>12 DEF InPlay

(* The general fact about what is in play. It is used of all schemas, for  *)
(* their types, of those that are not to be downloaded still, and of those *)
(* that can be loaded without removals.                                    *)
LEMMA StepKeepsPlay ==
  ASSUME Typed, NEW X, Closed(X), Roots \subseteq X, MetaSchemas \subseteq X, InPlay(X),
         NewIsIn(X), [Next]_vars
  PROVE InPlay(X)'
<1>1. CASE UNCHANGED vars
  BY <1>1 DEF vars, schemaVars, InPlay
<1>2. ASSUME NEW t \in Threads, Call(t) \/ Proceed(t)
      PROVE InPlay(X)'
  BY <1>2, CallKeepsPlay, WalkKeepsPlay, KeywordsKeepPlay, ResolveRootKeepsPlay,
     ResolveTargetKeepsPlay DEF Proceed
<1> QED
  BY <1>1, <1>2 DEF Next

------------------------------------------------------------------------------
(* What a step does to the registry and to the paths: nothing is           *)
(* registered, and paths are read, or given to parts of documents that     *)
(* have none of their own; schemas are removed, and meta-schemas may be put*)
(* back; a root is registered; a document is downloaded; or a schema       *)
(* registers itself.                                                       *)
PathsRead ==
  /\ documentPath' \in [Schemas -> Addresses \cup {NULL}]
  /\ \A s \in Schemas : documentPath'[s] # documentPath[s] =>
       \/ documentPath[s] = NULL /\ documentPath'[s] = Id(s)
       \/ /\ s \notin Documented
          /\ documentPath[s] = NULL \/ ~ IsAbsolute(documentPath[s])

Reads == UNCHANGED <<lookup, fetched, removed>> /\ PathsRead

Removes ==
  /\ removed' = TRUE /\ UNCHANGED fetched /\ PathsRead
  /\ \A a \in DOMAIN lookup' : \/ a \in DOMAIN lookup /\ lookup'[a] = lookup[a]
                               \/ a \in DOMAIN BuiltIn /\ lookup'[a] = BuiltIn[a]

RegistersRoot(s) ==
  /\ UNCHANGED <<fetched, removed>>
  /\ DocumentPath(s) # NULL /\ documentPath' = PathRead(s)
  /\ lookup' = With(lookup, DocumentPath(s), s)

Loads(u) == Downloads(u) /\ Get(u) /\ UNCHANGED removed

RegistersItself(s, a) ==
  /\ UNCHANGED <<fetched, removed>>
  /\ documentPath[s] = NULL /\ documentPath' = [documentPath EXCEPT ![s] = a]
  /\ Id(s) # NULL
  /\ IsAbsolute(a) /\ (a = Id(s) \/ (~ IsAbsolute(Id(s)) /\ a.frag # <<>>))
  /\ lookup' = With(lookup, a, s)

Happens ==
  \/ Reads
  \/ Removes
  \/ \E s \in Roots : RegistersRoot(s)
  \/ \E u \in Uris : Loads(u)
  \/ \E s \in Schemas : \E a \in Addresses : RegistersItself(s, a)

LEMMA ReadIsRead ==
  ASSUME Typed, NEW s \in Schemas,
         documentPath' \in {documentPath, PathRead(s), PathAfterLocal(s)}
  PROVE PathsRead
<1>1. documentPath \in [Schemas -> Addresses \cup {NULL}]
  BY DEF Typed
<1>2. documentPath' \in {documentPath, PathRead(s)}
  BY DEF PathAfterLocal
<1>3. /\ PathRead(s) \in [Schemas -> Addresses \cup {NULL}]
      /\ \A x \in Schemas \ {s} : PathRead(s)[x] = documentPath[x]
      /\ PathRead(s)[s] = DocumentPath(s)
  BY PathTyped
<1>4. DocumentPath(s) # documentPath[s] => documentPath[s] = NULL /\ DocumentPath(s) = Id(s)
  BY DEF DocumentPath
<1> QED
  BY <1>1, <1>2, <1>3, <1>4 DEF PathsRead

LEMMA SameIsRead ==
  ASSUME Typed, UNCHANGED documentPath
  PROVE PathsRead
BY DEF Typed, PathsRead

LEMMA GetHappens ==
  ASSUME Typed, NEW u \in Uris, Get(u), UNCHANGED removed
  PROVE Happens
<1>1. CASE Downloads(u)
  BY <1>1 DEF Loads, Happens
<1>2. CASE ~ Downloads(u)
  <2>1. UNCHANGED <<lookup, fetched, documentPath, removed>>
    BY <1>2 DEF Get
  <2> QED
    BY <2>1, SameIsRead DEF Reads, Happens
<1> QED
  BY <1>1, <1>2

LEMMA CallHappens ==
  ASSUME Typed, NEW t \in Threads, Call(t)
  PROVE Happens
<1>0. /\ lookup \in [DOMAIN lookup -> Schemas]
      /\ Roots \subseteq Schemas
  BY DocumentShape DEF Typed, InPlay
<1>1. ASSUME NEW s \in Roots, NEW i \in Instances, Validate(t, s, i)
      PROVE Happens
  BY <1>1, SameIsRead DEF Validate, schemaVars, Reads, Happens
<1>2. ASSUME NEW s \in Roots, Register(t, s)
      PROVE Happens
  <2>1. documentPath' = PathRead(s) /\ UNCHANGED <<fetched, removed>>
    BY <1>2 DEF Register
  <2>2. CASE DocumentPath(s) = NULL
    <3>1. UNCHANGED lookup
      BY <1>2, <2>2 DEF Register
    <3> QED
      BY <1>0, <2>1, <3>1, ReadIsRead DEF Reads, Happens
  <2>3. CASE DocumentPath(s) # NULL
    <3>1. lookup' = With(lookup, DocumentPath(s), s)
      BY <1>2, <2>3 DEF Register
    <3> QED
      BY <2>1, <2>3, <3>1 DEF RegistersRoot, Happens
  <2> QED
    BY <2>2, <2>3
<1>3. ASSUME NEW s \in Roots, Unregister(t, s)
      PROVE Happens
  <2>1. PathsRead
    BY <1>0, <1>3, ReadIsRead DEF Unregister
  <2> QED
    BY <1>3, <2>1 DEF Unregister, Without, Removes, Happens
<1>4. ASSUME NEW u \in Uris, UnregisterAt(t, u)
      PROVE Happens
  <2>1. PathsRead
    BY <1>4, SameIsRead DEF UnregisterAt, schemaVars
  <2> QED
    BY <1>4, <2>1 DEF UnregisterAt, Without, Removes, Happens
<1>5. ASSUME NEW u \in Uris, Fetch(t, u)
      PROVE Happens
  BY <1>5, GetHappens DEF Fetch
<1>6. CASE Clear(t)
  <2>1. PathsRead
    BY <1>6, SameIsRead DEF Clear, schemaVars
  <2> QED
    BY <1>6, <2>1 DEF Clear, Removes, Happens
<1> QED
  BY <1>1, <1>2, <1>3, <1>4, <1>5, <1>6 DEF Call

LEMMA RegisterHappens ==
  ASSUME Typed, NEW t \in Threads, RegisterSubschemas(t)
  PROVE Happens
<1> DEFINE f == Top(t)
           s == Head(f.todo)
           a == Address(f, s)
<1>1. ~ Idle(t) /\ f.stage = "registering"
  BY DEF RegisterSubschemas
<1>2. f \in FramesOf(Schemas)
  BY <1>1, TopTyped DEF Typed, InPlay
<1>3. s \in Schemas /\ f.base \in Addresses \cup {NULL}
  BY <1>1, <1>2, HeadTailProperties DEF FramesOf, Suits
<1>4. CASE Registers(f, s)
  <2>1. /\ documentPath' = [PathAfterLocal(s) EXCEPT ![s] = a]
        /\ lookup' = With(lookup, a, s)
        /\ UNCHANGED <<fetched, removed>>
    BY <1>4 DEF RegisterSubschemas
  <2>2. PathAfterLocal(s)[s] = NULL /\ a # NULL /\ IsAbsolute(a)
    BY <1>4 DEF Registers
  <2>3. Id(s) \in Addresses
    BY <1>3, <2>2, SchemaTypes DEF Address
  <2>4. documentPath[s] = NULL
    BY <1>3, <2>2, PathAfterLocalTyped
  <2>5. DocumentPath(s) # NULL
    BY <2>3, <2>4, NullIsNothing DEF DocumentPath
  <2>6. PathAfterLocal(s) = documentPath
    BY <1>3, <2>2, <2>5, PathTyped DEF PathAfterLocal
  <2>7. a \in Addresses /\ (a = Id(s) \/ (~ IsAbsolute(Id(s)) /\ a.frag # <<>>))
    <3>1. CASE f.base = NULL \/ IsAbsolute(Id(s))
      <4>1. a = Id(s)
        <5>1. f.base # NULL => Join(f.base, Id(s)) = Id(s)
          BY <1>3, <2>3, <3>1, JoinTyped
        <5> QED
          BY <3>1, <5>1 DEF Address
      <4> QED
        BY <2>3, <4>1
    <3>2. CASE f.base # NULL /\ ~ IsAbsolute(Id(s))
      <4>1. a = Join(f.base, Id(s)) /\ Id(s) # NULL
        BY <2>3, <3>2, NullIsNothing DEF Address
      <4>2. a \in Addresses /\ a.frag = Id(s).frag
        BY <1>3, <2>3, <3>2, <4>1, JoinTyped
      <4>3. Id(s).frag # <<>>
        BY <1>3, <3>2, <4>1, FragmentIds DEF Id, IsAbsolute
      <4> QED
        BY <3>2, <4>2, <4>3
    <3> QED
      BY <3>1, <3>2
  <2>8. RegistersItself(s, a)
    BY <2>1, <2>2, <2>3, <2>4, <2>6, <2>7, NullIsNothing DEF RegistersItself
  <2> QED
    BY <1>3, <2>7, <2>8 DEF Happens
<1>5. CASE ~ Registers(f, s)
  <2>1. documentPath' = PathAfterLocal(s) /\ UNCHANGED <<lookup, fetched, removed>>
    BY <1>5 DEF RegisterSubschemas
  <2> QED
    BY <1>3, <2>1, ReadIsRead DEF Reads, Happens
<1> QED
  BY <1>4, <1>5

LEMMA TargetHappens ==
  ASSUME Typed, NEW t \in Threads, ResolveTarget(t)
  PROVE Happens
<1> DEFINE f == Top(t)
           s == f.schema
           root == resolvedRoot[s]
           sub == ResolveSubschema(root, Ref(s))
           base == BaseOf(root, f.base)
           path == DocumentPath(sub)
           given == IF path = NULL THEN base ELSE Join(base, path)
<1>1. UNCHANGED <<lookup, fetched, removed>>
  BY DEF ResolveTarget
<1>2. f \in FramesOf(Schemas)
  BY TopTyped DEF ResolveTarget, Typed, InPlay
<1>3. s \in Schemas /\ f.base \in Addresses \cup {NULL} /\ root \in Schemas \cup {NULL}
  BY <1>2 DEF FramesOf, Typed, InPlay
<1>4. \/ UNCHANGED documentPath
      \/ root # NULL /\ documentPath' = PathRead(root)
      \/ /\ root # NULL /\ sub # NULL
         /\ path = NULL \/ (base # NULL /\ IsAbsolute(base))
         /\ documentPath' = [PathRead(root) EXCEPT ![sub] = given]
      \/ /\ root # NULL /\ sub # NULL
         /\ documentPath' = [PathRead(root) EXCEPT ![sub] = path]
  BY DEF ResolveTarget
<1>5. CASE UNCHANGED documentPath
  BY <1>1, <1>5, SameIsRead DEF Reads, Happens
<1>6. CASE root # NULL /\ documentPath' = PathRead(root)
  BY <1>1, <1>3, <1>6, ReadIsRead DEF Reads, Happens
<1>7. CASE /\ root # NULL /\ sub # NULL
           /\ \/ documentPath' = [PathRead(root) EXCEPT ![sub] = path]
              \/ /\ path = NULL \/ (base # NULL /\ IsAbsolute(base))
                 /\ documentPath' = [PathRead(root) EXCEPT ![sub] = given]
  <2>1. sub \in Schemas /\ sub \notin Documented
    <3>1. root \in Schemas
      BY <1>3, <1>7
    <3>2. PICK i \in DOMAIN Schema[root].subschemas : sub = Schema[root].subschemas[i].schema
      BY <1>7, <3>1, SchemasAreClosed, SubschemaIn
    <3> QED
      BY <3>1, <3>2, SchemasAreClosed, WholeDocuments DEF Closed, Documented
  <2>2. path \in Addresses \cup {NULL}
    BY <2>1, PathTyped
  <2>3. base \in Addresses \cup {NULL}
    BY <1>3, <1>7, SchemaTypes, PathTyped DEF BaseOf
  <2>4. PICK p \in Addresses \cup {NULL} :
          /\ documentPath' = [PathRead(root) EXCEPT ![sub] = p]
          /\ p # path => path = NULL \/ ~ IsAbsolute(path)
    <3>1. CASE documentPath' = [PathRead(root) EXCEPT ![sub] = path]
      BY <2>2, <3>1
    <3>2. CASE /\ path = NULL \/ (base # NULL /\ IsAbsolute(base))
               /\ documentPath' = [PathRead(root) EXCEPT ![sub] = given]
      <4>1. given \in Addresses \cup {NULL}
        BY <2>2, <2>3, <3>2, JoinTyped
      <4>2. path # NULL /\ IsAbsolute(path) => given = path
        BY <2>2, <2>3, <3>2, JoinTyped
      <4> QED
        BY <3>2, <4>1, <4>2
    <3> QED
      BY <1>7, <3>1, <3>2
  <2>5. documentPath[sub] # NULL => path = documentPath[sub]
    BY DEF DocumentPath
  <2>6. /\ PathRead(root) \in [Schemas -> Addresses \cup {NULL}]
        /\ \A x \in Schemas \ {root} : PathRead(root)[x] = documentPath[x]
        /\ PathRead(root)[root] = DocumentPath(root)
    BY <1>3, <1>7, PathTyped
  <2>7. DocumentPath(root) # documentPath[root] =>
          documentPath[root] = NULL /\ DocumentPath(root) = Id(root)
    BY DEF DocumentPath
  <2> HIDE DEF f, s, root, sub, base, path, given
  <2>8. documentPath' \in [Schemas -> Addresses \cup {NULL}]
    BY <2>1, <2>4, <2>6
  <2>9. /\ documentPath'[sub] = p
        /\ \A x \in Schemas \ {sub} : documentPath'[x] = PathRead(root)[x]
    BY <2>1, <2>4, <2>6
  <2>10. PathsRead
    <3> SUFFICES ASSUME NEW x \in Schemas, documentPath'[x] # documentPath[x]
                 PROVE \/ documentPath[x] = NULL /\ documentPath'[x] = Id(x)
                       \/ /\ x \notin Documented
                          /\ documentPath[x] = NULL \/ ~ IsAbsolute(documentPath[x])
      BY <2>8 DEF PathsRead
    <3>1. CASE x = sub
      BY <2>1, <2>4, <2>5, <2>9, <3>1
    <3>2. CASE x # sub
      BY <2>6, <2>7, <2>9, <3>2
    <3> QED
      BY <3>1, <3>2
  <2> QED
    BY <1>1, <2>10 DEF Reads, Happens
<1> QED
  BY <1>4, <1>5, <1>6, <1>7

LEMMA StepHappens ==
  ASSUME Typed, [Next]_vars
  PROVE Happens
<1>1. CASE UNCHANGED vars
  BY <1>1, SameIsRead DEF vars, schemaVars, Reads, Happens
<1>2. ASSUME NEW t \in Threads, Proceed(t)
      PROVE Happens
  <2> DEFINE f == Top(t)
  <2>1. CASE Pass(t) \/ Mark(t) \/ PropertiesKeyword(t) \/ Return(t)
    BY <2>1, SameIsRead DEF Pass, Mark, PropertiesKeyword, Return, schemaVars, Reads, Happens
  <2>2. CASE Begin(t)
    <3>1. f.schema \in Schemas
      BY <2>2, TopTyped DEF Begin, Typed, InPlay, FramesOf
    <3>2. documentPath' \in {PathRead(f.schema), PathAfterLocal(f.schema)}
      BY <2>2 DEF Begin
    <3> QED
      BY <2>2, <3>1, <3>2, ReadIsRead DEF Begin, Reads, Happens
  <2>3. CASE RefKeyword(t)
    <3>1. f.schema \in Schemas
      BY <2>3, TopTyped DEF RefKeyword, Typed, InPlay, FramesOf
    <3>2. resolvedRoot[f.schema] \in Schemas \cup {NULL}
      BY <3>1 DEF Typed, InPlay
    <3>3. documentPath' = IF resolvedRoot[f.schema] = NULL THEN documentPath
                          ELSE PathRead(resolvedRoot[f.schema])
      BY <2>3 DEF RefKeyword
    <3>4. PathsRead
      BY <3>2, <3>3, ReadIsRead, SameIsRead
    <3> QED
      BY <2>3, <3>4 DEF RefKeyword, Reads, Happens
  <2>4. CASE ResolveRoot(t)
    <3> DEFINE address == IF Ref(f.schema).uri # NULL \/ f.base = NULL THEN Ref(f.schema).uri
                          ELSE f.base.uri
    <3>1. f \in FramesOf(Schemas) /\ 0 \in f.left
      BY <2>4, TopTyped DEF ResolveRoot, Typed, InPlay
    <3>2. address \in Uris \cup {NULL}
      BY <3>1, RootAddress
    <3>3. UNCHANGED removed
      BY <2>4 DEF ResolveRoot
    <3>4. UNCHANGED <<lookup, fetched, documentPath>> \/ (address # NULL /\ Get(address))
      BY <2>4 DEF ResolveRoot
    <3> HIDE DEF address
    <3> QED
      BY <3>2, <3>3, <3>4, SameIsRead, GetHappens DEF Reads, Happens
  <2> QED
    BY <1>2, <2>1, <2>2, <2>3, <2>4, RegisterHappens, TargetHappens DEF Proceed
<1> QED
  BY <1>1, <1>2, CallHappens DEF Next

------------------------------------------------------------------------------
LEMMA InitPlay ==
  ASSUME Init, NEW X, MetaSchemas \subseteq X
  PROVE InPlay(X)
BY EmptyIn, EmptySeq, BuiltInIn DEF Init, InPlay

LEMMA InitTyped == Init => Typed
<1> SUFFICES ASSUME Init PROVE Typed
  OBVIOUS
<1>1. \A u \in Uris : Len(Online[u]) \in Nat
  BY DocumentShape, LenProperties
<1>2. /\ DOMAIN lookup \subseteq Addresses /\ MetaSchemas \subseteq Schemas
      /\ \A t \in Threads : DOMAIN local[t] = {}
  BY EmptyIn, MetaSchemasAre DEF Init
<1>3. local \in [Threads -> {local[t] : t \in Threads}]
  BY DEF Init
<1>4. \A u \in Uris : fetched[u] = 0
  BY DEF Init
<1>5. /\ fetched \in [Uris -> Nat] /\ hasRegistered \in [Schemas -> BOOLEAN] /\ removed \in BOOLEAN
      /\ documentPath \in [Schemas -> Addresses \cup {NULL}]
      /\ outcome \in [Threads -> [root : Roots \cup {NULL}, how : {"none", "valid", "threw"}]]
  BY DEF Init
<1> QED
  BY <1>1, <1>2, <1>3, <1>4, <1>5, InitPlay DEF Typed

LEMMA LocalChanges ==
  ASSUME Typed, [Next]_vars
  PROVE  \/ UNCHANGED local
         \/ \E t \in Threads : local' = [local EXCEPT ![t] = Empty]
         \/ \E t \in Threads : \E s \in Schemas : RegisterLocal(t, s)
<1>1. ASSUME NEW t \in Threads, Call(t)
      PROVE UNCHANGED local \/ local' = [local EXCEPT ![t] = Empty]
  BY <1>1 DEF Call, Validate, Register, Unregister, UnregisterAt, Clear, Fetch
<1>2. ASSUME NEW t \in Threads, Proceed(t)
      PROVE UNCHANGED local \/ \E s \in Schemas : RegisterLocal(t, s)
  <2>1. CASE RegisterSubschemas(t)
    <3>1. Top(t) \in FramesOf(Schemas) /\ Top(t).stage = "registering"
      BY <2>1, TopTyped DEF RegisterSubschemas, Typed, InPlay
    <3>2. Head(Top(t).todo) \in Schemas
      BY <3>1, HeadTailProperties DEF FramesOf, Suits
    <3> QED
      BY <2>1, <3>2 DEF RegisterSubschemas
  <2>2. CASE Begin(t)
    <3>1. Top(t).schema \in Schemas
      BY <2>2, TopTyped DEF Begin, Typed, InPlay, FramesOf
    <3> QED
      BY <2>2, <3>1 DEF Begin
  <2> QED
    BY <1>2, <2>1, <2>2 DEF Proceed, Pass, Mark, PropertiesKeyword, RefKeyword, ResolveRoot,
       ResolveTarget, Return
<1>3. UNCHANGED vars => UNCHANGED local
  BY DEF vars
<1> QED
  BY <1>1, <1>2, <1>3 DEF Next

LEMMA LocalStep ==
  ASSUME Typed, [Next]_vars
  PROVE  /\ local' \in [Threads -> {local'[t] : t \in Threads}]
         /\ \A t \in Threads : DOMAIN local'[t] \subseteq Addresses
<1>1. CASE UNCHANGED local
  BY <1>1 DEF Typed
<1>2. ASSUME NEW t \in Threads, NEW s \in Schemas, RegisterLocal(t, s)
      PROVE  /\ local' \in [Threads -> {local'[u] : u \in Threads}]
             /\ \A u \in Threads : DOMAIN local'[u] \subseteq Addresses
  BY <1>2, LocalRegistered DEF Typed, InPlay
<1>3. ASSUME NEW t \in Threads, local' = [local EXCEPT ![t] = Empty]
      PROVE  /\ local' \in [Threads -> {local'[u] : u \in Threads}]
             /\ \A u \in Threads : DOMAIN local'[u] \subseteq Addresses
  BY <1>3, EmptyIn DEF Typed
<1> QED
  BY <1>1, <1>2, <1>3, LocalChanges

LEMMA OutcomeStep ==
  ASSUME Typed, [Next]_vars
  PROVE  /\ hasRegistered' \in [Schemas -> BOOLEAN]
         /\ outcome' \in [Threads -> [root : Roots \cup {NULL}, how : {"none", "valid", "threw"}]]
<1>1. ASSUME NEW t \in Threads, Call(t)
      PROVE  /\ UNCHANGED hasRegistered
             /\ \/ UNCHANGED outcome
                \/ \E s \in Roots : outcome' = [outcome EXCEPT ![t] = [root |-> s, how |-> "none"]]
  BY <1>1 DEF Call, Validate, Register, Unregister, UnregisterAt, Clear, Fetch, schemaVars
<1>2. ASSUME NEW t \in Threads, Proceed(t)
      PROVE  /\ \/ UNCHANGED hasRegistered
                \/ \E s : hasRegistered' = [hasRegistered EXCEPT ![s] = TRUE]
             /\ \/ UNCHANGED outcome
                \/ \E how \in {"valid", "threw"} : outcome' = [outcome EXCEPT ![t].how = how]
  BY <1>2 DEF Proceed, Pass, Mark, RegisterSubschemas, Begin, PropertiesKeyword, RefKeyword,
     ResolveRoot, ResolveTarget, Return, Throw, Continue, NoRoot, schemaVars
<1>3. UNCHANGED vars => UNCHANGED <<hasRegistered, outcome>>
  BY DEF vars, schemaVars
<1>4. /\ hasRegistered \in [Schemas -> BOOLEAN]
      /\ outcome \in [Threads -> [root : Roots \cup {NULL}, how : {"none", "valid", "threw"}]]
  BY DEF Typed
<1>5. hasRegistered' \in [Schemas -> BOOLEAN]
  BY <1>1, <1>2, <1>3, <1>4 DEF Next
<1>6. \/ UNCHANGED outcome
      \/ \E t \in Threads :
           \/ \E s \in Roots : outcome' = [outcome EXCEPT ![t] = [root |-> s, how |-> "none"]]
           \/ \E how \in {"valid", "threw"} : outcome' = [outcome EXCEPT ![t].how = how]
  BY <1>1, <1>2, <1>3 DEF Next
<1>7. outcome' \in [Threads -> [root : Roots \cup {NULL}, how : {"none", "valid", "threw"}]]
  BY <1>4, <1>6
<1> QED
  BY <1>5, <1>7

LEMMA TypedStep ==
  ASSUME Typed, [Next]_vars
  PROVE Typed'
<1>1. NewIsIn(Schemas)
  BY DownloadTyped DEF NewIsIn
<1>0. MetaSchemas \subseteq Schemas /\ DOMAIN BuiltIn \subseteq Addresses
  BY MetaSchemasAre
<1>2. InPlay(Schemas)'
  BY <1>0, <1>1, StepKeepsPlay, SchemasAreClosed, DocumentShape DEF Typed
<1>3. /\ DOMAIN lookup' \subseteq Addresses
      /\ fetched' \in [Uris -> Nat]
      /\ \A u \in Uris : fetched'[u] <= Len(Online[u])
      /\ documentPath' \in [Schemas -> Addresses \cup {NULL}]
      /\ removed' \in BOOLEAN
  <2>0. lookup \in [DOMAIN lookup -> Schemas] /\ Roots \subseteq Schemas
    BY DocumentShape DEF Typed, InPlay
  <2>1. CASE Reads
    BY <2>1 DEF Reads, PathsRead, Typed
  <2>2. CASE Removes
    BY <1>0, <2>2 DEF Removes, PathsRead, Typed
  <2>3. ASSUME NEW s \in Roots, RegistersRoot(s)
        PROVE <1>3!:
    <3>1. s \in Schemas /\ DocumentPath(s) \in Addresses
      BY <2>0, <2>3, PathTyped DEF RegistersRoot
    <3>2. DOMAIN lookup' = DOMAIN lookup \cup {DocumentPath(s)}
      BY <2>3 DEF RegistersRoot, With
    <3>3. documentPath' \in [Schemas -> Addresses \cup {NULL}]
      BY <2>3, <3>1, PathTyped DEF RegistersRoot
    <3> QED
      BY <2>3, <3>1, <3>2, <3>3 DEF RegistersRoot, Typed
  <2>4. ASSUME NEW u \in Uris, Loads(u)
        PROVE <1>3!:
    BY <1>1, <2>0, <2>4, GotIn, SchemasAreClosed DEF Loads, Typed
  <2>5. ASSUME NEW s \in Schemas, NEW a \in Addresses, RegistersItself(s, a)
        PROVE <1>3!:
    <3>1. DOMAIN lookup' = DOMAIN lookup \cup {a}
      BY <2>5 DEF RegistersItself, With
    <3> QED
      BY <2>5, <3>1 DEF RegistersItself, Typed
  <2> QED
    BY <2>1, <2>2, <2>3, <2>4, <2>5, StepHappens DEF Happens
<1> QED
  BY <1>2, <1>3, LocalStep, OutcomeStep DEF Typed

THEOREM TypingInvariant == Spec => []Typed
<1>1. Init => Typed
  BY InitTyped
<1>2. Typed /\ [Next]_vars => Typed'
  BY TypedStep
<1> QED
  BY <1>1, <1>2, PTL DEF Spec

LEMMA TypedIsTyped == Typed => TypeOK
<1> SUFFICES ASSUME Typed PROVE TypeOK
  OBVIOUS
<1>1. lookup \in [DOMAIN lookup -> Schemas] /\ DOMAIN lookup \subseteq Addresses
  BY DEF Typed, InPlay
<1>2. Range(lookup) \subseteq Schemas
  BY <1>1 DEF Range
<1>3. \A u \in Uris : fetched[u] \in 0 .. Len(Online[u])
  <2> SUFFICES ASSUME NEW u \in Uris PROVE fetched[u] \in 0 .. Len(Online[u])
    OBVIOUS
  <2>1. Len(Online[u]) \in Nat
    BY DocumentShape, LenProperties
  <2> QED
    BY <2>1 DEF Typed
<1>4. ASSUME NEW t \in Threads
      PROVE  /\ DOMAIN local[t] \subseteq Addresses /\ Range(local[t]) \subseteq Schemas
             /\ outcome[t].how \in {"none", "valid", "threw"}
  BY DEF Typed, InPlay, Range
<1>5. ASSUME NEW t \in Threads, NEW i \in DOMAIN frames[t]
      PROVE  /\ frames[t][i].stage \in Stages
             /\ frames[t][i].base \in Addresses \cup {NULL}
             /\ frames[t][i].stage \in {"marking", "registering"} => frames[t][i].todo # <<>>
  <2>1. frames[t] \in Seq(FramesOf(Schemas))
    BY DEF Typed, InPlay
  <2>2. frames[t][i] \in FramesOf(Schemas)
    BY <2>1, ElementOfSeq, LenProperties
  <2> QED
    BY <2>2 DEF FramesOf, Suits
<1> QED
  BY <1>1, <1>2, <1>3, <1>4, <1>5 DEF TypeOK, Typed, InPlay, Stages

(* The types of the registry, of what each schema keeps and of the calls,  *)
(* for any schemas, downloads and threads.                                 *)
THEOREM TypeCorrect == Spec => []TypeOK
BY TypingInvariant, TypedIsTyped, PTL

------------------------------------------------------------------------------
(* The downloads that are still to come, and what is in use without them.  *)
Awaited ==
  {s \in Schemas : \E u \in Uris : \E k \in DOMAIN Online[u] : k > fetched[u] /\ s = Online[u][k]}

Fresh == InPlay(Schemas \ Awaited)

LEMMA PlayIsMonotonic ==
  ASSUME NEW X, NEW Y, X \subseteq Y, InPlay(X)
  PROVE InPlay(Y)
<1>1. \A f \in FramesOf(X) : f \in FramesOf(Y)
  <2> TAKE f \in FramesOf(X)
  <2>1. f.todo \in Seq(Y)
    <3>1. f.todo \in Seq(X)
      BY DEF FramesOf
    <3> QED
      BY <3>1, SeqMonotonic
  <2> QED
    BY <2>1 DEF FramesOf
<1>2. \A t \in Threads : frames[t] \in Seq(FramesOf(Y))
  BY <1>1, SeqMonotonic DEF InPlay
<1> QED
  BY <1>2 DEF InPlay

LEMMA FetchedStep ==
  ASSUME Typed, [Next]_vars
  PROVE \/ UNCHANGED fetched
        \/ \E u \in Uris : Downloads(u) /\ fetched' = [fetched EXCEPT ![u] = @ + 1]
BY StepHappens DEF Happens, Reads, Removes, RegistersRoot, Loads, Get, RegistersItself

LEMMA FreshStep ==
  ASSUME Typed, Fresh, [Next]_vars
  PROVE Fresh'
<1>1. PICK D : D = Schemas \ Awaited'
  OBVIOUS
<1>2. \A u \in Uris : /\ fetched[u] \in Nat /\ fetched'[u] \in Nat
                      /\ fetched[u] <= fetched'[u]
                      /\ fetched'[u] # fetched[u] => fetched'[u] = fetched[u] + 1
  BY FetchedStep DEF Typed
<1>3. \A u \in Uris : \A k \in DOMAIN Online[u] : k \in Nat
  BY DocumentShape, LenProperties
<1>4. Awaited' \subseteq Awaited
  <2> SUFFICES ASSUME NEW s \in Schemas, NEW u \in Uris, NEW k \in DOMAIN Online[u],
                      k > fetched'[u], s = Online[u][k]
               PROVE k > fetched[u]
    BY DEF Awaited
  <2>1. k \in Nat /\ fetched[u] \in Nat /\ fetched'[u] \in Nat /\ fetched[u] <= fetched'[u]
    BY <1>2, <1>3, Zenon
  <2> QED
    BY <2>1
<1>5. InPlay(D)
  BY <1>1, <1>4, PlayIsMonotonic DEF Fresh
<1>6. Awaited' \subseteq UNION {Range(Online[u]) : u \in Uris}
  BY DEF Awaited, Range
<1>7. Closed(D)
  BY <1>1, <1>6, SchemasAreClosed, WholeDocuments DEF Closed, Documented
<1>8. Roots \subseteq D /\ MetaSchemas \subseteq D
  BY <1>1, <1>6, DocumentShape, MetaSchemasAre, NewDownloads
<1>9. NewIsIn(D)
  <2> SUFFICES ASSUME NEW u \in Uris, Downloads(u), fetched'[u] # fetched[u],
                      Online[u][fetched[u] + 1] \in Awaited'
               PROVE FALSE
    BY <1>1, DownloadTyped DEF NewIsIn
  <2>0. fetched'[u] = fetched[u] + 1 /\ fetched[u] \in Nat
    BY <1>2, Zenon
  <2>1. fetched[u] + 1 \in DOMAIN Online[u]
    BY DownloadTyped
  <2>2. PICK v \in Uris :
          \E k \in DOMAIN Online[v] : k > fetched'[v] /\ Online[u][fetched[u] + 1] = Online[v][k]
    BY DEF Awaited
  <2>3. PICK k \in DOMAIN Online[v] : k > fetched'[v] /\ Online[u][fetched[u] + 1] = Online[v][k]
    BY <2>2
  <2>4. u = v /\ fetched[u] + 1 = k
    BY <2>1, <2>3, NewDownloads
  <2> QED
    BY <2>0, <2>3, <2>4
<1>10. InPlay(D)'
  BY <1>5, <1>7, <1>8, <1>9, StepKeepsPlay
<1> QED
  BY <1>1, <1>10 DEF Fresh

(* Addresses of schemas are absolute, and a schema that is registered at   *)
(* one keeps it for its path, except where a meta-schema is put. Roots and *)
(* meta-schemas have no path but their ids.                                *)
PutAt(a, s) == a \in DOMAIN BuiltIn /\ s = BuiltIn[a]

AtPaths ==
  /\ \A a \in DOMAIN lookup :
       IsAbsolute(a) /\ (documentPath[lookup[a]] = a \/ PutAt(a, lookup[a]))
  /\ \A s \in Roots \cup MetaSchemas : documentPath[s] \in {NULL, Id(s)}

LEMMA MetaSchemasHaveIds ==
  ASSUME NEW a, NEW s, PutAt(a, s)
  PROVE  /\ s \in MetaSchemas /\ s \in Schemas /\ s \in Documented
         /\ Id(s) \in Addresses /\ Id(s) # NULL /\ TrimEnd(Id(s)) = a
         /\ IsAbsolute(Id(s)) /\ IsAbsolute(a)
         /\ \E u \in Uris : a = At(u)
<1>1. s \in MetaSchemas /\ s \in Schemas /\ s \in Documented
  BY BuiltInShape DEF PutAt, MetaSchemas, Documented
<1>2. Id(s) \in Addresses /\ Id(s) # NULL /\ TrimEnd(Id(s)) = a
  BY <1>1, BuiltInShape, SchemaTypes DEF PutAt, Id
<1>3. PICK u \in Uris : a = At(u)
  BY BuiltInShape DEF PutAt
<1>4. IsAbsolute(Id(s)) /\ IsAbsolute(a)
  BY <1>2, <1>3, TrimEndTyped, AtIsAddress, NullIsNothing DEF IsAbsolute
<1> QED
  BY <1>1, <1>2, <1>3, <1>4

LEMMA MetaSchemasArePut ==
  ASSUME NEW s \in MetaSchemas
  PROVE \E a : PutAt(a, s)
BY DEF MetaSchemas, PutAt

LEMMA AtPathsStep ==
  ASSUME Typed, Fresh, AtPaths, [Next]_vars
  PROVE AtPaths'
<1>1. /\ \A a \in DOMAIN lookup : a \in Addresses /\ a # NULL /\ lookup[a] \in Schemas
      /\ Roots \cup MetaSchemas \subseteq Schemas /\ Roots \cup MetaSchemas \subseteq Documented
      /\ documentPath \in [Schemas -> Addresses \cup {NULL}]
      /\ lookup \in [DOMAIN lookup -> Schemas]
  BY NullIsNothing, DocumentShape, MetaSchemasAre DEF Typed, InPlay, Documented
<1>2. ASSUME PathsRead
      PROVE  /\ \A a \in DOMAIN lookup : documentPath'[lookup[a]] = a \/ PutAt(a, lookup[a])
             /\ \A s \in Roots \cup MetaSchemas : documentPath'[s] \in {NULL, Id(s)}
  <2>1. ASSUME NEW a \in DOMAIN lookup
        PROVE documentPath'[lookup[a]] = a \/ PutAt(a, lookup[a])
    BY <1>1, <1>2 DEF PathsRead, AtPaths
  <2>2. ASSUME NEW s \in Roots \cup MetaSchemas
        PROVE documentPath'[s] \in {NULL, Id(s)}
    BY <1>1, <1>2 DEF PathsRead, AtPaths
  <2> QED
    BY <2>1, <2>2
<1>3. CASE Reads
  BY <1>2, <1>3 DEF Reads, AtPaths
<1>4. CASE Removes
  <2>1. ASSUME NEW a \in DOMAIN lookup'
        PROVE IsAbsolute(a) /\ (documentPath'[lookup'[a]] = a \/ PutAt(a, lookup'[a]))
    <3>1. CASE a \in DOMAIN lookup /\ lookup'[a] = lookup[a]
      BY <1>2, <1>4, <3>1 DEF Removes, AtPaths
    <3>2. CASE a \in DOMAIN BuiltIn /\ lookup'[a] = BuiltIn[a]
      BY <3>2, MetaSchemasHaveIds DEF PutAt
    <3> QED
      BY <1>4, <3>1, <3>2 DEF Removes
  <2> QED
    BY <1>2, <1>4, <2>1 DEF Removes, AtPaths
<1>5. ASSUME NEW s \in Roots, RegistersRoot(s)
      PROVE AtPaths'
  <2>1. DocumentPath(s) = Id(s) /\ Id(s) # NULL /\ IsAbsolute(Id(s))
    BY <1>5, DocumentIds DEF RegistersRoot, AtPaths, DocumentPath, Id, Documented
  <2>2. lookup' = With(lookup, Id(s), s) /\ documentPath' = PathRead(s)
    BY <1>5, <2>1 DEF RegistersRoot
  <2>3. documentPath' = [documentPath EXCEPT ![s] = Id(s)]
    BY <2>1, <2>2 DEF PathRead
  <2>4. \A a \in DOMAIN lookup : lookup[a] = s => a = Id(s) \/ PutAt(a, s)
    BY <1>1, <2>1 DEF AtPaths, DocumentPath
  <2>5. \A a \in DOMAIN lookup' : \/ a = Id(s) /\ lookup'[a] = s
                                  \/ a \in DOMAIN lookup /\ lookup'[a] = lookup[a] /\ a # Id(s)
    BY <2>2 DEF With
  <2> QED
    BY <1>1, <2>1, <2>3, <2>4, <2>5 DEF AtPaths
<1>6. ASSUME NEW u \in Uris, Loads(u)
      PROVE AtPaths'
  <2>1. Downloads(u)
    BY <1>6 DEF Loads
  <2>2. /\ documentPath' = [documentPath EXCEPT ![Got(u)] = At(u)]
        /\ lookup' = With(lookup, At(u), Got(u))
    BY <1>6, <2>1 DEF Loads, Get
  <2>3. Got(u) \in Awaited /\ Got(u) \in Schemas /\ Got(u) \notin Roots \cup MetaSchemas
    <3>1. /\ fetched[u] + 1 > fetched[u] /\ fetched[u] + 1 \in DOMAIN Online[u]
          /\ Got(u) = Online[u][fetched[u] + 1] /\ Got(u) \in Schemas
      BY <2>1, DownloadTyped
    <3> QED
      BY <3>1, NewDownloads DEF Awaited, Range
  <2>4. \A a \in DOMAIN lookup : lookup[a] # Got(u)
    BY <2>3 DEF Fresh, InPlay
  <2>5. \A a \in DOMAIN lookup' : \/ a = At(u) /\ lookup'[a] = Got(u)
                                  \/ a \in DOMAIN lookup /\ lookup'[a] = lookup[a]
    BY <2>2 DEF With
  <2>6. IsAbsolute(At(u))
    BY AtIsAddress, NullIsNothing DEF IsAbsolute
  <2> QED
    BY <1>1, <2>2, <2>3, <2>4, <2>5, <2>6 DEF AtPaths
<1>7. ASSUME NEW s \in Schemas, NEW a \in Addresses, RegistersItself(s, a)
      PROVE AtPaths'
  <2>1. /\ documentPath[s] = NULL /\ documentPath' = [documentPath EXCEPT ![s] = a]
        /\ IsAbsolute(a) /\ lookup' = With(lookup, a, s)
    BY <1>7 DEF RegistersItself
  <2>2. \A b \in DOMAIN lookup : lookup[b] = s => PutAt(b, s)
    BY <1>1, <2>1 DEF AtPaths
  <2>3. \A b \in DOMAIN lookup' : \/ b = a /\ lookup'[b] = s
                                  \/ b \in DOMAIN lookup /\ lookup'[b] = lookup[b]
    BY <2>1 DEF With
  <2>4. s \in Roots \cup MetaSchemas => a = Id(s)
    BY <1>7, DocumentIds DEF RegistersItself, Id, Documented
  <2> QED
    BY <1>1, <2>1, <2>2, <2>3, <2>4 DEF AtPaths
<1> QED
  BY <1>3, <1>4, <1>5, <1>6, <1>7, StepHappens DEF Happens

THEOREM PathInvariant == Spec => [](Typed /\ Fresh /\ AtPaths)
<1>1. Init => Typed /\ Fresh /\ AtPaths
  <2> SUFFICES ASSUME Init PROVE Fresh /\ AtPaths
    BY InitTyped
  <2>1. MetaSchemas \subseteq Schemas \ Awaited
    BY MetaSchemasAre, NewDownloads DEF Awaited, Range
  <2>2. \A a \in DOMAIN lookup : PutAt(a, lookup[a]) /\ IsAbsolute(a)
    BY MetaSchemasHaveIds DEF Init, PutAt
  <2>3. MetaSchemas \subseteq Schemas
    BY MetaSchemasAre
  <2> QED
    BY <2>1, <2>2, <2>3, InitPlay, DocumentShape DEF Fresh, AtPaths, Init
<1>2. Typed /\ Fresh /\ AtPaths /\ [Next]_vars => (Typed /\ Fresh /\ AtPaths)'
  BY TypedStep, FreshStep, AtPathsStep
<1> QED
  BY <1>1, <1>2, PTL DEF Spec

(* A schema can be unregistered for as long as it is registered: whatever  *)
(* threads validate and resolve, it keeps the path that Unregister goes by *)
(* (JsonSchemaRegistry.cs:124-131). A meta-schema that Clear has put back  *)
(* keeps its id, and is where that says without the '#' at its end.        *)
THEOREM RegisteredCanBeRemoved == Spec => []RegisteredAtPath
<1>1. AtPaths => RegisteredAtPath
  BY MetaSchemasHaveIds DEF AtPaths, RegisteredAtPath, PutAt, DocumentPath
<1> QED
  BY <1>1, PathInvariant, PTL

------------------------------------------------------------------------------
(* As long as nothing is removed, only the schemas of C are in use, a URI  *)
(* is downloaded once, and what is registered at it, or resolved from it,  *)
(* is the schema that claims it.                                           *)
Claimed(u) ==
  /\ fetched[u] > 0 => At(u) \in DOMAIN lookup
  /\ At(u) \in DOMAIN lookup => Claims(lookup[At(u)], u)

Referred(u) ==
  \A s \in ReferringTo[u] :
    /\ resolvedRoot[s] # NULL => Claims(resolvedRoot[s], u)
    /\ resolved[s] # NULL => Claims(resolved[s], u)

Shared(C) == ~ removed => InPlay(C) /\ \A u \in Uris : Claimed(u) /\ Referred(u)

LEMMA AtIsInjective ==
  ASSUME NEW u \in Uris, NEW v \in Uris
  PROVE  /\ At(u) = At(v) => u = v
         /\ At(u) # NULL
         /\ ~ IsLocalSchemaId(At(u)) /\ ~ IsPointer(At(u))
BY AtIsAddress, NullIsNothing DEF IsLocalSchemaId, IsPointer

LEMMA FirstIsNew ==
  ASSUME Typed, NEW u \in Uris, Claimed(u), Downloads(u)
  PROVE  /\ fetched[u] = 0
         /\ Online[u] # <<>>
         /\ Got(u) = Online[u][1]
<1>1. /\ fetched[u] \in Nat /\ At(u) \notin DOMAIN lookup
      /\ fetched[u] + 1 \in DOMAIN Online[u]
      /\ Got(u) = Online[u][fetched[u] + 1]
  BY DownloadTyped
<1>2. fetched[u] = 0
  BY <1>1 DEF Claimed
<1>3. Online[u] # <<>>
  BY <1>1, <1>2, DownloadTyped, EmptySeq
<1> QED
  BY <1>1, <1>2, <1>3

LEMMA GotClaims ==
  ASSUME Typed, NEW u \in Uris, Claimed(u), Got(u) # NULL
  PROVE Claims(Got(u), u)
<1>1. CASE Downloads(u)
  BY <1>1, FirstIsNew DEF Claims
<1>2. CASE ~ Downloads(u)
  <2>1. Got(u) = Found(lookup, At(u))
    BY <1>2, AtIsAddress DEF Got, Registered
  <2>2. At(u) \in DOMAIN lookup /\ Got(u) = lookup[At(u)]
    BY <2>1 DEF Found
  <2> QED
    BY <2>2 DEF Claimed
<1> QED
  BY <1>1, <1>2

LEMMA ClaimedStep ==
  ASSUME Typed, AtPaths, [Next]_vars, ~ removed', NEW u \in Uris, \A v \in Uris : Claimed(v)
  PROVE Claimed(u)'
<1>0. /\ lookup \in [DOMAIN lookup -> Schemas] /\ Roots \subseteq Schemas
      /\ At(u) \in Addresses /\ At(u).frag = <<>>
      /\ fetched \in [Uris -> Nat]
  BY AtIsAddress, DocumentShape DEF Typed, InPlay
<1>1. CASE Reads
  BY <1>1 DEF Reads, Claimed
<1>2. CASE Removes
  BY <1>2 DEF Removes
<1>3. ASSUME NEW s \in Roots, RegistersRoot(s)
      PROVE Claimed(u)'
  <2>1. DocumentPath(s) = Id(s)
    BY <1>3 DEF RegistersRoot, AtPaths, DocumentPath
  <2>2. UNCHANGED fetched /\ lookup' = With(lookup, Id(s), s)
    BY <1>3, <2>1 DEF RegistersRoot
  <2>3. Id(s) = At(u) => Claims(s, u)
    BY DEF Claims
  <2> QED
    BY <2>2, <2>3 DEF Claimed, With
<1>4. ASSUME NEW v \in Uris, Loads(v)
      PROVE Claimed(u)'
  <2>1. /\ Downloads(v)
        /\ fetched' = [fetched EXCEPT ![v] = @ + 1]
        /\ lookup' = With(lookup, At(v), Got(v))
    BY <1>4 DEF Loads, Get
  <2>2. CASE u = v
    <3>1. Claims(Got(u), u)
      BY <2>1, <2>2, FirstIsNew DEF Claims
    <3> QED
      BY <2>1, <2>2, <3>1 DEF Claimed, With
  <2>3. CASE u # v
    <3>1. At(u) # At(v) /\ fetched'[u] = fetched[u]
      BY <1>0, <2>1, <2>3, AtIsInjective
    <3> QED
      BY <2>1, <3>1 DEF Claimed, With
  <2> QED
    BY <2>2, <2>3
<1>5. ASSUME NEW s \in Schemas, NEW a \in Addresses, RegistersItself(s, a)
      PROVE Claimed(u)'
  <2>1. UNCHANGED fetched /\ lookup' = With(lookup, a, s)
    BY <1>5 DEF RegistersItself
  <2>2. a = At(u) => Claims(s, u)
    BY <1>0, <1>5 DEF RegistersItself, Claims
  <2> QED
    BY <2>1, <2>2 DEF Claimed, With
<1> QED
  BY <1>1, <1>2, <1>3, <1>4, <1>5, StepHappens DEF Happens

LEMMA ReferencesChange ==
  ASSUME [Next]_vars
  PROVE  \/ UNCHANGED <<resolved, resolvedRoot>>
         \/ \E t \in Threads : ResolveRoot(t) \/ ResolveTarget(t)
<1>1. ASSUME NEW t \in Threads, Call(t)
      PROVE UNCHANGED <<resolved, resolvedRoot>>
  BY <1>1 DEF Call, Validate, Register, Unregister, UnregisterAt, Fetch, Clear, schemaVars
<1>2. ASSUME NEW t \in Threads, Proceed(t)
      PROVE UNCHANGED <<resolved, resolvedRoot>> \/ ResolveRoot(t) \/ ResolveTarget(t)
  BY <1>2 DEF Proceed, Pass, Mark, RegisterSubschemas, Begin, PropertiesKeyword, RefKeyword,
     Return, schemaVars
<1>3. UNCHANGED vars => UNCHANGED <<resolved, resolvedRoot>>
  BY DEF vars, schemaVars
<1> QED
  BY <1>1, <1>2, <1>3 DEF Next

(* A reference to the whole of what is at a URI changes in two ways.       *)
LEMMA ReferenceStep ==
  ASSUME Typed, [Next]_vars, NEW u \in Uris, NEW s \in ReferringTo[u]
  PROVE  /\ resolvedRoot'[s] \in {resolvedRoot[s], Got(u)}
         /\ resolved'[s] \in {resolved[s], resolvedRoot[s], Registered(At(u))}
<1>0. /\ s \in Schemas /\ Ref(s) = At(u)
      /\ resolved \in [Schemas -> Schemas \cup {NULL}]
      /\ resolvedRoot \in [Schemas -> Schemas \cup {NULL}]
  BY DEF ReferringTo, Typed, InPlay
<1>1. CASE UNCHANGED <<resolved, resolvedRoot>>
  BY <1>1
<1>2. ASSUME NEW t \in Threads, ResolveRoot(t)
      PROVE  /\ resolvedRoot'[s] \in {resolvedRoot[s], Got(u)}
             /\ resolved'[s] = resolved[s]
  <2> DEFINE f == Top(t)
  <2>1. CASE f.schema # s
    <3>1. \/ UNCHANGED resolvedRoot /\ \E r : resolved' = [resolved EXCEPT ![f.schema] = r]
          \/ UNCHANGED resolved /\ \E r : resolvedRoot' = [resolvedRoot EXCEPT ![f.schema] = r]
      BY <1>2 DEF ResolveRoot
    <3> HIDE DEF f
    <3> QED
      BY <1>0, <2>1, <3>1
  <2>2. CASE f.schema = s
    <3>1. ~ IsLocalSchemaId(Ref(s)) /\ Ref(s).uri = u /\ u # NULL
      BY <1>0, AtIsInjective, AtIsAddress, NullIsNothing
    <3>2. resolvedRoot' = [resolvedRoot EXCEPT ![s] = Got(u)] /\ UNCHANGED resolved
      BY <1>2, <2>2, <3>1 DEF ResolveRoot
    <3> QED
      BY <1>0, <3>2
  <2> QED
    BY <2>1, <2>2
<1>3. ASSUME NEW t \in Threads, ResolveTarget(t)
      PROVE  /\ resolvedRoot'[s] = resolvedRoot[s]
             /\ resolved'[s] \in {resolved[s], resolvedRoot[s], Registered(At(u))}
  <2> DEFINE f == Top(t)
  <2>1. UNCHANGED resolvedRoot
    BY <1>3 DEF ResolveTarget
  <2>2. CASE f.schema # s
    <3>1. UNCHANGED resolved \/ \E r : resolved' = [resolved EXCEPT ![f.schema] = r]
      BY <1>3 DEF ResolveTarget
    <3> HIDE DEF f
    <3> QED
      BY <1>0, <2>1, <2>2, <3>1
  <2>3. CASE f.schema = s
    <3>1. ~ IsPointer(Ref(s)) /\ ~ IsLocalSchemaId(TrimEnd(Ref(s)))
      BY <1>0, AtIsInjective, AtIsAddress
    <3>2. \/ UNCHANGED resolved
          \/ resolved' = [resolved EXCEPT ![s] = Registered(Ref(s))]
          \/ resolved' = [resolved EXCEPT ![s] = resolvedRoot[s]]
      BY <1>3, <2>3, <3>1 DEF ResolveTarget
    <3> QED
      BY <1>0, <2>1, <3>2
  <2> QED
    BY <2>2, <2>3
<1> QED
  BY <1>1, <1>2, <1>3, ReferencesChange

LEMMA ReferredStep ==
  ASSUME Typed, [Next]_vars, NEW u \in Uris, Claimed(u), Referred(u)
  PROVE Referred(u)'
<1> SUFFICES ASSUME NEW s \in ReferringTo[u]
             PROVE  /\ resolvedRoot'[s] # NULL => Claims(resolvedRoot'[s], u)
                    /\ resolved'[s] # NULL => Claims(resolved'[s], u)
  BY DEF Referred
<1>1. Registered(At(u)) # NULL => Claims(Registered(At(u)), u)
  BY AtIsAddress DEF Registered, Found, Claimed
<1>2. Got(u) # NULL => Claims(Got(u), u)
  BY GotClaims
<1> QED
  BY <1>1, <1>2, ReferenceStep DEF Referred

LEMMA SharedStep ==
  ASSUME NEW C, ClaimedOnce(C), Typed, AtPaths, Shared(C), [Next]_vars
  PROVE Shared(C)'
<1> SUFFICES ASSUME ~ removed'
             PROVE (InPlay(C) /\ \A u \in Uris : Claimed(u) /\ Referred(u))'
  BY DEF Shared
<1>1. ~ removed
  BY StepHappens DEF Happens, Reads, Removes, RegistersRoot, Loads, RegistersItself
<1>2. InPlay(C) /\ \A u \in Uris : Claimed(u) /\ Referred(u)
  BY <1>1 DEF Shared
<1>3. Closed(C) /\ Roots \subseteq C /\ MetaSchemas \subseteq C
  BY DEF ClaimedOnce, Closed
<1>4. NewIsIn(C)
  BY <1>2, FirstIsNew DEF NewIsIn, ClaimedOnce
<1>5. InPlay(C)'
  BY <1>2, <1>3, <1>4, StepKeepsPlay
<1>6. ASSUME NEW u \in Uris
      PROVE Claimed(u)' /\ Referred(u)'
  BY <1>2, ClaimedStep, ReferredStep
<1> QED
  BY <1>5, <1>6

LEMMA SharedIsShared ==
  ASSUME NEW C, ClaimedOnce(C), Shared(C)
  PROVE OneSchemaPerUri
<1> SUFFICES ASSUME ~ removed, NEW u \in Uris, NEW s \in ReferringTo[u], NEW x \in ReferringTo[u],
                    NULL \notin {resolved[s], resolved[x]}
             PROVE resolved[s] = resolved[x]
  BY DEF OneSchemaPerUri
<1>1. s \in Schemas /\ x \in Schemas
  BY DEF ReferringTo
<1>2. resolved[s] \in C /\ resolved[x] \in C
  BY <1>1 DEF Shared, InPlay
<1>3. Claims(resolved[s], u) /\ Claims(resolved[x], u)
  BY DEF Shared, Referred
<1> QED
  BY <1>2, <1>3 DEF ClaimedOnce

(* Threads that resolve references to one URI, whenever they do and        *)
(* whatever is registered and validated in between, get the same schema    *)
(* (JsonSchemaRegistry.cs:38-55), as long as nothing is unregistered and   *)
(* no two schemas claim the URI.                                           *)
THEOREM ReferencesShareSchemas ==
  ASSUME NEW C, ClaimedOnce(C)
  PROVE Spec => []OneSchemaPerUri
<1>1. Init => Shared(C)
  <2> SUFFICES ASSUME Init PROVE Shared(C)
    OBVIOUS
  <2>1. /\ \A u \in Uris : fetched[u] = 0 /\ (At(u) \in DOMAIN lookup => Claims(lookup[At(u)], u))
        /\ MetaSchemas \subseteq C
    BY DEF Init, Claims, ClaimedOnce
  <2>2. \A u \in Uris : \A s \in ReferringTo[u] : resolved[s] = NULL /\ resolvedRoot[s] = NULL
    BY DEF Init, ReferringTo
  <2> QED
    BY <2>1, <2>2, InitPlay DEF Shared, Claimed, Referred
<1>2. Typed /\ AtPaths /\ Shared(C) /\ [Next]_vars => Shared(C)'
  BY SharedStep
<1>3. Shared(C) => OneSchemaPerUri
  BY SharedIsShared
<1> QED
  BY <1>1, <1>2, <1>3, PathInvariant, PTL DEF Spec

------------------------------------------------------------------------------
(* Of orderly documents every address that is in use, in the registry, as  *)
(* the path of a schema or as the base of a call, is the one of the        *)
(* document around the schema in question.                                 *)
PlacedAt(a, s) ==
  a \in Addresses /\ \E u \in Uris : TrimEnd(a) = At(u) /\ Resource[s] \in Documents(u)

Fellows(s) == {x \in Schemas : Resource[x] = Resource[s]}

Answers ==
  \A a \in DOMAIN lookup : \E u \in Uris : TrimEnd(a) = At(u) /\ lookup[a] \in Documents(u)

PathsPlaced == \A s \in Schemas : documentPath[s] # NULL => PlacedAt(documentPath[s], s)

LoadedPlaced ==
  \A u \in Uris : \A k \in DOMAIN Online[u] : k <= fetched[u] => documentPath[Online[u][k]] # NULL

(* A call without a base has the document around its schema for its root,  *)
(* and registers schemas of that document alone.                           *)
Fits(f) ==
  /\ f.base = NULL => f.root = Resource[f.schema]
  /\ f.base # NULL => PlacedAt(f.base, f.schema)
  /\ f.todo \in Seq(Fellows(f.schema))

FramesFit == \A t \in Threads : \A i \in 1 .. Len(frames[t]) : Fits(frames[t][i])

(* A reference is resolved in the documents that it may be resolved in.    *)
RefFits(s) ==
  /\ resolvedRoot[s] # NULL => Ref(s) # NULL /\ resolvedRoot[s] \in DocumentsOf(s)
  /\ resolved[s] # NULL => /\ resolvedRoot[s] # NULL
                           /\ Resource[resolved[s]] \in DocumentsOf(s)
                           /\ resolved[s] \in Designated[s]

NoLocalNames == \A t \in Threads : \A k \in DOMAIN local[t] : TrimEnd(k) # k

Tracked ==
  /\ Answers
  /\ PathsPlaced /\ LoadedPlaced
  /\ FramesFit
  /\ \A s \in Schemas : RefFits(s)
  /\ NoLocalNames

LEMMA DocumentsAre ==
  ASSUME Orderly(Schemas), NEW u \in Uris, NEW d \in Documents(u)
  PROVE  d \in Schemas /\ d \in Documented /\ Resource[d] = d
<1>1. d \in Schemas
  <2>1. Range(Online[u]) \subseteq Schemas
    <3>1. Online[u] \in Seq(Schemas)
      BY DocumentShape
    <3> QED
      BY <3>1, LenProperties, ElementOfSeq DEF Range
  <2> QED
    BY <2>1 DEF Documents
<1>2. d \in Documented
  BY <1>1 DEF Orderly, Documents, Documented
<1> QED
  BY <1>1, <1>2 DEF Orderly

LEMMA TrimEndKeeps ==
  ASSUME NEW a \in Addresses
  PROVE  /\ a.frag = <<>> => TrimEnd(a) = a
         /\ TrimEnd(TrimEnd(a)) = TrimEnd(a)
<1>1. <<>> # <<"#">>
  OBVIOUS
<1> QED
  BY <1>1, AtIsAddress, AddressIsRecord DEF TrimEnd

LEMMA TrimmedIsAt ==
  ASSUME NEW a \in Addresses, TrimEnd(a).frag = <<>>, IsAbsolute(a)
  PROVE  a.uri \in Uris /\ TrimEnd(a) = At(a.uri)
BY AddressIsRecord DEF TrimEnd, At, IsAbsolute

LEMMA IdPlaced ==
  ASSUME Orderly(Schemas), NEW s \in Schemas, Id(s) # NULL
  PROVE  /\ PlacedAt(Id(s), s)
         /\ IsAbsolute(Id(s))
         /\ s \in Documented /\ Resource[s] = s
         /\ \E u \in Uris : s \in Documents(u)
         /\ s \in MetaSchemas \/ TrimEnd(Id(s)) = Id(s)
         /\ \A k \in LocalNames(s) : TrimEnd(k) # k
<1>1. s \in Documented /\ TrimEnd(Id(s)).frag = <<>> /\ Resource[s] = s
  <2>1. s \in Documented /\ (Id(s).frag = <<>> \/ s \in MetaSchemas) /\ Resource[s] = s
    BY DEF Orderly
  <2>2. s \in MetaSchemas => TrimEnd(Id(s)).frag = <<>>
    BY MetaSchemasArePut, MetaSchemasHaveIds, AtIsAddress
  <2>3. Id(s).frag = <<>> => TrimEnd(Id(s)) = Id(s)
    BY SchemaTypes, TrimEndKeeps
  <2> QED
    BY <2>1, <2>2, <2>3
<1>2. Id(s) \in Addresses
  BY SchemaTypes
<1>3. IsAbsolute(Id(s))
  BY <1>1, DocumentIds DEF Documented, Id
<1>4. TrimEnd(Id(s)) = At(Id(s).uri) /\ Id(s).uri \in Uris
  BY <1>1, <1>2, <1>3, TrimmedIsAt
<1>5. s \in Documents(Id(s).uri)
  BY <1>4 DEF Documents
<1>6. s \in MetaSchemas \/ TrimEnd(Id(s)) = Id(s)
  BY <1>2, TrimEndKeeps DEF Orderly
<1>7. Id(s).frag = <<>> => ~ IsLocalSchemaId(Id(s))
  BY DEF IsLocalSchemaId
<1>8. ASSUME NEW k \in LocalNames(s)
      PROVE TrimEnd(k) # k
  <2>1. k = Id(s) /\ k.frag # <<>>
    BY <1>7 DEF LocalNames, Orderly
  <2> QED
    BY <1>1, <2>1
<1> QED
  BY <1>1, <1>2, <1>3, <1>4, <1>5, <1>6, <1>8 DEF PlacedAt

LEMMA PlacedIsAddress ==
  ASSUME NEW a, NEW s \in Schemas, PlacedAt(a, s)
  PROVE  /\ a \in Addresses /\ a # NULL
         /\ IsAbsolute(a)
         /\ a.uri \in Uris /\ TrimEnd(a) = At(a.uri) /\ Resource[s] \in Documents(a.uri)
BY AtIsAddress, TrimEndTyped, NullIsNothing DEF PlacedAt, IsAbsolute

LEMMA PlacedTrimmed ==
  ASSUME NEW a, NEW s \in Schemas, PlacedAt(a, s)
  PROVE PlacedAt(TrimEnd(a), s) /\ TrimEnd(a) # NULL
BY TrimEndTyped, TrimEndKeeps, NullIsNothing DEF PlacedAt

LEMMA PlacedTogether ==
  ASSUME NEW a, NEW s \in Schemas, PlacedAt(a, s), NEW x \in Schemas, Resource[x] = Resource[s]
  PROVE PlacedAt(a, x)
BY DEF PlacedAt

LEMMA PartsAreFellows ==
  ASSUME Orderly(Schemas), NEW s \in Schemas
  PROVE  /\ s \in Fellows(s)
         /\ Closed(Fellows(s))
         /\ Resource[s] \in Documented /\ Resource[Resource[s]] = Resource[s]
         /\ Resource[s] \in Schemas
<1>1. \A x \in Fellows(s) : \A i \in DOMAIN Schema[x].subschemas :
        Schema[x].subschemas[i].schema \in Fellows(s)
  BY SchemasAreClosed DEF Closed, Fellows, Orderly
<1>2. Documented \subseteq Schemas
  <2>1. \A u \in Uris : Range(Online[u]) \subseteq Schemas
    <3> TAKE u \in Uris
    <3>1. Online[u] \in Seq(Schemas)
      BY DocumentShape
    <3> QED
      BY <3>1, LenProperties, ElementOfSeq DEF Range
  <2> QED
    BY <2>1, DocumentShape, MetaSchemasAre DEF Documented
<1> QED
  BY <1>1, <1>2 DEF Fellows, Closed, Orderly

LEMMA PathPlaced ==
  ASSUME Orderly(Schemas), PathsPlaced, NEW s \in Schemas, DocumentPath(s) # NULL
  PROVE PlacedAt(DocumentPath(s), s)
BY IdPlaced DEF PathsPlaced, DocumentPath

(* A document that is there has its address for its path.                  *)
LEMMA PathOfDocument ==
  ASSUME Orderly(Schemas), Typed, PathsPlaced, LoadedPlaced, NEW u \in Uris,
         NEW d \in Documents(u), d \notin Awaited
  PROVE DocumentPath(d) # NULL /\ TrimEnd(DocumentPath(d)) = At(u)
<1>1. d \in Schemas /\ Resource[d] = d
  BY DocumentsAre
<1>2. DocumentPath(d) # NULL
  <2>1. CASE Id(d) # NULL
    BY <2>1 DEF DocumentPath
  <2>2. CASE Id(d) = NULL
    <3>1. PICK k \in DOMAIN Online[u] : d = Online[u][k]
      BY <2>2 DEF Documents, Range
    <3>2. k \in Nat /\ fetched[u] \in Nat
      BY DocumentShape, LenProperties DEF Typed
    <3>3. ~ (k > fetched[u])
      BY <1>1, <3>1 DEF Awaited
    <3>4. documentPath[d] # NULL
      BY <3>1, <3>2, <3>3 DEF LoadedPlaced
    <3> QED
      BY <3>4 DEF DocumentPath
  <2> QED
    BY <2>1, <2>2
<1>3. PICK v \in Uris : TrimEnd(DocumentPath(d)) = At(v) /\ d \in Documents(v)
  BY <1>1, <1>2, PathPlaced DEF PlacedAt
<1>4. v = u
  BY <1>1, <1>3 DEF Orderly
<1> QED
  BY <1>2, <1>3, <1>4
(* The documents of a reference are those at one address, or the one       *)
(* around it, which is then at none.                                       *)
LEMMA ShapeOfDocuments ==
  ASSUME Orderly(Schemas), NEW s \in Schemas, Ref(s) # NULL
  PROVE  \/ \E u \in Uris : /\ DocumentsOf(s) = Documents(u)
                            /\ Ref(s).uri = NULL => Resource[s] \in Documents(u)
         \/ /\ DocumentsOf(s) = {Resource[s]}
            /\ Ref(s).uri = NULL
            /\ \A u \in Uris : Resource[s] \notin Documents(u)
<1>1. CASE Ref(s).uri # NULL
  <2>1. Ref(s).uri \in Uris
    BY <1>1, SchemaTypes, AddressIsRecord
  <2> QED
    BY <1>1, <2>1 DEF DocumentsOf
<1>2. CASE Ref(s).uri = NULL
  <2>1. DocumentsOf(s) = {Resource[s]} \cup
          UNION {Documents(u) : u \in {v \in Uris : Resource[s] \in Documents(v)}}
    BY <1>2 DEF DocumentsOf
  <2>2. CASE \A u \in Uris : Resource[s] \notin Documents(u)
    BY <1>2, <2>1, <2>2
  <2>3. ASSUME NEW u \in Uris, Resource[s] \in Documents(u)
        PROVE DocumentsOf(s) = Documents(u)
    <3>1. \A v \in Uris : Resource[s] \in Documents(v) => v = u
      BY <2>3, DocumentsAre DEF Orderly
    <3> QED
      BY <2>1, <2>3, <3>1
  <2> QED
    BY <2>2, <2>3
<1> QED
  BY <1>1, <1>2

LEMMA DocumentsOfAre ==
  ASSUME Orderly(Schemas), NEW s \in Schemas, Ref(s) # NULL, NEW d \in DocumentsOf(s)
  PROVE  d \in Schemas /\ d \in Documented /\ Resource[d] = d
BY ShapeOfDocuments, DocumentsAre, PartsAreFellows

------------------------------------------------------------------------------
(* The calls of a thread after each kind of step: those of before, and the *)
(* new ones.                                                               *)
Become(t, new) ==
  \A u \in Threads : \A i \in 1 .. Len(frames'[u]) :
    \/ u = t /\ frames'[u][i] \in new
    \/ i \in 1 .. Len(frames[u]) /\ frames'[u][i] = frames[u][i]

LEMMA TopBecomes ==
  ASSUME Typed, NEW t \in Threads, ~ Idle(t), NEW f, SetTop(t, f)
  PROVE Become(t, {f}) /\ Top(t)' = f /\ ~ Idle(t)'
<1> DEFINE n == Len(frames[t])
           new == [frames[t] EXCEPT ![n] = f]
<1>1. frames \in [Threads -> Seq(FramesOf(Schemas))]
  BY DEF Typed, InPlay
<1>2. frames' = [frames EXCEPT ![t] = new]
  BY DEF SetTop
<1>3. n \in Nat \ {0} /\ DOMAIN frames[t] = 1 .. n
  BY <1>1, TopTyped, LenProperties
<1>4. /\ new \in Seq(FramesOf(Schemas) \cup {f})
      /\ Len(new) = n /\ \A i \in 1 .. n : new[i] = IF i = n THEN f ELSE frames[t][i]
  <2>1. frames[t] \in Seq(FramesOf(Schemas) \cup {f})
    BY <1>1, SeqMonotonic
  <2>2. new \in Seq(FramesOf(Schemas) \cup {f})
    BY <1>3, <2>1, ExceptSeq
  <2>3. DOMAIN new = 1 .. n
    BY <1>3
  <2>4. Len(new) = n
    <3> HIDE DEF new, n
    <3> QED
      BY <1>3, <2>2, <2>3, LenProperties
  <2>5. \A i \in 1 .. n : new[i] = IF i = n THEN f ELSE frames[t][i]
    BY <1>3
  <2> QED
    BY <2>2, <2>4, <2>5
<1> HIDE DEF new
<1>5. frames'[t] = new /\ \A u \in Threads \ {t} : frames'[u] = frames[u]
  BY <1>1, <1>2
<1>6. Become(t, {f})
  <2> SUFFICES ASSUME NEW u \in Threads, NEW i \in 1 .. Len(frames'[u])
               PROVE \/ u = t /\ frames'[u][i] \in {f}
                     \/ i \in 1 .. Len(frames[u]) /\ frames'[u][i] = frames[u][i]
    BY DEF Become
  <2> QED
    BY <1>4, <1>5
<1>7. new # <<>> /\ Last(new) = f
  <2>1. Len(new) # 0
    BY <1>3, <1>4
  <2>2. new # <<>>
    BY <2>1, EmptySeq
  <2> QED
    BY <1>3, <1>4, <2>2, TopIsIn
<1> QED
  BY <1>5, <1>6, <1>7 DEF Top, Idle

LEMMA CallBecomes ==
  ASSUME Typed, NEW t \in Threads, ~ Idle(t), NEW f, NEW g,
         frames' = [frames EXCEPT ![t] = Append(Front(@) \o <<f>>, g)]
  PROVE Become(t, {f, g})
<1> DEFINE S == FramesOf(Schemas) \cup {f, g}
           old == Front(frames[t]) \o <<f>>
           new == Append(old, g)
<1>1. frames \in [Threads -> Seq(FramesOf(Schemas))]
  BY DEF Typed, InPlay
<1>2. frames' = [frames EXCEPT ![t] = new]
  OBVIOUS
<1>3. frames[t] \in Seq(S) /\ frames[t] # <<>>
  BY <1>1, SeqMonotonic DEF Idle
<1> HIDE DEF S
<1>4. /\ Front(frames[t]) \in Seq(S) /\ Len(Front(frames[t])) = Len(frames[t]) - 1
      /\ \A i \in 1 .. Len(frames[t]) - 1 : Front(frames[t])[i] = frames[t][i]
      /\ Len(frames[t]) \in Nat \ {0}
  BY <1>3, Popped, TopIsIn DEF Front
<1>5. f \in S /\ g \in S
  BY DEF S
<1>6. /\ old \in Seq(S) /\ Len(old) = Len(frames[t])
      /\ \A i \in 1 .. Len(frames[t]) : old[i] = IF i = Len(frames[t]) THEN f ELSE frames[t][i]
  <2>1. <<f>> \in Seq(S) /\ Len(<<f>>) = 1 /\ <<f>>[1] = f
    BY <1>5
  <2>2. Len(Front(frames[t])) + 1 = Len(frames[t])
    BY <1>4
  <2>3. /\ old \in Seq(S)
        /\ Len(old) = Len(Front(frames[t])) + Len(<<f>>)
        /\ \A i \in 1 .. Len(Front(frames[t])) + Len(<<f>>) :
             old[i] =
               IF i <= Len(Front(frames[t])) THEN Front(frames[t])[i]
               ELSE <<f>>[i - Len(Front(frames[t]))]
    BY <1>4, <2>1, ConcatProperties
  <2> QED
    BY <1>4, <2>1, <2>2, <2>3
<1>7. /\ Len(new) = Len(frames[t]) + 1
      /\ \A i \in 1 .. Len(frames[t]) : new[i] = old[i]
      /\ new[Len(frames[t]) + 1] = g
  <2> HIDE DEF old
  <2> QED
    BY <1>5, <1>6, AppendProperties
<1> HIDE DEF new, old
<1> SUFFICES ASSUME NEW u \in Threads, NEW i \in 1 .. Len(frames'[u])
             PROVE \/ u = t /\ frames'[u][i] \in {f, g}
                   \/ i \in 1 .. Len(frames[u]) /\ frames'[u][i] = frames[u][i]
  BY DEF Become
<1>8. CASE u = t
  <2>1. frames'[u] = new /\ i \in 1 .. Len(frames[t]) + 1
    BY <1>1, <1>2, <1>7, <1>8
  <2>2. new[i] = f \/ new[i] = g \/ (i \in 1 .. Len(frames[t]) /\ new[i] = frames[t][i])
    BY <1>4, <1>6, <1>7, <2>1
  <2> QED
    BY <1>8, <2>1, <2>2
<1>9. CASE u # t
  BY <1>1, <1>2, <1>9
<1> QED
  BY <1>8, <1>9

LEMMA ReturnBecomes ==
  ASSUME Typed, NEW t \in Threads, ~ Idle(t), frames' = [frames EXCEPT ![t] = Front(@)]
  PROVE Become(t, {})
<1>1. frames \in [Threads -> Seq(FramesOf(Schemas))]
  BY DEF Typed, InPlay
<1>2. /\ Len(Front(frames[t])) = Len(frames[t]) - 1
      /\ \A i \in 1 .. Len(frames[t]) - 1 : Front(frames[t])[i] = frames[t][i]
      /\ Len(frames[t]) \in Nat \ {0}
  BY <1>1, Popped, TopIsIn DEF Front, Idle
<1>3. frames'[t] = Front(frames[t]) /\ \A u \in Threads \ {t} : frames'[u] = frames[u]
  BY <1>1
<1> QED
  BY <1>2, <1>3 DEF Become

LEMMA ThrowBecomes ==
  ASSUME Typed, NEW t \in Threads, frames' = [frames EXCEPT ![t] = <<>>]
  PROVE Become(t, {})
<1>1. frames \in [Threads -> Seq(FramesOf(Schemas))]
  BY DEF Typed, InPlay
<1>2. frames'[t] = <<>> /\ \A u \in Threads \ {t} : frames'[u] = frames[u]
  BY <1>1
<1>3. Len(frames'[t]) = 0
  BY <1>2
<1> QED
  BY <1>2, <1>3 DEF Become

LEMMA FitAfter ==
  ASSUME FramesFit, NEW t \in Threads, NEW new, Become(t, new), \A f \in new : Fits(f)
  PROVE FramesFit'
<1> SUFFICES ASSUME NEW u \in Threads, NEW i \in 1 .. Len(frames'[u])
             PROVE Fits(frames'[u][i])
  BY DEF FramesFit, Fits, PlacedAt
<1> QED
  BY DEF FramesFit, Become

LEMMA FitWithTop ==
  ASSUME Typed, FramesFit, NEW t \in Threads, ~ Idle(t), NEW f, SetTop(t, f), Fits(f)
  PROVE FramesFit'
<1>1. Become(t, {f})
  BY TopBecomes
<1>2. \A h \in {f} : Fits(h)
  OBVIOUS
<1> QED
  BY <1>1, <1>2, FitAfter

LEMMA FitWithCall ==
  ASSUME Typed, FramesFit, NEW t \in Threads, ~ Idle(t), NEW f, NEW g,
         frames' = [frames EXCEPT ![t] = Append(Front(@) \o <<f>>, g)], Fits(f), Fits(g)
  PROVE FramesFit'
<1>1. Become(t, {f, g})
  BY CallBecomes
<1>2. \A h \in {f, g} : Fits(h)
  OBVIOUS
<1> QED
  BY <1>1, <1>2, FitAfter

LEMMA FitReturned ==
  ASSUME Typed, FramesFit, NEW t \in Threads, ~ Idle(t),
         frames' = [frames EXCEPT ![t] = Front(@)]
  PROVE FramesFit'
<1>1. Become(t, {})
  BY ReturnBecomes
<1>2. \A h \in {} : Fits(h)
  OBVIOUS
<1> QED
  BY <1>1, <1>2, FitAfter

LEMMA FitThrown ==
  ASSUME Typed, FramesFit, NEW t \in Threads, frames' = [frames EXCEPT ![t] = <<>>]
  PROVE FramesFit'
<1>1. Become(t, {})
  BY ThrowBecomes
<1>2. \A h \in {} : Fits(h)
  OBVIOUS
<1> QED
  BY <1>1, <1>2, FitAfter

LEMMA FitSame ==
  ASSUME FramesFit, UNCHANGED frames
  PROVE FramesFit'
BY DEF FramesFit, Fits, PlacedAt

LEMMA NewFits ==
  ASSUME Orderly(Schemas), NEW s \in Schemas, NEW r, NEW b, NEW i,
         b = NULL => r = Resource[s], b # NULL => PlacedAt(b, s)
  PROVE Fits(Frame(s, r, b, i))
<1>1. <<s>> \in Seq(Fellows(s))
  BY PartsAreFellows
<1> QED
  BY <1>1 DEF Frame, Fits

LEMMA TopFits ==
  ASSUME Typed, FramesFit, NEW t \in Threads, ~ Idle(t)
  PROVE  /\ Top(t) \in FramesOf(Schemas)
         /\ Top(t).schema \in Schemas
         /\ Fits(Top(t))
<1>1. frames \in [Threads -> Seq(FramesOf(Schemas))]
  BY DEF Typed, InPlay
<1>2. Len(frames[t]) \in Nat \ {0} /\ Top(t) = frames[t][Len(frames[t])]
  BY <1>1, TopIsIn DEF Top, Idle
<1>3. Top(t) \in FramesOf(Schemas)
  BY <1>1, TopTyped
<1> QED
  BY <1>2, <1>3 DEF FramesFit, FramesOf

------------------------------------------------------------------------------
(* The id of a meta-schema, which ends in '#', is taken for a local name,  *)
(* but no reference asks for it.                                           *)
LEMMA NoNameToRegister ==
  ASSUME Orderly(Schemas), NEW s \in Schemas
  PROVE (\A k \in LocalNames(s) : TrimEnd(k) # k) /\ PathAfterLocal(s) = documentPath
<1>1. Schema[s].anchor = NULL
  BY DEF Orderly
<1>2. Id(s) = NULL => LocalNames(s) = {}
  BY <1>1 DEF LocalNames
<1> QED
  BY <1>1, <1>2, IdPlaced DEF PathAfterLocal

LEMMA NoNameIsFound ==
  ASSUME NoLocalNames, NEW t \in Threads, NEW a \in Addresses
  PROVE Found(local[t], TrimEnd(a)) = NULL
BY TrimEndKeeps DEF NoLocalNames, Found

LEMMA NoLocalNamesStep ==
  ASSUME Orderly(Schemas), Typed, NoLocalNames, [Next]_vars
  PROVE NoLocalNames'
<1>1. DOMAIN local = Threads
  BY DEF Typed
<1>2. ASSUME NEW t \in Threads, NEW s \in Schemas, RegisterLocal(t, s)
      PROVE NoLocalNames'
  <2> DEFINE names == LocalNames(s)
             new == [k \in DOMAIN local[t] \cup names |->
                       IF k \in names THEN s ELSE local[t][k]]
  <2>1. local' = [local EXCEPT ![t] = new]
    BY <1>2 DEF RegisterLocal
  <2>2. \A k \in DOMAIN new : TrimEnd(k) # k
    <3>1. \A k \in names : TrimEnd(k) # k
      BY NoNameToRegister
    <3>2. \A k \in DOMAIN local[t] : TrimEnd(k) # k
      BY DEF NoLocalNames
    <3> HIDE DEF names
    <3> QED
      BY <3>1, <3>2
  <2> HIDE DEF new
  <2> QED
    BY <1>1, <2>1, <2>2 DEF NoLocalNames
<1>3. ASSUME NEW t \in Threads, local' = [local EXCEPT ![t] = Empty]
      PROVE NoLocalNames'
  BY <1>1, <1>3, EmptyIn DEF NoLocalNames
<1>4. ASSUME UNCHANGED local PROVE NoLocalNames'
  BY <1>4 DEF NoLocalNames
<1> QED
  BY <1>2, <1>3, <1>4, LocalChanges

LEMMA PutIsDocument ==
  ASSUME NEW a, NEW s, PutAt(a, s)
  PROVE \E u \in Uris : a = At(u) /\ TrimEnd(a) = At(u) /\ s \in Documents(u)
BY MetaSchemasHaveIds, AtIsAddress DEF Documents

LEMMA AnswersStep ==
  ASSUME Orderly(Schemas), Typed, PathsPlaced, Answers, [Next]_vars
  PROVE Answers'
<1>1. CASE Reads
  BY <1>1 DEF Reads, Answers
<1>2. CASE Removes
  <2>1. ASSUME NEW a \in DOMAIN BuiltIn
        PROVE \E u \in Uris : TrimEnd(a) = At(u) /\ BuiltIn[a] \in Documents(u)
    BY PutIsDocument DEF PutAt
  <2> QED
    BY <1>2, <2>1 DEF Removes, Answers
<1>3. ASSUME NEW s \in Roots, RegistersRoot(s)
      PROVE Answers'
  <2>1. s \in Schemas /\ Resource[s] = s
    BY DocumentShape DEF Orderly, Documented
  <2>2. PICK u \in Uris : TrimEnd(DocumentPath(s)) = At(u) /\ s \in Documents(u)
    BY <1>3, <2>1, PathPlaced DEF PlacedAt, RegistersRoot
  <2> QED
    BY <1>3, <2>2 DEF RegistersRoot, Answers, With
<1>4. ASSUME NEW u \in Uris, Loads(u)
      PROVE Answers'
  <2>1. lookup' = With(lookup, At(u), Got(u))
    BY <1>4 DEF Loads, Get
  <2>2. Got(u) \in Documents(u)
    BY <1>4, DownloadTyped DEF Loads, Documents, Range
  <2> QED
    BY <2>1, <2>2, AtIsAddress DEF Answers, With
<1>5. ASSUME NEW s \in Schemas, NEW a \in Addresses, RegistersItself(s, a)
      PROVE Answers'
  <2>1. a = Id(s) /\ PlacedAt(Id(s), s) /\ Resource[s] = s
    BY <1>5, IdPlaced DEF RegistersItself
  <2> QED
    BY <1>5, <2>1 DEF RegistersItself, PlacedAt, Answers, With
<1> QED
  BY <1>1, <1>2, <1>3, <1>4, <1>5, StepHappens DEF Happens

(* What a URI answers with is one of its documents.                        *)
LEMMA GotIsDocument ==
  ASSUME Typed, Answers, NEW u \in Uris, Got(u) # NULL
  PROVE Got(u) \in Documents(u)
<1>1. CASE Downloads(u)
  BY <1>1, DownloadTyped DEF Documents, Range
<1>2. CASE ~ Downloads(u)
  <2>1. Got(u) = Found(lookup, At(u))
    BY <1>2, AtIsAddress DEF Got, Registered
  <2>2. At(u) \in DOMAIN lookup /\ Got(u) = lookup[At(u)]
    BY <2>1 DEF Found
  <2> QED
    BY <2>2, AtIsInjective, AtIsAddress DEF Answers
<1> QED
  BY <1>1, <1>2

(* What ResolveTarget makes of the path of a subschema.                    *)
LEMMA TargetPlaced ==
  ASSUME Orderly(Schemas), Typed, Fresh, PathsPlaced, LoadedPlaced, NEW f,
         f.schema \in Schemas, Fits(f), RefFits(f.schema), NEW root,
         root = resolvedRoot[f.schema], root # NULL, NEW sub,
         sub = ResolveSubschema(root, Ref(f.schema)), sub # NULL
  PROVE  /\ root \in Schemas /\ sub \in Schemas
         /\ Resource[root] = root /\ Resource[sub] = root
         /\ BaseOf(root, f.base) # NULL => PlacedAt(BaseOf(root, f.base), sub)
         /\ DocumentPath(sub) # NULL => PlacedAt(DocumentPath(sub), sub)
<1> DEFINE s == f.schema
<1>1. Ref(s) # NULL /\ root \in DocumentsOf(s)
  BY DEF RefFits
<1>2. root \in Schemas /\ Resource[root] = root
  BY <1>1, DocumentsOfAre
<1>3. sub \in Schemas /\ Resource[sub] = root
  <2>1. PICK i \in DOMAIN Schema[root].subschemas : sub = Schema[root].subschemas[i].schema
    BY <1>2, SubschemaIn, SchemasAreClosed
  <2> QED
    BY <1>2, <2>1, SchemasAreClosed DEF Closed, Orderly
<1>4. root \notin Awaited
  BY DEF Fresh, InPlay
<1>5. ASSUME BaseOf(root, f.base) # NULL
      PROVE PlacedAt(BaseOf(root, f.base), root)
  <2>1. CASE Id(root) # NULL
    BY <1>2, <2>1, IdPlaced DEF BaseOf
  <2>2. CASE Id(root) = NULL /\ DocumentPath(root) # NULL
    BY <1>2, <2>2, PathPlaced DEF BaseOf
  <2>3. CASE Id(root) = NULL /\ DocumentPath(root) = NULL
    <3>1. f.base # NULL /\ PlacedAt(f.base, s)
      BY <1>5, <2>3 DEF BaseOf, Fits
    <3>2. PICK v \in Uris : Resource[s] \in Documents(v)
      BY <3>1 DEF PlacedAt
    <3>3. PICK u \in Uris : root \in Documents(u)
      BY <1>1, <3>2, ShapeOfDocuments
    <3>4. DocumentPath(root) # NULL
      BY <1>4, <3>3, PathOfDocument
    <3> QED
      BY <2>3, <3>4
  <2> QED
    BY <2>1, <2>2, <2>3
<1>6. BaseOf(root, f.base) # NULL => PlacedAt(BaseOf(root, f.base), sub)
  BY <1>2, <1>3, <1>5, PlacedTogether
<1> QED
  BY <1>2, <1>3, <1>6, PathPlaced

(* A path changes when the id is read for it, when the schema is           *)
(* downloaded, and when it is resolved.                                    *)
LEMMA PathChanges ==
  ASSUME Orderly(Schemas), Typed, [Next]_vars
  PROVE  \/ \A s \in Schemas : documentPath'[s] \in {documentPath[s], Id(s)}
         \/ \E u \in Uris : Loads(u)
         \/ \E t \in Threads : ResolveTarget(t)
<1> DEFINE Quiet == \A s \in Schemas : documentPath'[s] \in {documentPath[s], Id(s)}
<1>1. ASSUME NEW x \in Schemas, documentPath' \in {documentPath, PathRead(x), PathAfterLocal(x)}
      PROVE Quiet
  BY <1>1, PathTyped, NoNameToRegister DEF DocumentPath
<1>2. ASSUME UNCHANGED documentPath PROVE Quiet
  BY <1>2
<1>3. ASSUME NEW u \in Uris, Get(u), UNCHANGED removed
      PROVE Quiet \/ Loads(u)
  BY <1>2, <1>3 DEF Get, Loads
<1>4. ASSUME NEW t \in Threads, Call(t)
      PROVE Quiet \/ \E u \in Uris : Loads(u)
  <2>1. Roots \subseteq Schemas
    BY DocumentShape
  <2> HIDE DEF Quiet
  <2> QED
    BY <1>1, <1>2, <1>3, <1>4, <2>1 DEF Call, Validate, Register, Unregister, UnregisterAt, Clear,
       Fetch, schemaVars
<1>5. ASSUME NEW t \in Threads, Proceed(t)
      PROVE Quiet \/ (\E u \in Uris : Loads(u)) \/ ResolveTarget(t)
  <2> DEFINE f == Top(t)
  <2>1. CASE Pass(t) \/ Mark(t) \/ PropertiesKeyword(t) \/ Return(t)
    <3>1. UNCHANGED documentPath
      BY <2>1 DEF Pass, Mark, PropertiesKeyword, Return, schemaVars
    <3> QED
      BY <1>2, <3>1
  <2>2. CASE RegisterSubschemas(t)
    <3> DEFINE s == Head(f.todo)
    <3>1. ~ Idle(t) /\ f.stage = "registering"
      BY <2>2 DEF RegisterSubschemas
    <3>2. f \in FramesOf(Schemas)
      BY <3>1, TopTyped DEF Typed, InPlay
    <3>3. s \in Schemas /\ f.base \in Addresses \cup {NULL}
      BY <3>1, <3>2, HeadTailProperties DEF FramesOf, Suits
    <3>4. PathAfterLocal(s) = documentPath
      BY <3>3, NoNameToRegister
    <3>5. Registers(f, s) => Address(f, s) = Id(s)
      <4>1. Registers(f, s) => Id(s) # NULL
        BY DEF Registers, Address
      <4>2. Id(s) # NULL => Id(s) \in Addresses /\ IsAbsolute(Id(s))
        BY <3>3, IdPlaced, SchemaTypes
      <4>3. f.base # NULL /\ Id(s) # NULL => Join(f.base, Id(s)) = Id(s)
        BY <3>3, <4>2, JoinTyped
      <4> QED
        BY <4>1, <4>3 DEF Address
    <3>6. documentPath' = documentPath \/ documentPath' = [documentPath EXCEPT ![s] = Id(s)]
      BY <2>2, <3>4, <3>5 DEF RegisterSubschemas
    <3> HIDE DEF s
    <3> QED
      BY <3>3, <3>6 DEF Typed
  <2>3. CASE Begin(t)
    <3>1. f.schema \in Schemas
      BY <2>3, TopTyped DEF Begin, Typed, InPlay, FramesOf
    <3>2. documentPath' \in {PathRead(f.schema), PathAfterLocal(f.schema)}
      BY <2>3 DEF Begin
    <3> HIDE DEF Quiet
    <3> QED
      BY <1>1, <3>1, <3>2
  <2>4. CASE RefKeyword(t)
    <3>1. f.schema \in Schemas
      BY <2>4, TopTyped DEF RefKeyword, Typed, InPlay, FramesOf
    <3>2. resolvedRoot[f.schema] \in Schemas \cup {NULL}
      BY <3>1 DEF Typed, InPlay
    <3>3. documentPath' = IF resolvedRoot[f.schema] = NULL THEN documentPath
                          ELSE PathRead(resolvedRoot[f.schema])
      BY <2>4 DEF RefKeyword
    <3> HIDE DEF Quiet
    <3> QED
      BY <1>1, <1>2, <3>2, <3>3
  <2>5. CASE ResolveRoot(t)
    <3> DEFINE address == IF Ref(f.schema).uri # NULL \/ f.base = NULL THEN Ref(f.schema).uri
                          ELSE f.base.uri
    <3>1. f \in FramesOf(Schemas) /\ 0 \in f.left
      BY <2>5, TopTyped DEF ResolveRoot, Typed, InPlay
    <3>2. address \in Uris \cup {NULL}
      BY <3>1, RootAddress
    <3>3. UNCHANGED removed /\ (UNCHANGED documentPath \/ (address # NULL /\ Get(address)))
      BY <2>5 DEF ResolveRoot
    <3> HIDE DEF address, Quiet
    <3> QED
      BY <1>2, <1>3, <3>2, <3>3
  <2> QED
    BY <1>5, <2>1, <2>2, <2>3, <2>4, <2>5 DEF Proceed
<1>6. CASE UNCHANGED vars
  BY <1>6 DEF vars, schemaVars
<1> QED
  BY <1>4, <1>5, <1>6 DEF Next

------------------------------------------------------------------------------
(* A reference to the whole of a document stands for the document.         *)
LEMMA WholeIsTrimmed ==
  ASSUME NEW a \in Addresses, ~ IsPointer(a), ~ IsLocalSchemaId(TrimEnd(a))
  PROVE TrimEnd(a).frag = <<>>
<1>1. CASE a.frag = <<"#">>
  <2>1. TrimEnd(a) = At(a.uri)
    BY <1>1 DEF TrimEnd
  <2> QED
    BY <2>1, AddressIsRecord, AtIsAddress
<1>2. CASE a.frag # <<"#">>
  <2>1. TrimEnd(a) = a
    BY <1>2 DEF TrimEnd
  <2> QED
    BY <1>2, <2>1 DEF IsPointer, IsLocalSchemaId
<1> QED
  BY <1>1, <1>2

LEMMA OnlyPointersFind ==
  ASSUME NEW root, NEW ref, ~ IsPointer(ref)
  PROVE ResolveSubschema(root, ref) = NULL
<1>1. {i \in DOMAIN Schema[root].subschemas :
        IsPointer(ref) /\ Schema[root].subschemas[i].at = Tail(ref.frag)} = {}
  OBVIOUS
<1> QED
  BY <1>1, Zenon DEF ResolveSubschema

LEMMA WholeDesignated ==
  ASSUME NEW s \in Schemas, Ref(s) # NULL, TrimEnd(Ref(s)).frag = <<>>
  PROVE Designated[s] = DocumentsOf(s)
<1>1. ~ IsPointer(Ref(s))
  <2>1. Ref(s).frag = <<"#">> \/ Ref(s).frag = <<>>
    BY DEF TrimEnd
  <2>2. <<"#">>[1] # "#/"
    OBVIOUS
  <2> QED
    BY <2>1, <2>2 DEF IsPointer
<1> QED
  BY <1>1 DEF Designated

LEMMA PathsPlacedStep ==
  ASSUME Orderly(Schemas), Typed, Fresh, Tracked, [Next]_vars
  PROVE PathsPlaced'
<1> SUFFICES ASSUME NEW s \in Schemas, documentPath'[s] # NULL
             PROVE PlacedAt(documentPath'[s], s)
  BY DEF PathsPlaced, PlacedAt
<1>1. documentPath \in [Schemas -> Addresses \cup {NULL}] /\ PathsPlaced
  BY DEF Typed, Tracked
<1>2. documentPath'[s] \in {documentPath[s], Id(s)} => PlacedAt(documentPath'[s], s)
  BY <1>1, IdPlaced DEF PathsPlaced
<1>3. ASSUME NEW u \in Uris, Loads(u)
      PROVE PlacedAt(documentPath'[s], s)
  <2>1. documentPath' = [documentPath EXCEPT ![Got(u)] = At(u)]
    BY <1>3 DEF Loads, Get
  <2>2. Got(u) \in Documents(u) /\ Resource[Got(u)] = Got(u)
    BY <1>3, DownloadTyped, DocumentsAre DEF Loads, Documents, Range
  <2>3. PlacedAt(At(u), Got(u))
    BY <2>2, AtIsAddress DEF PlacedAt
  <2> QED
    BY <1>1, <1>2, <2>1, <2>3
<1>4. ASSUME NEW t \in Threads, ResolveTarget(t)
      PROVE PlacedAt(documentPath'[s], s)
  <2> DEFINE f == Top(t)
             root == resolvedRoot[f.schema]
             sub == ResolveSubschema(root, Ref(f.schema))
             base == BaseOf(root, f.base)
             path == DocumentPath(sub)
  <2>1. f.schema \in Schemas /\ Fits(f) /\ RefFits(f.schema)
    BY <1>4, TopFits DEF ResolveTarget, Tracked
  <2>2. CASE UNCHANGED documentPath
    BY <1>2, <2>2
  <2>3. CASE root # NULL /\ documentPath' = PathRead(root)
    <3>1. root \in Schemas
      BY <2>1, <2>3 DEF Typed, InPlay
    <3>2. documentPath'[s] \in {documentPath[s], Id(s)}
      BY <2>3, <3>1, PathTyped DEF DocumentPath
    <3> QED
      BY <1>2, <3>2
  <2>4. CASE /\ root # NULL /\ sub # NULL
             /\ \/ documentPath' = [PathRead(root) EXCEPT ![sub] = path]
                \/ /\ path = NULL \/ (base # NULL /\ IsAbsolute(base))
                   /\ documentPath' = [PathRead(root) EXCEPT ![sub] =
                                         IF path = NULL THEN base ELSE Join(base, path)]
    <3>1. /\ root \in Schemas /\ sub \in Schemas
          /\ base # NULL => PlacedAt(base, sub)
          /\ path # NULL => PlacedAt(path, sub)
      BY <2>1, <2>4, TargetPlaced DEF Tracked
    <3>2. PICK p : /\ documentPath' = [PathRead(root) EXCEPT ![sub] = p]
                   /\ p # NULL => PlacedAt(p, sub)
      <4>1. path # NULL /\ base # NULL => Join(base, path) = path
        BY <3>1, PlacedIsAddress, JoinTyped
      <4> HIDE DEF root, sub, base, path
      <4> QED
        BY <2>4, <3>1, <4>1
    <3>3. /\ PathRead(root) \in [Schemas -> Addresses \cup {NULL}]
          /\ PathRead(root)[s] \in {documentPath[s], DocumentPath(s)}
      BY <3>1, PathTyped
    <3>4. documentPath'[s] = p \/ documentPath'[s] \in {documentPath[s], Id(s)}
      <4> HIDE DEF root, sub
      <4> QED
        BY <3>1, <3>2, <3>3 DEF DocumentPath
    <3>5. s # sub => documentPath'[s] \in {documentPath[s], Id(s)}
      <4> HIDE DEF root, sub
      <4> QED
        BY <3>1, <3>2, <3>3 DEF DocumentPath
    <3>6. documentPath'[sub] = p
      <4> HIDE DEF root, sub
      <4> QED
        BY <3>1, <3>2, <3>3
    <3> QED
      BY <1>2, <3>2, <3>5, <3>6
  <2> QED
    BY <1>4, <2>2, <2>3, <2>4 DEF ResolveTarget
<1> QED
  BY <1>2, <1>3, <1>4, PathChanges

LEMMA LoadedPlacedStep ==
  ASSUME Typed, LoadedPlaced, [Next]_vars
  PROVE LoadedPlaced'
<1>1. /\ documentPath \in [Schemas -> Addresses \cup {NULL}]
      /\ fetched \in [Uris -> Nat]
      /\ \A u \in Uris : \A k \in DOMAIN Online[u] :
           k \in Nat /\ Online[u][k] \in Schemas /\ Online[u][k] \in Documented
  <2>1. ASSUME NEW u \in Uris, NEW k \in DOMAIN Online[u]
        PROVE k \in Nat /\ Online[u][k] \in Schemas /\ Online[u][k] \in Documented
    <3>1. Online[u] \in Seq(Schemas)
      BY DocumentShape
    <3>2. k \in 1 .. Len(Online[u]) /\ Len(Online[u]) \in Nat
      BY <3>1, LenProperties
    <3> QED
      BY <3>1, <3>2, ElementOfSeq DEF Documented, Range
  <2> QED
    BY <2>1 DEF Typed
<1>2. PathsRead => \A d \in Documented \cap Schemas : documentPath[d] # NULL => documentPath'[d] # NULL
  BY DEF PathsRead
<1>3. ASSUME UNCHANGED fetched,
             \A d \in Documented \cap Schemas : documentPath[d] # NULL => documentPath'[d] # NULL
      PROVE LoadedPlaced'
  BY <1>1, <1>3 DEF LoadedPlaced
<1>4. CASE Reads \/ Removes
  BY <1>2, <1>3, <1>4 DEF Reads, Removes
<1>5. ASSUME NEW s \in Roots, RegistersRoot(s)
      PROVE LoadedPlaced'
  BY <1>1, <1>3, <1>5 DEF RegistersRoot, PathRead
<1>6. ASSUME NEW s \in Schemas, NEW a \in Addresses, RegistersItself(s, a)
      PROVE LoadedPlaced'
  BY <1>1, <1>3, <1>6, NullIsNothing DEF RegistersItself
<1>7. ASSUME NEW u \in Uris, Loads(u)
      PROVE LoadedPlaced'
  <2>1. /\ fetched' = [fetched EXCEPT ![u] = @ + 1]
        /\ documentPath' = [documentPath EXCEPT ![Got(u)] = At(u)]
        /\ Got(u) \in Schemas /\ Got(u) = Online[u][fetched[u] + 1]
    BY <1>7, DownloadTyped DEF Loads, Get
  <2> SUFFICES ASSUME NEW v \in Uris, NEW k \in DOMAIN Online[v], k <= fetched'[v]
               PROVE documentPath'[Online[v][k]] # NULL
    BY DEF LoadedPlaced
  <2>2. CASE Online[v][k] = Got(u)
    BY <1>1, <2>1, <2>2, AtIsInjective
  <2>3. CASE Online[v][k] # Got(u)
    <3>1. k <= fetched[v]
      BY <1>1, <2>1, <2>3
    <3> QED
      BY <1>1, <2>1, <2>3, <3>1 DEF LoadedPlaced
  <2> QED
    BY <2>2, <2>3
<1> QED
  BY <1>4, <1>5, <1>6, <1>7, StepHappens DEF Happens

------------------------------------------------------------------------------
LEMMA RefsStep ==
  ASSUME Orderly(Schemas), Typed, Tracked, [Next]_vars, NEW x \in Schemas
  PROVE RefFits(x)'
<1>0. /\ resolved \in [Schemas -> Schemas \cup {NULL}]
      /\ resolvedRoot \in [Schemas -> Schemas \cup {NULL}]
      /\ RefFits(x)
  BY DEF Typed, InPlay, Tracked
<1>1. ASSUME resolved'[x] = resolved[x], resolvedRoot'[x] = resolvedRoot[x]
      PROVE RefFits(x)'
  BY <1>0, <1>1 DEF RefFits
<1>2. ASSUME NEW t \in Threads, ResolveRoot(t)
      PROVE RefFits(x)'
  <2> DEFINE f == Top(t)
             s == f.schema
             known == IF IsLocalSchemaId(Ref(s)) THEN Found(local[t], TrimEnd(Ref(s))) ELSE NULL
             address == IF Ref(s).uri # NULL \/ f.base = NULL THEN Ref(s).uri ELSE f.base.uri
  <2>1. f \in FramesOf(Schemas) /\ s \in Schemas /\ Fits(f)
    BY <1>2, TopFits DEF ResolveRoot, Tracked
  <2>2. 0 \in f.left /\ Ref(s) # NULL
    BY <1>2, <2>1 DEF ResolveRoot, FramesOf, Suits
  <2>3. address \in Uris \cup {NULL}
    BY <2>1, <2>2, RootAddress
  <2>4. known = NULL
    BY <2>1, <2>2, SchemaTypes, NoNameIsFound DEF Tracked
  <2>5. PICK r : /\ resolved[s] = NULL /\ UNCHANGED resolved
                 /\ resolvedRoot' = [resolvedRoot EXCEPT ![s] = r]
                 /\ \/ address # NULL /\ r = Got(address)
                    \/ address = NULL /\ r = f.root
    BY <1>2, <2>4 DEF ResolveRoot
  <2>6. ASSUME r # NULL PROVE r \in DocumentsOf(s)
    <3>1. CASE Ref(s).uri # NULL
      <4>1. address = Ref(s).uri /\ address \in Uris
        BY <2>3, <3>1
      <4>2. r \in Documents(address)
        BY <2>5, <2>6, <3>1, <4>1, GotIsDocument DEF Tracked
      <4> QED
        BY <3>1, <4>1, <4>2 DEF DocumentsOf
    <3>2. CASE Ref(s).uri = NULL /\ f.base # NULL
      <4>1. address = f.base.uri /\ f.base.uri \in Uris /\ Resource[s] \in Documents(f.base.uri)
        BY <2>1, <3>2, PlacedIsAddress DEF Fits
      <4>2. r \in Documents(f.base.uri)
        BY <2>5, <2>6, <4>1, NullIsNothing, GotIsDocument DEF Tracked
      <4> QED
        BY <3>2, <4>1, <4>2 DEF DocumentsOf
    <3>3. CASE Ref(s).uri = NULL /\ f.base = NULL
      <4>1. r = Resource[s]
        BY <2>1, <2>5, <3>3 DEF Fits
      <4> QED
        BY <3>3, <4>1 DEF DocumentsOf
    <3> QED
      BY <3>1, <3>2, <3>3
  <2> HIDE DEF s, f, known, address
  <2>7. CASE x = s
    <3>1. resolved'[x] = NULL /\ resolvedRoot'[x] = r
      BY <1>0, <2>5, <2>7
    <3> QED
      BY <2>2, <2>6, <2>7, <3>1 DEF RefFits, DocumentsOf, Documents
  <2>8. CASE x # s
    BY <1>0, <1>1, <2>5, <2>8
  <2> QED
    BY <2>7, <2>8
<1>3. ASSUME NEW t \in Threads, ResolveTarget(t)
      PROVE RefFits(x)'
  <2> DEFINE f == Top(t)
             s == f.schema
             root == resolvedRoot[s]
             sub == ResolveSubschema(root, Ref(s))
             whole == ~ IsPointer(Ref(s)) /\ ~ IsLocalSchemaId(TrimEnd(Ref(s)))
  <2>1. s \in Schemas /\ RefFits(s)
    BY <1>3, TopFits DEF ResolveTarget, Tracked
  <2>2. UNCHANGED resolvedRoot
    BY <1>3 DEF ResolveTarget
  <2>3. PICK r : /\ UNCHANGED resolved \/ resolved' = [resolved EXCEPT ![s] = r]
                 /\ r # NULL =>
                      /\ root # NULL
                      /\ \/ r = Registered(Ref(s))
                         \/ r = root /\ whole
                         \/ r = sub
    BY <1>3 DEF ResolveTarget
  <2>4. ASSUME r # NULL
        PROVE /\ Ref(s) # NULL /\ root # NULL
              /\ Resource[r] \in DocumentsOf(s)
              /\ r \in Designated[s]
    <3>1. root # NULL /\ Ref(s) # NULL /\ root \in DocumentsOf(s) /\ Ref(s) \in Addresses
      BY <2>1, <2>3, <2>4, SchemaTypes DEF RefFits
    <3>2. CASE r = Registered(Ref(s))
      <4>1. TrimEnd(Ref(s)) \in DOMAIN lookup /\ r = lookup[TrimEnd(Ref(s))]
        BY <2>4, <3>2 DEF Registered, Found
      <4>2. PICK u \in Uris : TrimEnd(Ref(s)) = At(u) /\ r \in Documents(u)
        BY <3>1, <4>1, TrimEndKeeps DEF Tracked, Answers
      <4>3. Ref(s).uri = u /\ TrimEnd(Ref(s)).frag = <<>>
        BY <3>1, <4>2, TrimEndTyped, AtIsAddress
      <4>4. r \in DocumentsOf(s)
        BY <4>2, <4>3, NullIsNothing DEF DocumentsOf
      <4> QED
        BY <2>1, <3>1, <4>3, <4>4, DocumentsOfAre, WholeDesignated
    <3>3. CASE r = root /\ whole
      <4>1. TrimEnd(Ref(s)).frag = <<>>
        BY <3>1, <3>3, WholeIsTrimmed
      <4> QED
        BY <2>1, <3>1, <3>3, <4>1, DocumentsOfAre, WholeDesignated
    <3>4. CASE r = sub
      <4>1. root \in Schemas /\ Resource[root] = root
        BY <2>1, <3>1, DocumentsOfAre
      <4>2. PICK i \in DOMAIN Schema[root].subschemas : sub = Schema[root].subschemas[i].schema
        BY <2>4, <3>4, <4>1, SubschemaIn, SchemasAreClosed
      <4>3. Resource[sub] = root
        BY <4>1, <4>2 DEF Orderly
      <4>4. IsPointer(Ref(s))
        BY <2>4, <3>4, OnlyPointersFind
      <4>5. Designated[s] = {ResolveSubschema(d, Ref(s)) : d \in DocumentsOf(s)} \ {NULL}
        BY <2>1, <3>1, <4>4 DEF Designated
      <4> QED
        BY <2>4, <3>1, <3>4, <4>3, <4>5
    <3> QED
      BY <2>3, <2>4, <3>2, <3>3, <3>4
  <2> HIDE DEF s, f, root, sub, whole
  <2>5. CASE x = s /\ resolved' = [resolved EXCEPT ![s] = r]
    <3>1. resolved'[x] = r /\ resolvedRoot'[x] = resolvedRoot[x]
      BY <1>0, <2>1, <2>2, <2>5
    <3> QED
      BY <1>0, <2>4, <2>5, <3>1 DEF RefFits, root
  <2>6. CASE x # s \/ UNCHANGED resolved
    BY <1>0, <1>1, <2>1, <2>2, <2>3, <2>6
  <2>7. UNCHANGED resolved \/ resolved' = [resolved EXCEPT ![s] = r]
    BY <2>3
  <2> QED
    BY <2>5, <2>6, <2>7
<1> QED
  BY <1>1, <1>2, <1>3, ReferencesChange

------------------------------------------------------------------------------
LEMMA WalkFits ==
  ASSUME Orderly(Schemas), Typed, Tracked, NEW t \in Threads,
         Pass(t) \/ Mark(t) \/ RegisterSubschemas(t)
  PROVE FramesFit'
<1> DEFINE f == Top(t)
           s == Head(f.todo)
<1>1. ~ Idle(t) /\ FramesFit
  BY DEF Pass, Mark, RegisterSubschemas, Tracked
<1>2. f \in FramesOf(Schemas) /\ f.schema \in Schemas /\ Fits(f)
  BY <1>1, TopFits
<1>3. f.todo # <<>>
  BY <1>2 DEF Pass, Mark, RegisterSubschemas, FramesOf, Suits
<1>4. s \in Fellows(f.schema) /\ Tail(f.todo) \in Seq(Fellows(f.schema))
  <2>1. f.todo \in Seq(Fellows(f.schema))
    BY <1>2 DEF Fits
  <2> HIDE DEF f
  <2> QED
    BY <1>3, <2>1, HeadTailProperties
<1>5. CASE Pass(t)
  <2>1. Fits([f EXCEPT !.todo = Tail(@)]) /\ Fits([f EXCEPT !.stage = "marking"])
    <3> HIDE DEF f
    <3> QED
      BY <1>2, <1>4 DEF Fits, FramesOf
  <2>2. SetTop(t, [f EXCEPT !.todo = Tail(@)]) \/ SetTop(t, [f EXCEPT !.stage = "marking"])
    BY <1>5 DEF Pass
  <2> HIDE DEF f
  <2> QED
    BY <1>1, <2>1, <2>2, FitWithTop
<1>6. CASE Mark(t)
  <2>1. Fits([f EXCEPT !.stage = "registering"])
    <3> HIDE DEF f
    <3> QED
      BY <1>2 DEF Fits, FramesOf
  <2>2. SetTop(t, [f EXCEPT !.stage = "registering"])
    BY <1>6 DEF Mark
  <2> HIDE DEF f
  <2> QED
    BY <1>1, <2>1, <2>2, FitWithTop
<1>7. CASE RegisterSubschemas(t)
  <2> DEFINE b == IF Registers(f, s) THEN Address(f, s) ELSE f.base
             g == [f EXCEPT !.stage = "register", !.base = b,
                            !.todo = Subschemas(s) \o Tail(@)]
  <2>1. SetTop(t, g)
    BY <1>7 DEF RegisterSubschemas
  <2>2. s \in Schemas /\ Resource[s] = Resource[f.schema] /\ f.base \in Addresses \cup {NULL}
    BY <1>2, <1>4 DEF Fellows, FramesOf
  <2>3. ASSUME Registers(f, s)
        PROVE PlacedAt(Address(f, s), f.schema) /\ Address(f, s) # NULL
    <3>1. Id(s) # NULL
      BY <2>3 DEF Registers, Address
    <3>2. Id(s) \in Addresses /\ IsAbsolute(Id(s)) /\ PlacedAt(Id(s), s)
      BY <2>2, <3>1, IdPlaced, SchemaTypes
    <3>3. Address(f, s) = Id(s)
      BY <2>2, <3>2, JoinTyped DEF Address
    <3> QED
      BY <1>2, <2>2, <3>1, <3>2, <3>3, PlacedTogether
  <2>4. Subschemas(s) \o Tail(f.todo) \in Seq(Fellows(f.schema))
    <3>1. Subschemas(s) \in Seq(Fellows(f.schema))
      BY <1>2, <1>4, PartsAreFellows, SubschemasAreIn
    <3> HIDE DEF s, f
    <3> QED
      BY <1>4, <3>1, ConcatProperties
  <2>5. (b = NULL => f.root = Resource[f.schema]) /\ (b # NULL => PlacedAt(b, f.schema))
    BY <1>2, <2>3 DEF Fits
  <2>6. Fits(g)
    <3> HIDE DEF b, s, f
    <3> QED
      BY <1>2, <2>4, <2>5 DEF Fits, FramesOf
  <2> HIDE DEF g
  <2> QED
    BY <1>1, <2>1, <2>6, FitWithTop
<1> QED
  BY <1>5, <1>6, <1>7

(* The base with which a call goes on to the keywords.                     *)
LEMMA BaseFits ==
  ASSUME Orderly(Schemas), Typed, PathsPlaced, NEW f \in FramesOf(Schemas), Fits(f)
  PROVE  /\ BaseUri(f) = NULL => f.root = Resource[f.schema]
         /\ BaseUri(f) # NULL => PlacedAt(BaseUri(f), f.schema)
<1> DEFINE path == DocumentPath(f.schema)
           base == IF ~ SetsBase(f) \/ path = NULL THEN f.base
                   ELSE IF f.base = NULL THEN path ELSE Join(f.base, path)
<1>1. f.schema \in Schemas /\ f.base \in Addresses \cup {NULL}
  BY DEF FramesOf
<1>2. path # NULL => PlacedAt(path, f.schema)
  BY <1>1, PathPlaced
<1>3. base \in {f.base, path} /\ (base = NULL => f.base = NULL)
  <2>1. f.base # NULL /\ path # NULL => Join(f.base, path) = path
    BY <1>1, <1>2, PlacedIsAddress, JoinTyped
  <2> HIDE DEF path
  <2> QED
    BY <2>1
<1>4. BaseUri(f) = IF base = NULL THEN NULL ELSE TrimEnd(base)
  BY DEF BaseUri
<1> HIDE DEF base, path
<1>5. base # NULL => PlacedAt(TrimEnd(base), f.schema) /\ TrimEnd(base) # NULL
  BY <1>1, <1>2, <1>3, PlacedTrimmed DEF Fits
<1> QED
  BY <1>3, <1>4, <1>5 DEF Fits

(* RefKeyword goes on from the root it found the schema in: without a path *)
(* it is the document of the schema, and with one the path is the address. *)
LEMMA TargetFits ==
  ASSUME Orderly(Schemas), Typed, Fresh, Tracked, NEW s \in Schemas, resolved[s] # NULL,
         NEW root, root = resolvedRoot[s], NEW target, target = resolved[s], NEW i
  PROVE  root # NULL /\ target \in Schemas /\ Fits(Frame(target, root, DocumentPath(root), i))
<1>1. Ref(s) # NULL /\ root # NULL /\ root \in DocumentsOf(s) /\ Resource[target] \in DocumentsOf(s)
  BY DEF Tracked, RefFits
<1>2. target \in Schemas
  BY DEF Typed, InPlay
<1>3. root \in Schemas /\ Resource[root] = root
  BY <1>1, DocumentsOfAre
<1>4. root \notin Awaited
  BY <1>1 DEF Fresh, InPlay
<1>5. /\ DocumentPath(root) = NULL => root = Resource[target]
      /\ DocumentPath(root) # NULL => PlacedAt(DocumentPath(root), target)
  <2>1. ASSUME NEW u \in Uris, DocumentsOf(s) = Documents(u)
        PROVE DocumentPath(root) # NULL /\ PlacedAt(DocumentPath(root), target)
    <3>1. DocumentPath(root) # NULL /\ TrimEnd(DocumentPath(root)) = At(u)
      BY <1>1, <1>4, <2>1, PathOfDocument DEF Tracked
    <3>2. DocumentPath(root) \in Addresses
      BY <1>3, <3>1, PathTyped
    <3> QED
      BY <1>1, <2>1, <3>1, <3>2 DEF PlacedAt
  <2>2. ASSUME DocumentsOf(s) = {Resource[s]}
        PROVE root = Resource[target] /\ Resource[target] = Resource[root]
    BY <1>1, <1>3, <2>2
  <2>3. CASE \E u \in Uris : DocumentsOf(s) = Documents(u)
    BY <2>1, <2>3
  <2>4. CASE DocumentsOf(s) = {Resource[s]}
    BY <1>2, <1>3, <2>2, <2>4, PathPlaced, PlacedTogether DEF Tracked
  <2> QED
    BY <1>1, <2>3, <2>4, ShapeOfDocuments
<1> QED
  BY <1>1, <1>2, <1>5, NewFits

LEMMA KeywordsFit ==
  ASSUME Orderly(Schemas), Typed, Fresh, Tracked, NEW t \in Threads,
         Begin(t) \/ PropertiesKeyword(t) \/ RefKeyword(t) \/ Return(t)
  PROVE FramesFit'
<1> DEFINE f == Top(t)
<1>1. ~ Idle(t) /\ FramesFit
  BY DEF Begin, PropertiesKeyword, RefKeyword, Return, Tracked
<1>2. f \in FramesOf(Schemas) /\ f.schema \in Schemas /\ Fits(f)
  BY <1>1, TopFits
<1>3. CASE Begin(t)
  <2> DEFINE g == [f EXCEPT !.stage = "keywords", !.base = BaseUri(f), !.left = Keywords(f)]
  <2>1. SetTop(t, g) \/ Throw(t)
    BY <1>3 DEF Begin
  <2>2. Fits(g)
    <3>1. /\ BaseUri(f) = NULL => f.root = Resource[f.schema]
          /\ BaseUri(f) # NULL => PlacedAt(BaseUri(f), f.schema)
      BY <1>2, BaseFits DEF Tracked
    <3> HIDE DEF f
    <3> QED
      BY <1>2, <3>1 DEF Fits, FramesOf
  <2> HIDE DEF g
  <2> QED
    BY <1>1, <2>1, <2>2, FitWithTop, FitThrown DEF Throw
<1>4. CASE PropertiesKeyword(t)
  <2> DEFINE i == Min(f.left)
             g == [f EXCEPT !.left = @ \ {i}]
             x == Subschemas(f.schema)[i]
             h == Frame(x, f.root, f.base, {})
  <2>1. frames' = [frames EXCEPT ![t] = Append(Front(@) \o <<g>>, h)]
    BY <1>4 DEF PropertiesKeyword
  <2>2. Fits(g)
    <3> HIDE DEF i
    <3> QED
      BY <1>2 DEF Fits, FramesOf
  <2>3. i \in f.left
    <3>1. f.left \in SUBSET Nat
      BY <1>2 DEF FramesOf
    <3> QED
      BY <1>4, <3>1, MinIsLeast DEF PropertiesKeyword
  <2>4. i \in DOMAIN Schema[f.schema].subschemas
    BY <1>2, <1>4, <2>3 DEF FramesOf, Suits, PropertiesKeyword
  <2>5. x \in Schemas /\ Resource[x] = Resource[f.schema]
    <3>1. x = Schema[f.schema].subschemas[i].schema
      BY <2>4 DEF Subschemas
    <3> QED
      BY <1>2, <2>4, <3>1, SchemasAreClosed DEF Closed, Orderly
  <2>6. Fits(h)
    <3>1. /\ f.base = NULL => f.root = Resource[x]
          /\ f.base # NULL => PlacedAt(f.base, x)
      BY <1>2, <2>5, PlacedTogether DEF Fits
    <3> HIDE DEF x, f
    <3> QED
      BY <2>5, <3>1, NewFits
  <2> HIDE DEF g, h
  <2> QED
    BY <1>1, <2>1, <2>2, <2>6, FitWithCall
<1>5. CASE RefKeyword(t)
  <2> DEFINE s == f.schema
             root == resolvedRoot[s]
             g == [f EXCEPT !.left = @ \ {0}]
             h == Frame(resolved[s], root, DocumentPath(root), f.instance)
  <2>1. /\ resolved[s] # NULL
        /\ frames' = [frames EXCEPT ![t] =
                        Append(Front(@) \o <<g>>,
                               Frame(resolved[s], IF root = NULL THEN f.root ELSE root, RefBase(f),
                                     f.instance))]
    BY <1>5 DEF RefKeyword
  <2>2. root # NULL /\ Fits(h)
    <3>1. s \in Schemas /\ resolved[s] # NULL
      BY <1>2, <2>1
    <3> HIDE DEF f
    <3> QED
      BY <3>1, TargetFits
  <2>3. frames' = [frames EXCEPT ![t] = Append(Front(@) \o <<g>>, h)]
    BY <2>1, <2>2 DEF RefBase
  <2>4. Fits(g)
    <3> HIDE DEF f
    <3> QED
      BY <1>2 DEF Fits, FramesOf
  <2> HIDE DEF g, h
  <2> QED
    BY <1>1, <2>2, <2>3, <2>4, FitWithCall
<1>6. CASE Return(t)
  BY <1>1, <1>6, FitReturned DEF Return
<1> QED
  BY <1>3, <1>4, <1>5, <1>6

LEMMA FramesFitStep ==
  ASSUME Orderly(Schemas), Typed, Fresh, Tracked, [Next]_vars
  PROVE FramesFit'
<1>1. FramesFit
  BY DEF Tracked
<1>2. ASSUME NEW t \in Threads, Call(t)
      PROVE FramesFit'
  <2>1. CASE UNCHANGED frames
    BY <1>1, <2>1, FitSame
  <2>2. ASSUME NEW s \in Roots, NEW i \in Instances, Validate(t, s, i)
        PROVE FramesFit'
    <3>1. s \in Schemas /\ Resource[s] = s
      BY DocumentShape DEF Orderly, Documented
    <3>2. Fits(Frame(s, s, NULL, i))
      BY <3>1, NewFits
    <3>3. frames' = [frames EXCEPT ![t] = <<Frame(s, s, NULL, i)>>]
      BY <2>2 DEF Validate
    <3>4. DOMAIN frames = Threads
      BY DEF Typed, InPlay
    <3> SUFFICES ASSUME NEW u \in Threads, NEW j \in 1 .. Len(frames'[u])
                 PROVE Fits(frames'[u][j])
      BY DEF FramesFit, Fits, PlacedAt
    <3>5. CASE u = t
      <4>1. frames'[u] = <<Frame(s, s, NULL, i)>>
        BY <3>3, <3>4, <3>5
      <4> QED
        BY <3>2, <4>1
    <3>6. CASE u # t
      BY <1>1, <3>3, <3>4, <3>6 DEF FramesFit
    <3> QED
      BY <3>5, <3>6
  <2> QED
    BY <1>2, <2>1, <2>2 DEF Call, Register, Unregister, UnregisterAt, Fetch, Clear
<1>3. ASSUME NEW t \in Threads, ResolveRoot(t)
      PROVE FramesFit'
  <2> DEFINE f == Top(t)
             g == [f EXCEPT !.stage = "resolve"]
  <2>1. ~ Idle(t) /\ (UNCHANGED frames \/ SetTop(t, g))
    BY <1>3 DEF ResolveRoot
  <2>2. f \in FramesOf(Schemas) /\ Fits(f)
    BY <1>1, <2>1, TopFits
  <2>3. Fits(g)
    <3> HIDE DEF f
    <3> QED
      BY <2>2 DEF Fits, FramesOf
  <2> HIDE DEF g
  <2> QED
    BY <1>1, <2>1, <2>3, FitWithTop, FitSame
<1>4. ASSUME NEW t \in Threads, ResolveTarget(t)
      PROVE FramesFit'
  <2> DEFINE f == Top(t)
             g == [f EXCEPT !.stage = "keywords"]
  <2>1. ~ Idle(t) /\ (SetTop(t, g) \/ Throw(t))
    BY <1>4 DEF ResolveTarget, NoRoot, Continue
  <2>2. f \in FramesOf(Schemas) /\ Fits(f)
    BY <1>1, <2>1, TopFits
  <2>3. Fits(g)
    <3> HIDE DEF f
    <3> QED
      BY <2>2 DEF Fits, FramesOf
  <2> HIDE DEF g
  <2> QED
    BY <1>1, <2>1, <2>3, FitWithTop, FitThrown DEF Throw
<1>5. CASE UNCHANGED vars
  BY <1>1, <1>5, FitSame DEF vars
<1> QED
  BY <1>2, <1>3, <1>4, <1>5, WalkFits, KeywordsFit DEF Next, Proceed

LEMMA TrackedStep ==
  ASSUME Orderly(Schemas), Typed, Fresh, Tracked, [Next]_vars
  PROVE Tracked'
<1>1. Answers' /\ PathsPlaced' /\ LoadedPlaced' /\ NoLocalNames'
  BY AnswersStep, PathsPlacedStep, LoadedPlacedStep, NoLocalNamesStep DEF Tracked
<1>2. FramesFit' /\ \A s \in Schemas : RefFits(s)'
  BY FramesFitStep, RefsStep
<1> QED
  BY <1>1, <1>2 DEF Tracked

(* A reference of orderly documents is resolved to a schema that it        *)
(* designates, whatever the threads validate, download, register and       *)
(* unregister meanwhile: the base in the context is the address of the     *)
(* document around the reference (JsonSchema.cs:357-364), and a reference  *)
(* is followed with the base of the root it was found in                   *)
(* (RefKeyword.cs:81-85).                                                 *)
THEOREM ReferencesFindTheirTargets ==
  ASSUME Orderly(Schemas)
  PROVE Spec => []RightTarget
<1>1. Init => Tracked
  <2> SUFFICES ASSUME Init PROVE Tracked
    OBVIOUS
  <2>1. Answers /\ \A t \in Threads : DOMAIN local[t] = {} /\ Len(frames[t]) = 0
    BY EmptyIn, PutIsDocument DEF Init, Answers, PutAt
  <2>2. \A u \in Uris : \A k \in DOMAIN Online[u] : ~ (k <= fetched[u])
    BY DocumentShape, LenProperties DEF Init
  <2>3. \A s \in Schemas : documentPath[s] = NULL /\ resolved[s] = NULL /\ resolvedRoot[s] = NULL
    BY DEF Init
  <2> QED
    BY <2>1, <2>2, <2>3 DEF Tracked, PathsPlaced, LoadedPlaced, FramesFit, RefFits, NoLocalNames
<1>2. Typed /\ Fresh /\ AtPaths /\ Tracked /\ [Next]_vars => Tracked'
  BY TrackedStep
<1>3. Tracked => RightTarget
  BY DEF Tracked, RefFits, RightTarget
<1> QED
  BY <1>1, <1>2, <1>3, PathInvariant, PTL DEF Spec

------------------------------------------------------------------------------
(* Of orderly documents, as long as one call of Validate follows another   *)
(* and nothing is removed, every address that is in use is registered, but *)
(* for the '#' at its end: the base of a call, the paths and ids of what   *)
(* has been walked, what was downloaded, and the meta-schemas.             *)
Known == {a \in Addresses : TrimEnd(a) \in DOMAIN lookup}

Located(s) == Id(s) # NULL => Id(s) \in Known

Kept == \A s \in MetaSchemas : Id(s) \in Known

Registering(s) ==
  \E t \in Threads : ~ Idle(t) /\ Top(t).stage = "registering" /\ Head(Top(t).todo) = s

Alone == \A t, u \in Threads : Idle(t) \/ Idle(u) \/ t = u

Marked == \A s \in Schemas : hasRegistered[s] => Located(s) \/ Registering(s)

Pathed == \A s \in Schemas : documentPath[s] # NULL => documentPath[s] \in Known

Rooted == \A s \in Schemas : resolvedRoot[s] # NULL => Located(resolvedRoot[s])

Loaded == \A u \in Uris : fetched[u] > 0 => At(u) \in Known

Walking(f) == f.stage \in {"register", "marking", "registering"}

Settled(f) ==
  /\ f.base # NULL => f.base \in Known
  /\ Located(f.root) \/ (f.root = f.schema /\ Walking(f))
  /\ Walking(f) => \/ hasRegistered[f.schema]
                   \/ f.stage # "registering" /\ f.todo # <<>> /\ Head(f.todo) = f.schema

FramesSettled == \A t \in Threads : \A i \in 1 .. Len(frames[t]) : Settled(frames[t][i])

Calm == Kept /\ Alone /\ Marked /\ Pathed /\ Rooted /\ Loaded /\ FramesSettled

Undisturbed == ~ overlapped /\ ~ removed => Calm

(* Proceeding is the business of the one call that is under way.           *)
LEMMA OthersStay ==
  ASSUME Typed, NEW t \in Threads, Proceed(t)
  PROVE  ~ Idle(t) /\ \A u \in Threads \ {t} : frames'[u] = frames[u]
<1>1. DOMAIN frames = Threads
  BY DEF Typed, InPlay
<1>2. CASE Pass(t) \/ Mark(t) \/ RegisterSubschemas(t) \/ Begin(t)
  BY <1>1, <1>2 DEF Pass, Mark, RegisterSubschemas, Begin, SetTop, Throw
<1>3. CASE PropertiesKeyword(t) \/ RefKeyword(t) \/ Return(t)
  BY <1>1, <1>3 DEF PropertiesKeyword, RefKeyword, Return
<1>4. CASE ResolveRoot(t) \/ ResolveTarget(t)
  BY <1>1, <1>4 DEF ResolveRoot, ResolveTarget, SetTop, Continue, NoRoot, Throw
<1> QED
  BY <1>2, <1>3, <1>4 DEF Proceed

LEMMA CallFrames ==
  ASSUME Typed, NEW t \in Threads, Call(t)
  PROVE  /\ Idle(t)
         /\ \/ UNCHANGED frames
            \/ \E s \in Roots : \E i \in Instances : Validate(t, s, i)
         /\ UNCHANGED <<hasRegistered, resolved, resolvedRoot>>
BY DEF Call, Validate, Register, Unregister, UnregisterAt, Fetch, Clear, MakesCall, schemaVars

LEMMA QuietBefore ==
  ASSUME Typed, [Next]_vars, ~ overlapped', ~ removed'
  PROVE  /\ ~ overlapped /\ ~ removed
         /\ Known \subseteq Known'
<1>0. \A x, y : lookup' = With(lookup, x, y) \/ lookup' = lookup => Known \subseteq Known'
  BY DEF With, Known
<1>1. ~ removed /\ Known \subseteq Known'
  <2>1. CASE Reads \/ Removes
    BY <1>0, <2>1 DEF Reads, Removes
  <2>2. ASSUME NEW s \in Roots, RegistersRoot(s)
        PROVE <1>1!:
    BY <1>0, <2>2 DEF RegistersRoot
  <2>3. ASSUME NEW u \in Uris, Loads(u)
        PROVE <1>1!:
    BY <1>0, <2>3 DEF Loads, Get
  <2>4. ASSUME NEW s \in Schemas, NEW a \in Addresses, RegistersItself(s, a)
        PROVE <1>1!:
    BY <1>0, <2>4 DEF RegistersItself
  <2> QED
    BY <2>1, <2>2, <2>3, <2>4, StepHappens DEF Happens
<1>2. ASSUME NEW t \in Threads, Call(t)
      PROVE overlapped => overlapped'
  BY <1>2 DEF Call, Validate, Register, Unregister, UnregisterAt, Fetch, Clear
<1>3. ASSUME NEW t \in Threads, Proceed(t)
      PROVE overlapped => overlapped'
  BY <1>3 DEF Proceed, Pass, Mark, RegisterSubschemas, Begin, PropertiesKeyword, RefKeyword,
     ResolveRoot, ResolveTarget, Return
<1>4. UNCHANGED vars => UNCHANGED overlapped
  BY DEF vars
<1> QED
  BY <1>1, <1>2, <1>3, <1>4 DEF Next

LEMMA MarkedGrows ==
  ASSUME Typed, [Next]_vars
  PROVE  \/ UNCHANGED hasRegistered
         \/ \E t \in Threads : Mark(t)
<1>1. ASSUME NEW t \in Threads, Proceed(t)
      PROVE UNCHANGED hasRegistered \/ Mark(t)
  BY <1>1 DEF Proceed, Pass, RegisterSubschemas, Begin, PropertiesKeyword, RefKeyword,
     ResolveRoot, ResolveTarget, Return, schemaVars
<1>2. UNCHANGED vars => UNCHANGED hasRegistered
  BY DEF vars, schemaVars
<1> QED
  BY <1>1, <1>2, CallFrames DEF Next

LEMMA AloneStep ==
  ASSUME Typed, Alone, [Next]_vars, ~ overlapped'
  PROVE Alone'
<1>0. DOMAIN frames = Threads
  BY DEF Typed, InPlay
<1>1. CASE UNCHANGED frames
  BY <1>1 DEF Alone, Idle
<1>2. ASSUME NEW t \in Threads, NEW s \in Roots, NEW i \in Instances, Validate(t, s, i)
      PROVE Alone'
  <2>1. \A u \in Threads \ {t} : Idle(u) /\ frames'[u] = frames[u]
    BY <1>0, <1>2 DEF Validate
  <2> QED
    BY <2>1 DEF Alone, Idle
<1>3. ASSUME NEW t \in Threads, Proceed(t)
      PROVE Alone'
  BY <1>3, OthersStay DEF Alone, Idle
<1> QED
  BY <1>1, <1>2, <1>3, CallFrames DEF Next, vars

------------------------------------------------------------------------------
LEMMA KnownIs ==
  /\ \A a \in Addresses : a \in Known <=> TrimEnd(a) \in DOMAIN lookup
  /\ \A u \in Uris : At(u) \in Known <=> At(u) \in DOMAIN lookup
  /\ \A a \in Known : a \in Addresses /\ TrimEnd(a) \in Known
BY AtIsAddress, TrimEndTyped, TrimEndKeeps DEF Known

LEMMA AtIsKnown ==
  ASSUME NEW u \in Uris, NEW x, lookup' = With(lookup, At(u), x)
  PROVE At(u) \in Known'
BY AtIsAddress DEF Known, With

(* What a document is registered at is known, if the meta-schemas are kept.*)
LEMMA IdIsKnown ==
  ASSUME Orderly(Schemas), Kept, Known \subseteq Known', NEW s \in Schemas, Id(s) # NULL,
         NEW x, lookup' = With(lookup, Id(s), x)
  PROVE Id(s) \in Known'
<1>1. Id(s) \in Addresses /\ (s \in MetaSchemas \/ TrimEnd(Id(s)) = Id(s))
  BY IdPlaced, SchemaTypes
<1>2. CASE s \in MetaSchemas
  BY <1>2 DEF Kept
<1>3. CASE TrimEnd(Id(s)) = Id(s)
  BY <1>1, <1>3 DEF Known, With
<1> QED
  BY <1>1, <1>2, <1>3

LEMMA AddressIsKnown ==
  ASSUME Orderly(Schemas), Kept, Known \subseteq Known', NEW f \in FramesOf(Schemas),
         NEW s \in Schemas, Registers(f, s), lookup' = With(lookup, Address(f, s), s)
  PROVE Address(f, s) \in Known'
<1>1. Id(s) # NULL
  BY DEF Registers, Address
<1>2. Id(s) \in Addresses /\ IsAbsolute(Id(s)) /\ f.base \in Addresses \cup {NULL}
  BY <1>1, IdPlaced, SchemaTypes DEF FramesOf
<1>3. Address(f, s) = Id(s)
  BY <1>2, JoinTyped DEF Address
<1> QED
  BY <1>1, <1>3, IdIsKnown

LEMMA IdOfDocument ==
  ASSUME Orderly(Schemas), NEW u \in Uris, NEW d \in Documents(u), Id(d) # NULL
  PROVE TrimEnd(Id(d)) = At(u)
<1>1. d \in Schemas /\ Resource[d] = d
  BY DocumentsAre
<1>2. PICK v \in Uris : TrimEnd(Id(d)) = At(v) /\ d \in Documents(v)
  BY <1>1, IdPlaced DEF PlacedAt
<1> QED
  BY <1>1, <1>2 DEF Orderly

LEMMA PathIsId ==
  ASSUME Orderly(Schemas), PathsPlaced, NEW s \in Schemas, Id(s) # NULL
  PROVE TrimEnd(DocumentPath(s)) = TrimEnd(Id(s))
<1>1. Resource[s] = s
  BY IdPlaced
<1>2. DocumentPath(s) # NULL
  BY DEF DocumentPath
<1>3. PICK u \in Uris : TrimEnd(DocumentPath(s)) = At(u) /\ s \in Documents(u)
  BY <1>1, <1>2, PathPlaced DEF PlacedAt
<1> QED
  BY <1>3, IdOfDocument

LEMMA PathKnown ==
  ASSUME Pathed, NEW s \in Schemas, Located(s), DocumentPath(s) # NULL
  PROVE DocumentPath(s) \in Known
BY DEF Pathed, Located, DocumentPath

(* What a URI answers with is registered at it.                            *)
LEMMA GotIsKnown ==
  ASSUME Orderly(Schemas), Typed, Answers, NEW u \in Uris, Get(u), Got(u) # NULL
  PROVE  /\ At(u) \in Known'
         /\ Id(Got(u)) # NULL => Id(Got(u)) \in Known'
<1>1. At(u) \in Known'
  <2>1. CASE Downloads(u)
    BY <2>1, AtIsKnown DEF Get
  <2>2. CASE ~ Downloads(u)
    <3>1. Got(u) = Found(lookup, At(u)) /\ UNCHANGED lookup
      BY <2>2, AtIsAddress DEF Got, Registered, Get
    <3> QED
      BY <3>1, AtIsAddress DEF Found, Known
  <2> QED
    BY <2>1, <2>2
<1>2. ASSUME Id(Got(u)) # NULL
      PROVE Id(Got(u)) \in Addresses /\ TrimEnd(Id(Got(u))) = At(u)
  BY <1>2, GotIsDocument, IdOfDocument, DocumentsAre, SchemaTypes
<1> QED
  BY <1>1, <1>2, AtIsAddress DEF Known

LEMMA TopSettled ==
  ASSUME Typed, FramesSettled, NEW t \in Threads, ~ Idle(t)
  PROVE Settled(Top(t))
<1>1. frames \in [Threads -> Seq(FramesOf(Schemas))]
  BY DEF Typed, InPlay
<1>2. Len(frames[t]) \in Nat \ {0} /\ Top(t) = frames[t][Len(frames[t])]
  BY <1>1, TopIsIn DEF Top, Idle
<1> QED
  BY <1>2 DEF FramesSettled

(* A schema that was walked is registered when its keywords begin.         *)
LEMMA BegunIsLocated ==
  ASSUME Typed, Calm, NEW t \in Threads, Begin(t)
  PROVE Located(Top(t).schema) /\ Located(Top(t).root)
<1>1. ~ Idle(t) /\ Top(t).stage = "register" /\ Top(t).todo = <<>>
  BY DEF Begin
<1>2. Top(t).schema \in Schemas
  BY <1>1, TopTyped DEF Typed, InPlay, FramesOf
<1>3. hasRegistered[Top(t).schema]
  BY <1>1, TopSettled DEF Calm, Settled, Walking
<1>4. ~ Registering(Top(t).schema)
  BY <1>1 DEF Calm, Alone, Registering
<1>5. Located(Top(t).schema)
  BY <1>2, <1>3, <1>4 DEF Calm, Marked
<1> QED
  BY <1>1, <1>5, TopSettled DEF Calm, Settled

LEMMA LocatedStays ==
  ASSUME NEW s, Located(s), Known \subseteq Known'
  PROVE Located(s)'
BY DEF Located, Id

LEMMA MarkedStep ==
  ASSUME Orderly(Schemas), Typed, Tracked, Calm, [Next]_vars,
         Known \subseteq Known'
  PROVE Marked'
<1> SUFFICES ASSUME NEW s \in Schemas, hasRegistered'[s]
             PROVE Located(s)' \/ Registering(s)'
  BY DEF Marked
<1>0. DOMAIN frames = Threads /\ hasRegistered \in [Schemas -> BOOLEAN]
  BY DEF Typed, InPlay
<1>1. ASSUME NEW t \in Threads, Mark(t)
      PROVE Located(s)' \/ Registering(s)'
  <2> PICK f : f = Top(t)
    OBVIOUS
  <2>1. /\ ~ Idle(t) /\ f.stage = "marking"
        /\ hasRegistered' = [hasRegistered EXCEPT ![Head(f.todo)] = TRUE]
        /\ SetTop(t, [f EXCEPT !.stage = "registering"])
    BY <1>1 DEF Mark
  <2>2. f \in FramesOf(Schemas)
    BY <2>1, TopTyped DEF Typed, InPlay
  <2>3. PICK g : g = [f EXCEPT !.stage = "registering"]
    OBVIOUS
  <2>4. g.stage = "registering" /\ g.todo = f.todo
    BY <2>2, <2>3 DEF FramesOf
  <2>5. Top(t)' = g /\ ~ Idle(t)'
    BY <2>1, <2>3, TopBecomes
  <2>6. CASE s = Head(f.todo)
    BY <2>4, <2>5, <2>6 DEF Registering
  <2>7. CASE s # Head(f.todo)
    <3>1. hasRegistered[s]
      BY <1>0, <2>1, <2>7
    <3>2. ~ Registering(s)
      BY <2>1 DEF Calm, Alone, Registering
    <3> QED
      BY <3>1, <3>2, LocatedStays DEF Calm, Marked
  <2> QED
    BY <2>6, <2>7
<1>2. ASSUME UNCHANGED hasRegistered,
             \A u \in Threads : ~ Idle(u) /\ Top(u).stage = "registering" => frames'[u] = frames[u]
      PROVE Located(s)' \/ Registering(s)'
  <2>1. Located(s) \/ Registering(s)
    BY <1>2 DEF Calm, Marked
  <2>2. Registering(s) => Registering(s)'
    BY <1>2 DEF Registering, Idle, Top
  <2> QED
    BY <2>1, <2>2, LocatedStays
<1>3. ASSUME NEW t \in Threads, RegisterSubschemas(t)
      PROVE Located(s)' \/ Registering(s)'
  <2> PICK f : f = Top(t)
    OBVIOUS
  <2>1. /\ ~ Idle(t) /\ f.stage = "registering" /\ UNCHANGED hasRegistered
        /\ lookup' = IF Registers(f, Head(f.todo))
                     THEN With(lookup, Address(f, Head(f.todo)), Head(f.todo)) ELSE lookup
    BY <1>3 DEF RegisterSubschemas
  <2>2. f \in FramesOf(Schemas)
    BY <2>1, TopTyped DEF Typed, InPlay
  <2>3. CASE s = Head(f.todo)
    <3>1. ASSUME Id(s) # NULL
          PROVE Id(s) \in Known'
      <4>1. PathAfterLocal(s) = documentPath /\ IsAbsolute(Id(s))
        BY <3>1, NoNameToRegister, IdPlaced
      <4>2. Address(f, s) = Id(s)
        <5>1. f.base \in Addresses \cup {NULL} /\ Id(s) \in Addresses
          BY <2>2, <3>1, SchemaTypes DEF FramesOf
        <5> QED
          BY <4>1, <5>1, JoinTyped DEF Address
      <4>3. CASE documentPath[s] = NULL
        <5>1. Registers(f, s)
          BY <3>1, <4>1, <4>2, <4>3 DEF Registers
        <5> QED
          BY <2>1, <2>3, <3>1, <4>2, <5>1, IdIsKnown DEF Calm
      <4>4. CASE documentPath[s] # NULL
        <5>1. TrimEnd(documentPath[s]) = TrimEnd(Id(s))
          BY <3>1, <4>4, PathIsId DEF Tracked, DocumentPath
        <5>2. documentPath[s] \in Known /\ Id(s) \in Addresses
          BY <3>1, <4>4, SchemaTypes DEF Calm, Pathed
        <5>3. Id(s) \in Known
          BY <5>1, <5>2 DEF Known
        <5> QED
          BY <5>3
      <4> QED
        BY <4>3, <4>4
    <3> QED
      BY <3>1 DEF Located, Id
  <2>4. CASE s # Head(f.todo)
    <3>1. ~ Registering(s)
      BY <2>1, <2>4 DEF Calm, Alone, Registering
    <3> QED
      BY <2>1, <3>1, LocatedStays DEF Calm, Marked
  <2> QED
    BY <2>3, <2>4
<1>4. ASSUME NEW t \in Threads, Call(t)
      PROVE Located(s)' \/ Registering(s)'
  <2>1. Idle(t) /\ UNCHANGED hasRegistered
    BY <1>4, CallFrames
  <2>2. \A u \in Threads \ {t} : frames'[u] = frames[u]
    BY <1>0, <1>4, CallFrames DEF Validate
  <2> QED
    BY <1>2, <2>1, <2>2
<1>5. ASSUME NEW t \in Threads, Proceed(t)
      PROVE Located(s)' \/ Registering(s)'
  <2>1. CASE Top(t).stage = "registering"
    <3>1. RegisterSubschemas(t)
      BY <1>5, <2>1 DEF Proceed, Pass, Mark, Begin, PropertiesKeyword, RefKeyword, ResolveRoot,
         ResolveTarget, Return
    <3> QED
      BY <1>3, <3>1
  <2>2. CASE Top(t).stage # "registering" /\ UNCHANGED hasRegistered
    BY <1>2, <1>5, <2>2, OthersStay
  <2> QED
    BY <1>1, <1>5, <2>1, <2>2 DEF Proceed, Pass, RegisterSubschemas, Begin, PropertiesKeyword,
       RefKeyword, ResolveRoot, ResolveTarget, Return, schemaVars
<1>6. CASE UNCHANGED vars
  BY <1>2, <1>6 DEF vars, schemaVars
<1> QED
  BY <1>4, <1>5, <1>6 DEF Next

LEMMA PathedStays ==
  ASSUME Typed, Pathed, NEW x \in Schemas, DocumentPath(x) # NULL => DocumentPath(x) \in Known',
         Known \subseteq Known',
         documentPath' \in {documentPath, PathRead(x), PathAfterLocal(x)}
  PROVE Pathed'
<1> SUFFICES ASSUME NEW s \in Schemas, documentPath'[s] # NULL
             PROVE documentPath'[s] \in Known'
  BY DEF Pathed
<1>1. documentPath'[s] \in {documentPath[s], DocumentPath(x)}
  BY PathTyped DEF PathAfterLocal
<1>2. documentPath'[s] = documentPath[s] \/ s = x
  BY PathTyped DEF PathAfterLocal
<1> QED
  BY <1>1, <1>2 DEF Pathed

LEMMA PathedAfter ==
  ASSUME Typed, Pathed, NEW x \in Schemas, NEW p, documentPath' = [documentPath EXCEPT ![x] = p],
         Known \subseteq Known', p # NULL => p \in Known'
  PROVE Pathed'
BY DEF Typed, Pathed

LEMMA PathedGet ==
  ASSUME Orderly(Schemas), Typed, Pathed, NEW u \in Uris, Get(u),
         Known \subseteq Known'
  PROVE Pathed'
<1>1. CASE Downloads(u)
  <2>1. documentPath' = [documentPath EXCEPT ![Got(u)] = At(u)] /\ Got(u) \in Schemas
    BY <1>1, DownloadTyped DEF Get
  <2>2. At(u) \in Known'
    BY <1>1, AtIsKnown DEF Get
  <2> QED
    BY <2>1, <2>2, PathedAfter
<1>2. CASE ~ Downloads(u)
  BY <1>2 DEF Get, Pathed
<1> QED
  BY <1>1, <1>2

LEMMA TargetPathed ==
  ASSUME Orderly(Schemas), Typed, Fresh, Tracked, Calm, NEW t \in Threads, ResolveTarget(t)
  PROVE Pathed'
<1> DEFINE f == Top(t)
           root == resolvedRoot[f.schema]
           sub == ResolveSubschema(root, Ref(f.schema))
           base == BaseOf(root, f.base)
           path == DocumentPath(sub)
<1>1. f.schema \in Schemas /\ Fits(f) /\ RefFits(f.schema) /\ Known' = Known
  BY TopFits DEF ResolveTarget, Tracked, Known
<1>2. Settled(f) /\ Pathed
  BY TopSettled DEF ResolveTarget, Calm
<1>3. root # NULL => root \in Schemas /\ Located(root)
  BY <1>1 DEF Typed, InPlay, Calm, Rooted
<1>4. root # NULL => (DocumentPath(root) # NULL => DocumentPath(root) \in Known)
  BY <1>2, <1>3, PathKnown
<1>5. CASE UNCHANGED documentPath
  BY <1>1, <1>2, <1>5 DEF Pathed
<1>6. CASE root # NULL /\ documentPath' = PathRead(root)
  BY <1>1, <1>2, <1>3, <1>4, <1>6, PathedStays
<1>7. CASE /\ root # NULL /\ sub # NULL
           /\ \/ documentPath' = [PathRead(root) EXCEPT ![sub] = path]
              \/ /\ path = NULL \/ (base # NULL /\ IsAbsolute(base))
                 /\ documentPath' = [PathRead(root) EXCEPT ![sub] =
                                       IF path = NULL THEN base ELSE Join(base, path)]
  <2>1. /\ root \in Schemas /\ sub \in Schemas
        /\ Resource[root] = root /\ Resource[sub] = root
        /\ base # NULL => PlacedAt(base, sub)
        /\ path # NULL => PlacedAt(path, sub)
    BY <1>1, <1>7, TargetPlaced DEF Tracked
  <2>2. base # NULL => base \in Known
    BY <1>2, <1>3, <1>4, <1>7 DEF BaseOf, Located, Settled
  <2>3. path # NULL => path \in Known
    <3>1. CASE sub = root
      BY <1>3, <1>4, <1>7, <3>1
    <3>2. CASE sub # root
      <4>1. Id(sub) = NULL
        BY <2>1, <3>2, IdPlaced
      <4> QED
        BY <1>2, <2>1, <4>1, PathKnown DEF Located
    <3> QED
      BY <3>1, <3>2
  <2>4. path # NULL /\ base # NULL => Join(base, path) = path
    BY <2>1, PlacedIsAddress, JoinTyped
  <2>5. PICK p : /\ documentPath' = [PathRead(root) EXCEPT ![sub] = p]
                 /\ p # NULL => p \in Known
    <3> HIDE DEF root, sub, base, path
    <3> QED
      BY <1>7, <2>2, <2>3, <2>4
  <2>6. /\ PathRead(root) \in [Schemas -> Addresses \cup {NULL}]
        /\ \A x \in Schemas \ {root} : PathRead(root)[x] = documentPath[x]
        /\ PathRead(root)[root] = DocumentPath(root)
    BY <2>1, PathTyped
  <2> SUFFICES ASSUME NEW s \in Schemas, documentPath'[s] # NULL
               PROVE documentPath'[s] \in Known
    BY <1>1 DEF Pathed
  <2> HIDE DEF root, sub, base, path
  <2>7. CASE s = sub
    BY <2>1, <2>5, <2>6, <2>7
  <2>8. CASE s # sub
    <3>1. documentPath'[s] = PathRead(root)[s]
      BY <2>1, <2>5, <2>6, <2>8
    <3>2. CASE s = root
      BY <1>4, <1>7, <2>6, <3>1, <3>2
    <3>3. CASE s # root
      BY <1>2, <2>6, <3>1, <3>3 DEF Pathed
    <3> QED
      BY <3>2, <3>3
  <2> QED
    BY <2>7, <2>8
<1> QED
  BY <1>5, <1>6, <1>7 DEF ResolveTarget

LEMMA PathedStep ==
  ASSUME Orderly(Schemas), Typed, Fresh, AtPaths, Tracked, Calm, [Next]_vars, ~ removed',
         Known \subseteq Known'
  PROVE Pathed'
<1>0. Pathed /\ Roots \subseteq Schemas
  BY DocumentShape DEF Calm
<1>1. CASE UNCHANGED documentPath
  BY <1>0, <1>1 DEF Pathed
<1>2. ASSUME NEW t \in Threads, NEW s \in Roots, Register(t, s)
      PROVE Pathed'
  <2>1. ASSUME DocumentPath(s) # NULL
        PROVE DocumentPath(s) \in Known'
    <3>1. DocumentPath(s) = Id(s)
      BY <2>1 DEF AtPaths, DocumentPath
    <3>2. lookup' = With(lookup, Id(s), s)
      BY <1>2, <2>1, <3>1 DEF Register
    <3> QED
      BY <1>0, <2>1, <3>1, <3>2, IdIsKnown DEF Calm
  <2>2. documentPath' = PathRead(s)
    BY <1>2 DEF Register
  <2> QED
    BY <1>0, <2>1, <2>2, PathedStays
<1>3. ASSUME NEW t \in Threads, NEW u \in Uris, Fetch(t, u)
      PROVE Pathed'
  BY <1>0, <1>3, PathedGet DEF Fetch
<1>4. ASSUME NEW t \in Threads, Call(t)
      PROVE Pathed'
  BY <1>1, <1>2, <1>3, <1>4 DEF Call, Validate, Unregister, UnregisterAt, Clear, schemaVars
<1>5. ASSUME NEW t \in Threads, Proceed(t)
      PROVE Pathed'
  <2> DEFINE f == Top(t)
  <2>0. f \in FramesOf(Schemas) /\ f.schema \in Schemas /\ Settled(f) /\ Fits(f)
    BY <1>5, OthersStay, TopSettled, TopFits DEF Calm, Tracked
  <2>1. CASE Pass(t) \/ Mark(t) \/ PropertiesKeyword(t) \/ Return(t)
    BY <1>1, <2>1 DEF Pass, Mark, PropertiesKeyword, Return, schemaVars
  <2>2. CASE RegisterSubschemas(t)
    <3> DEFINE s == Head(f.todo)
    <3>1. s \in Schemas
      BY <2>0, <2>2, HeadTailProperties DEF RegisterSubschemas, FramesOf, Suits
    <3>2. PathAfterLocal(s) = documentPath
      BY <3>1, NoNameToRegister
    <3>3. CASE Registers(f, s)
      <4>1. /\ documentPath' = [documentPath EXCEPT ![s] = Address(f, s)]
            /\ lookup' = With(lookup, Address(f, s), s)
        BY <2>2, <3>2, <3>3 DEF RegisterSubschemas
      <4>2. Address(f, s) \in Known'
        BY <2>0, <3>1, <3>3, <4>1, AddressIsKnown DEF Calm
      <4> HIDE DEF s
      <4> QED
        BY <1>0, <3>1, <4>1, <4>2, PathedAfter
    <3>4. CASE ~ Registers(f, s)
      BY <1>1, <2>2, <3>2, <3>4 DEF RegisterSubschemas
    <3> QED
      BY <3>3, <3>4
  <2>3. CASE Begin(t)
    <3>1. DocumentPath(f.schema) # NULL => DocumentPath(f.schema) \in Known
      BY <1>0, <2>0, <2>3, BegunIsLocated, PathKnown
    <3>2. documentPath' \in {PathRead(f.schema), PathAfterLocal(f.schema)}
      BY <2>3 DEF Begin
    <3> HIDE DEF f
    <3> QED
      BY <1>0, <2>0, <3>1, <3>2, PathedStays
  <2>4. CASE RefKeyword(t)
    <3> DEFINE root == resolvedRoot[f.schema]
    <3>1. root # NULL => root \in Schemas /\ Located(root)
      BY <2>0 DEF Typed, InPlay, Calm, Rooted
    <3>2. documentPath' = IF root = NULL THEN documentPath ELSE PathRead(root)
      BY <2>4 DEF RefKeyword
    <3> HIDE DEF root
    <3>3. CASE root # NULL
      <4>1. root \in Schemas /\ (DocumentPath(root) # NULL => DocumentPath(root) \in Known)
        BY <1>0, <3>1, <3>3, PathKnown
      <4>2. documentPath' = PathRead(root)
        BY <3>2, <3>3
      <4> QED
        BY <1>0, <4>1, <4>2, PathedStays
    <3> QED
      BY <1>1, <3>2, <3>3
  <2>5. CASE ResolveRoot(t)
    <3> DEFINE address == IF Ref(f.schema).uri # NULL \/ f.base = NULL THEN Ref(f.schema).uri
                          ELSE f.base.uri
    <3>1. address \in Uris \cup {NULL}
      BY <2>0, <2>5, RootAddress DEF ResolveRoot
    <3>2. UNCHANGED documentPath \/ (address # NULL /\ Get(address))
      BY <2>5 DEF ResolveRoot
    <3> HIDE DEF address
    <3> QED
      BY <1>0, <1>1, <3>1, <3>2, PathedGet
  <2> QED
    BY <1>5, <2>1, <2>2, <2>3, <2>4, <2>5, TargetPathed DEF Proceed
<1>6. CASE UNCHANGED vars
  BY <1>1, <1>6 DEF vars, schemaVars
<1> QED
  BY <1>4, <1>5, <1>6 DEF Next

LEMMA RootedStep ==
  ASSUME Orderly(Schemas), Typed, Tracked, Calm, [Next]_vars,
         Known \subseteq Known'
  PROVE Rooted'
<1> SUFFICES ASSUME NEW s \in Schemas, resolvedRoot'[s] # NULL
             PROVE Located(resolvedRoot[s])'
  BY DEF Rooted
<1>0. resolvedRoot \in [Schemas -> Schemas \cup {NULL}]
  BY DEF Typed, InPlay
<1>1. CASE resolvedRoot'[s] = resolvedRoot[s]
  BY <1>1 DEF Calm, Rooted, Located, Id
<1>2. ASSUME NEW t \in Threads, ResolveRoot(t)
      PROVE Located(resolvedRoot[s])'
  <2> DEFINE f == Top(t)
             address == IF Ref(f.schema).uri # NULL \/ f.base = NULL THEN Ref(f.schema).uri
                        ELSE f.base.uri
  <2>1. f \in FramesOf(Schemas) /\ f.schema \in Schemas /\ Settled(f)
    BY <1>2, TopSettled, TopFits DEF ResolveRoot, Calm, Tracked
  <2>2. address \in Uris \cup {NULL}
    BY <1>2, <2>1, RootAddress DEF ResolveRoot
  <2>3. \/ UNCHANGED resolvedRoot
        \/ /\ address # NULL /\ Get(address)
           /\ resolvedRoot' = [resolvedRoot EXCEPT ![f.schema] = Got(address)]
        \/ resolvedRoot' = [resolvedRoot EXCEPT ![f.schema] = f.root]
    BY <1>2 DEF ResolveRoot
  <2>4. Located(f.root)
    BY <1>2, <2>1 DEF ResolveRoot, Settled, Walking
  <2> HIDE DEF f, address
  <2>5. resolvedRoot'[s] \in {resolvedRoot[s], f.root} \/
          (address # NULL /\ Get(address) /\ resolvedRoot'[s] = Got(address))
    BY <1>0, <2>1, <2>3
  <2>6. CASE resolvedRoot'[s] = f.root
    BY <2>4, <2>6 DEF Located, Id
  <2>7. CASE address # NULL /\ Get(address) /\ resolvedRoot'[s] = Got(address)
    <3>1. address \in Uris /\ Got(address) # NULL
      BY <2>2, <2>7
    <3>2. Id(Got(address)) # NULL => Id(Got(address)) \in Known'
      BY <2>7, <3>1, GotIsKnown DEF Tracked
    <3> QED
      BY <2>7, <3>2 DEF Located, Id
  <2> QED
    BY <1>1, <2>5, <2>6, <2>7
<1>3. ASSUME NEW t \in Threads, ResolveTarget(t)
      PROVE Located(resolvedRoot[s])'
  BY <1>1, <1>3 DEF ResolveTarget
<1> QED
  BY <1>1, <1>2, <1>3, ReferencesChange

LEMMA LoadedStep ==
  ASSUME Typed, Loaded, [Next]_vars, Known \subseteq Known'
  PROVE Loaded'
<1>1. ASSUME UNCHANGED fetched PROVE Loaded'
  BY <1>1 DEF Loaded
<1>2. ASSUME NEW u \in Uris, Loads(u) PROVE Loaded'
  <2>1. /\ fetched' = [fetched EXCEPT ![u] = @ + 1] /\ fetched \in [Uris -> Nat]
        /\ At(u) \in Known'
    BY <1>2, AtIsKnown DEF Loads, Get, Typed
  <2> QED
    BY <2>1 DEF Loaded
<1> QED
  BY <1>1, <1>2, StepHappens DEF Happens, Reads, Removes, RegistersRoot, RegistersItself

------------------------------------------------------------------------------
LEMMA SettledStep ==
  ASSUME Typed, FramesSettled, [Next]_vars, Known \subseteq Known',
         NEW t \in Threads, NEW new, Become(t, new), \A g \in new : Settled(g)'
  PROVE FramesSettled'
<1>1. hasRegistered \in [Schemas -> BOOLEAN]
  BY DEF Typed
<1>2. \A s \in Schemas : hasRegistered[s] => hasRegistered'[s]
  BY <1>1, MarkedGrows DEF Mark
<1> SUFFICES ASSUME NEW u \in Threads, NEW i \in 1 .. Len(frames'[u])
             PROVE Settled(frames[u][i])'
  BY DEF FramesSettled
<1>3. CASE u = t /\ frames'[u][i] \in new
  BY <1>3 DEF Settled, Located, Id, Walking
<1>4. CASE i \in 1 .. Len(frames[u]) /\ frames'[u][i] = frames[u][i]
  <2> PICK f : f = frames[u][i]
    OBVIOUS
  <2>1. Settled(f)
    BY <1>4 DEF FramesSettled
  <2>2. f.schema \in Schemas
    <3>1. frames[u] \in Seq(FramesOf(Schemas))
      BY DEF Typed, InPlay
    <3>2. frames[u][i] \in FramesOf(Schemas)
      BY <1>4, <3>1, ElementOfSeq
    <3> QED
      BY <3>2 DEF FramesOf
  <2>3. Settled(f)'
    BY <1>2, <2>1, <2>2 DEF Settled, Located, Id, Walking
  <2> QED
    BY <1>4, <2>3 DEF Settled, Located, Id, Walking
<1> QED
  BY <1>3, <1>4 DEF Become

LEMMA TopSettles ==
  ASSUME Typed, FramesSettled, [Next]_vars, Known \subseteq Known',
         NEW t \in Threads, ~ Idle(t), NEW f, SetTop(t, f), Settled(f)'
  PROVE FramesSettled'
<1>1. \A x \in {f} : Settled(x)'
  BY DEF Settled, Located, Id, Walking
<1>2. Become(t, {f})
  BY TopBecomes
<1> QED
  BY <1>1, <1>2, SettledStep

LEMMA CallSettles ==
  ASSUME Typed, FramesSettled, [Next]_vars, Known \subseteq Known',
         NEW t \in Threads, ~ Idle(t), NEW f, NEW g,
         frames' = [frames EXCEPT ![t] = Append(Front(@) \o <<f>>, g)], Settled(f)', Settled(g)'
  PROVE FramesSettled'
<1>1. \A x \in {f, g} : Settled(x)'
  BY DEF Settled, Located, Id, Walking
<1>2. Become(t, {f, g})
  BY CallBecomes
<1> QED
  BY <1>1, <1>2, SettledStep

LEMMA WalkSettled ==
  ASSUME Orderly(Schemas), Typed, Calm, [Next]_vars, Known \subseteq Known',
         NEW t \in Threads, Pass(t) \/ Mark(t) \/ RegisterSubschemas(t)
  PROVE FramesSettled'
<1> PICK f : f = Top(t)
  OBVIOUS
<1> PICK s : s = Head(f.todo)
  OBVIOUS
<1>0. ~ Idle(t) /\ FramesSettled /\ Walking(f)
  BY DEF Pass, Mark, RegisterSubschemas, Calm, Walking
<1>1. f \in FramesOf(Schemas) /\ Settled(f)
  BY <1>0, TopTyped, TopSettled DEF Typed, InPlay
<1>2. f.todo # <<>> /\ f.schema \in Schemas /\ hasRegistered \in [Schemas -> BOOLEAN]
  BY <1>1 DEF Pass, Mark, RegisterSubschemas, FramesOf, Suits, Typed
<1>3. CASE Pass(t)
  <2> PICK g : g = IF hasRegistered[s] THEN [f EXCEPT !.todo = Tail(@)] ELSE [f EXCEPT !.stage = "marking"]
    OBVIOUS
  <2>1. SetTop(t, g) /\ UNCHANGED <<lookup, hasRegistered>> /\ f.stage = "register"
    BY <1>3 DEF Pass, schemaVars
  <2>2. Settled(g)'
    <3>1. /\ g.base = f.base /\ g.root = f.root /\ g.schema = f.schema /\ Walking(g)
          /\ g.stage # "registering"
          /\ g.todo = IF hasRegistered[s] THEN Tail(f.todo) ELSE f.todo
      BY <1>1, <2>1 DEF FramesOf, Walking
    <3> QED
      BY <1>0, <1>1, <1>2, <2>1, <3>1 DEF Settled, Located, Id, Walking
  <2> QED
    BY <1>0, <2>1, <2>2, TopSettles
<1>4. CASE Mark(t)
  <2> PICK g : g = [f EXCEPT !.stage = "registering"]
    OBVIOUS
  <2>1. /\ SetTop(t, g) /\ UNCHANGED lookup /\ f.stage = "marking"
        /\ hasRegistered' = [hasRegistered EXCEPT ![s] = TRUE]
    BY <1>4 DEF Mark
  <2>2. Settled(g)'
    <3>1. /\ g.base = f.base /\ g.root = f.root /\ g.schema = f.schema /\ Walking(g)
      BY <1>1, <2>1 DEF FramesOf, Walking
    <3>2. hasRegistered'[f.schema]
      BY <1>0, <1>1, <1>2, <2>1 DEF Settled
    <3> QED
      BY <1>0, <1>1, <2>1, <3>1, <3>2 DEF Settled, Located, Id, Walking
  <2> QED
    BY <1>0, <2>1, <2>2, TopSettles
<1>5. CASE RegisterSubschemas(t)
  <2> PICK g : g = [f EXCEPT !.stage = "register",
                             !.base = IF Registers(f, s) THEN Address(f, s) ELSE @,
                             !.todo = Subschemas(s) \o Tail(@)]
    OBVIOUS
  <2>1. /\ SetTop(t, g) /\ UNCHANGED hasRegistered /\ f.stage = "registering"
        /\ lookup' = IF Registers(f, s) THEN With(lookup, Address(f, s), s) ELSE lookup
    BY <1>5 DEF RegisterSubschemas
  <2>2. Settled(g)'
    <3>1. /\ g.base = IF Registers(f, s) THEN Address(f, s) ELSE f.base
          /\ g.root = f.root /\ g.schema = f.schema /\ Walking(g)
      BY <1>1 DEF FramesOf, Walking
    <3>2. hasRegistered'[f.schema]
      BY <1>0, <1>1, <2>1 DEF Settled
    <3>3. g.base # NULL => g.base \in Known'
      <4>1. s \in Schemas
        BY <1>1, <1>2, HeadTailProperties DEF FramesOf
      <4> QED
        BY <1>1, <2>1, <3>1, <4>1, AddressIsKnown DEF Settled, Calm
    <3> QED
      BY <1>0, <1>1, <3>1, <3>2, <3>3 DEF Settled, Located, Id, Walking
  <2> QED
    BY <1>0, <2>1, <2>2, TopSettles
<1> QED
  BY <1>3, <1>4, <1>5

LEMMA BaseKnown ==
  ASSUME Orderly(Schemas), Typed, PathsPlaced, Pathed, NEW f \in FramesOf(Schemas), Fits(f),
         Settled(f), Located(f.schema), BaseUri(f) # NULL
  PROVE BaseUri(f) \in Known
<1> DEFINE path == DocumentPath(f.schema)
           base == IF ~ SetsBase(f) \/ path = NULL THEN f.base
                   ELSE IF f.base = NULL THEN path ELSE Join(f.base, path)
<1>1. f.schema \in Schemas /\ f.base \in Addresses \cup {NULL}
  BY DEF FramesOf
<1>2. path # NULL => PlacedAt(path, f.schema) /\ path \in Known
  BY <1>1, PathPlaced, PathKnown
<1>3. base \in {f.base, path}
  <2>1. f.base # NULL /\ path # NULL => Join(f.base, path) = path
    BY <1>1, <1>2, PlacedIsAddress, JoinTyped
  <2> HIDE DEF path
  <2> QED
    BY <2>1
<1>4. BaseUri(f) = IF base = NULL THEN NULL ELSE TrimEnd(base)
  BY DEF BaseUri
<1> HIDE DEF base, path
<1>5. base # NULL => TrimEnd(base) \in Known
  BY <1>1, <1>2, <1>3, KnownIs DEF Settled
<1> QED
  BY <1>4, <1>5

LEMMA KeywordsSettled ==
  ASSUME Orderly(Schemas), Typed, Fresh, Tracked, Calm, [Next]_vars,
         Known \subseteq Known', NEW t \in Threads,
         Begin(t) \/ PropertiesKeyword(t) \/ RefKeyword(t) \/ Return(t)
  PROVE FramesSettled'
<1> PICK f : f = Top(t)
  OBVIOUS
<1>0. ~ Idle(t) /\ FramesSettled
  BY DEF Begin, PropertiesKeyword, RefKeyword, Return, Calm
<1>1. f \in FramesOf(Schemas) /\ f.schema \in Schemas /\ Fits(f) /\ Settled(f)
  BY <1>0, TopFits, TopSettled DEF Tracked
<1>2. UNCHANGED <<lookup, hasRegistered>>
  BY DEF Begin, PropertiesKeyword, RefKeyword, Return, schemaVars
<1>3. CASE Begin(t)
  <2> PICK g : g = [f EXCEPT !.stage = "keywords", !.base = BaseUri(f), !.left = Keywords(f)]
    OBVIOUS
  <2>1. SetTop(t, g) \/ Throw(t)
    BY <1>3 DEF Begin
  <2>2. Located(f.schema) /\ Located(f.root)
    BY <1>3, BegunIsLocated
  <2>3. BaseUri(f) # NULL => BaseUri(f) \in Known
    BY <1>1, <2>2, BaseKnown DEF Tracked, Calm
  <2>4. g.base = BaseUri(f) /\ g.root = f.root /\ g.stage = "keywords"
    BY <1>1 DEF FramesOf
  <2>5. Settled(g)'
    BY <1>2, <2>2, <2>3, <2>4 DEF Settled, Located, Id, Walking
  <2> QED
    BY <1>0, <2>1, <2>5, TopSettles, ThrowBecomes, SettledStep DEF Throw
<1>4. CASE PropertiesKeyword(t)
  <2> PICK g : g = [f EXCEPT !.left = @ \ {Min(f.left)}]
    OBVIOUS
  <2> PICK x : x = Subschemas(f.schema)[Min(f.left)]
    OBVIOUS
  <2> PICK h : h = Frame(x, f.root, f.base, {})
    OBVIOUS
  <2>1. /\ frames' = [frames EXCEPT ![t] = Append(Front(@) \o <<g>>, h)]
        /\ f.stage = "keywords"
    BY <1>4 DEF PropertiesKeyword
  <2>2. g.base = f.base /\ g.root = f.root /\ g.stage = f.stage
    BY <1>1 DEF FramesOf
  <2>3. /\ h.base = f.base /\ h.root = f.root /\ h.schema = x /\ h.stage = "register"
        /\ h.todo # <<>> /\ Head(h.todo) = x
    BY DEF Frame
  <2>4. Located(f.root) /\ (f.base # NULL => f.base \in Known)
    BY <1>1, <2>1 DEF Settled, Walking
  <2>5. Settled(g)' /\ Settled(h)'
    BY <1>2, <2>1, <2>2, <2>3, <2>4 DEF Settled, Located, Id, Walking
  <2> QED
    BY <1>0, <2>1, <2>5, CallSettles
<1>5. CASE RefKeyword(t)
  <2> PICK root : root = resolvedRoot[f.schema]
    OBVIOUS
  <2> PICK target : target = resolved[f.schema]
    OBVIOUS
  <2> PICK g : g = [f EXCEPT !.left = @ \ {0}]
    OBVIOUS
  <2> PICK h : h = Frame(target, IF root = NULL THEN f.root ELSE root, RefBase(f), f.instance)
    OBVIOUS
  <2>1. /\ frames' = [frames EXCEPT ![t] = Append(Front(@) \o <<g>>, h)]
        /\ f.stage = "keywords" /\ target # NULL
    BY <1>5 DEF RefKeyword
  <2>2. g.base = f.base /\ g.root = f.root /\ g.stage = f.stage
    BY <1>1 DEF FramesOf
  <2>3. root # NULL
    BY <1>1, <2>1, TargetFits
  <2>4. root \in Schemas /\ Located(root)
    BY <1>1, <2>3 DEF Typed, InPlay, Calm, Rooted
  <2>5. RefBase(f) = DocumentPath(root)
    BY <2>3 DEF RefBase
  <2>6. /\ h.base = DocumentPath(root) /\ h.root = root /\ h.schema = target
        /\ h.stage = "register" /\ h.todo # <<>> /\ Head(h.todo) = target
    BY <2>3, <2>5 DEF Frame
  <2>7. h.base # NULL => h.base \in Known
    BY <2>4, <2>6, PathKnown DEF Calm
  <2>8. Settled(g)' /\ Settled(h)'
    BY <1>1, <1>2, <2>1, <2>2, <2>4, <2>6, <2>7 DEF Settled, Located, Id, Walking
  <2> QED
    BY <1>0, <2>1, <2>8, CallSettles
<1>6. CASE Return(t)
  BY <1>0, <1>6, ReturnBecomes, SettledStep DEF Return
<1> QED
  BY <1>3, <1>4, <1>5, <1>6

LEMMA FramesSettledStep ==
  ASSUME Orderly(Schemas), Typed, Fresh, Tracked, Calm, [Next]_vars,
         Known \subseteq Known'
  PROVE FramesSettled'
<1>0. FramesSettled /\ frames \in [Threads -> Seq(FramesOf(Schemas))]
  BY DEF Calm, Typed, InPlay
<1>1. CASE UNCHANGED frames
  <2>1. \A t \in Threads : Become(t, {})
    BY <1>1 DEF Become
  <2>2. CASE Threads = {}
    BY <2>2 DEF FramesSettled
  <2>3. ASSUME NEW t \in Threads PROVE FramesSettled'
    BY <1>0, <2>1, <2>3, SettledStep
  <2> QED
    BY <2>2, <2>3
<1>2. ASSUME NEW t \in Threads, NEW s \in Roots, NEW i \in Instances, Validate(t, s, i)
      PROVE FramesSettled'
  <2> PICK g : g = Frame(s, s, NULL, i)
    OBVIOUS
  <2>1. frames' = [frames EXCEPT ![t] = <<g>>]
    BY <1>2 DEF Validate
  <2>2. Become(t, {g})
    <3> SUFFICES ASSUME NEW u \in Threads, NEW j \in 1 .. Len(frames'[u])
                 PROVE \/ u = t /\ frames'[u][j] \in {g}
                       \/ j \in 1 .. Len(frames[u]) /\ frames'[u][j] = frames[u][j]
      BY DEF Become
    <3>1. CASE u = t
      <4>1. frames'[u] = <<g>>
        BY <1>0, <2>1, <3>1
      <4> QED
        BY <3>1, <4>1
    <3>2. CASE u # t
      BY <1>0, <2>1, <3>2
    <3> QED
      BY <3>1, <3>2
  <2>3. Settled(g)'
    BY DEF Frame, Settled, Walking
  <2> QED
    BY <1>0, <2>2, <2>3, SettledStep
<1>3. ASSUME NEW t \in Threads, ResolveRoot(t) \/ ResolveTarget(t)
      PROVE FramesSettled'
  <2> PICK f : f = Top(t)
    OBVIOUS
  <2>1. ~ Idle(t) /\ ~ Walking(f)
    BY <1>3 DEF ResolveRoot, ResolveTarget, Walking
  <2>2. f \in FramesOf(Schemas) /\ Settled(f)
    BY <1>0, <2>1, TopTyped, TopSettled
  <2>3. PICK g : /\ g \in {[f EXCEPT !.stage = "resolve"], [f EXCEPT !.stage = "keywords"]}
                 /\ UNCHANGED frames \/ SetTop(t, g) \/ Throw(t)
    BY <1>3 DEF ResolveRoot, ResolveTarget, Continue, NoRoot
  <2>4. g.base = f.base /\ g.root = f.root /\ ~ Walking(g)
    BY <2>2, <2>3 DEF FramesOf, Walking
  <2>5. Settled(g)'
    BY <2>1, <2>2, <2>4 DEF Settled, Located, Id, Walking
  <2> QED
    BY <1>0, <1>1, <2>1, <2>3, <2>5, TopSettles, ThrowBecomes, SettledStep DEF Throw
<1>4. CASE UNCHANGED vars
  BY <1>1, <1>4 DEF vars
<1> QED
  BY <1>1, <1>2, <1>3, <1>4, CallFrames, WalkSettled, KeywordsSettled DEF Next, Proceed

LEMMA UndisturbedStep ==
  ASSUME Orderly(Schemas), Typed, Fresh, AtPaths, Tracked, Undisturbed, [Next]_vars
  PROVE Undisturbed'
<1> SUFFICES ASSUME ~ overlapped', ~ removed' PROVE Calm'
  BY DEF Undisturbed
<1>1. ~ overlapped /\ ~ removed /\ Known \subseteq Known'
  BY QuietBefore
<1>2. Calm
  BY <1>1 DEF Undisturbed
<1>3. Alone' /\ Loaded' /\ Kept'
  BY <1>1, <1>2, AloneStep, LoadedStep DEF Calm, Kept, Id
<1> QED
  BY <1>1, <1>2, <1>3, MarkedStep, PathedStep, RootedStep, FramesSettledStep DEF Calm

------------------------------------------------------------------------------
(* A validation of what is in C stays in C, and finds a root for each      *)
(* reference on its way.                                                   *)
Sound(C, f) == f.schema \in C /\ (f.stage = "resolve" => resolvedRoot[f.schema] # NULL)

Succeeds(C) ==
  \A t \in Threads : outcome[t].root \in C =>
    outcome[t].how # "threw" /\ \A i \in 1 .. Len(frames[t]) : Sound(C, frames[t][i])

SucceedsAlone(C) == ~ overlapped /\ ~ removed => Succeeds(C)

LEMMA RegisteredIsGot ==
  ASSUME Typed, NEW u \in Uris, At(u) \in Known
  PROVE Got(u) # NULL
<1>1. Registered(At(u)) = lookup[At(u)] /\ lookup[At(u)] \in Schemas
  BY KnownIs, AtIsAddress DEF Registered, Found, Typed, InPlay
<1> QED
  BY <1>1, NullIsNothing DEF Downloads, Got

LEMMA OnlineIsGot ==
  ASSUME Typed, Loaded, NEW u \in Uris, Online[u] # <<>>
  PROVE Got(u) # NULL
<1>1. CASE Downloads(u)
  BY <1>1, DownloadTyped, NullIsNothing
<1>2. CASE ~ Downloads(u) /\ At(u) \notin Known
  <2>1. Registered(At(u)) = NULL
    BY <1>2, KnownIs, AtIsAddress DEF Registered, Found
  <2>2. Len(Online[u]) \in Nat /\ Len(Online[u]) # 0 /\ fetched[u] \in Nat
    BY DocumentShape, LenProperties, EmptySeq DEF Typed
  <2>3. fetched[u] > 0
    BY <1>2, <2>1, <2>2 DEF Downloads
  <2> QED
    BY <1>2, <2>3 DEF Loaded
<1> QED
  BY <1>1, <1>2, RegisteredIsGot

(* The document around a schema whose keywords are validated is registered,*)
(* if it has an id.                                                        *)
LEMMA HomeIsGot ==
  ASSUME Orderly(Schemas), Typed, NEW f \in FramesOf(Schemas), Fits(f), Settled(f), ~ Walking(f),
         NEW u \in Uris, Resource[f.schema] \in Documents(u), Online[u] = <<>>
  PROVE Got(u) # NULL
<1>1. CASE f.base # NULL
  <2>1. f.schema \in Schemas
    BY DEF FramesOf
  <2>2. PICK v \in Uris : TrimEnd(f.base) = At(v) /\ Resource[f.schema] \in Documents(v)
    BY <1>1 DEF Fits, PlacedAt
  <2>3. v = u
    BY <2>2, DocumentsAre DEF Orderly
  <2>4. At(u) \in Known
    BY <1>1, <2>2, <2>3, KnownIs DEF Settled
  <2> QED
    BY <2>4, RegisteredIsGot
<1>2. CASE f.base = NULL
  <2>1. f.root = Resource[f.schema] /\ Located(f.root)
    BY <1>2 DEF Fits, Settled
  <2>2. Id(f.root) # NULL
    BY <2>1 DEF Documents, Range
  <2>3. TrimEnd(Id(f.root)) = At(u)
    BY <2>1, <2>2, IdOfDocument
  <2>4. At(u) \in Known
    BY <2>1, <2>2, <2>3, KnownIs DEF Located
  <2> QED
    BY <2>4, RegisteredIsGot
<1> QED
  BY <1>1, <1>2

LEMMA RootIsFound ==
  ASSUME Orderly(Schemas), NEW C, Connected(C), Typed, Tracked, Calm, NEW t \in Threads,
         ResolveRoot(t), Top(t).schema \in C
  PROVE  /\ SetTop(t, [Top(t) EXCEPT !.stage = "resolve"])
         /\ \E r : r # NULL /\ resolvedRoot' = [resolvedRoot EXCEPT ![Top(t).schema] = r]
<1> DEFINE f == Top(t)
           s == f.schema
           known == IF IsLocalSchemaId(Ref(s)) THEN Found(local[t], TrimEnd(Ref(s))) ELSE NULL
           address == IF Ref(s).uri # NULL \/ f.base = NULL THEN Ref(s).uri ELSE f.base.uri
<1>1. /\ f \in FramesOf(Schemas) /\ s \in Schemas /\ Fits(f) /\ Settled(f)
      /\ ~ Walking(f) /\ 0 \in f.left
  BY TopSettled, TopFits DEF ResolveRoot, Calm, Tracked, Walking
<1>2. Ref(s) # NULL
  BY <1>1 DEF FramesOf, Suits
<1>3. address \in Uris \cup {NULL}
  BY <1>1, RootAddress
<1>4. known = NULL
  BY <1>1, <1>2, SchemaTypes, NoNameIsFound DEF Tracked
<1>5. /\ SetTop(t, [f EXCEPT !.stage = "resolve"])
      /\ \/ address # NULL /\ resolvedRoot' = [resolvedRoot EXCEPT ![s] = Got(address)]
         \/ address = NULL /\ resolvedRoot' = [resolvedRoot EXCEPT ![s] = f.root]
  BY <1>4 DEF ResolveRoot
<1>6. f.root # NULL
  BY <1>1, NullIsNothing DEF FramesOf
<1>7. ASSUME address # NULL
      PROVE Got(address) # NULL
  <2>1. CASE Ref(s).uri # NULL
    <3>1. address = Ref(s).uri /\ address \in Uris
      BY <1>3, <2>1
    <3>2. Available(address) \/ Resource[s] \in Documents(address)
      BY <1>2, <2>1, <3>1 DEF Connected
    <3> HIDE DEF address
    <3>3. ASSUME At(address) \in DOMAIN BuiltIn
          PROVE Got(address) # NULL
      <4> DEFINE m == BuiltIn[At(address)]
      <4>1. m \in MetaSchemas /\ TrimEnd(Id(m)) = At(address)
        BY <3>3, MetaSchemasHaveIds DEF PutAt
      <4>2. Id(m) \in Known
        BY <4>1 DEF Calm, Kept
      <4>3. At(address) \in Known
        BY <4>1, <4>2, KnownIs
      <4> QED
        BY <3>1, <4>3, RegisteredIsGot
    <3> QED
      BY <1>1, <3>1, <3>2, <3>3, OnlineIsGot, HomeIsGot DEF Calm, Available
  <2>2. CASE Ref(s).uri = NULL
    <3>1. f.base # NULL
      BY <1>7, <2>2
    <3>2. address = f.base.uri /\ f.base.uri \in Uris /\ TrimEnd(f.base) = At(f.base.uri)
      BY <1>1, <2>2, <3>1, PlacedIsAddress DEF Fits
    <3>3. f.base \in Known
      BY <1>1, <3>1 DEF Settled
    <3>4. At(f.base.uri) \in Known
      BY <3>2, <3>3, KnownIs
    <3> QED
      BY <3>2, <3>4, RegisteredIsGot
  <2> QED
    BY <2>1, <2>2
<1> QED
  BY <1>5, <1>6, <1>7

LEMMA TargetIsFound ==
  ASSUME Orderly(Schemas), NEW C, Connected(C), Typed, Fresh, Tracked, NEW t \in Threads,
         ResolveTarget(t), Sound(C, Top(t))
  PROVE Continue(t)
<1> DEFINE f == Top(t)
           s == f.schema
           root == resolvedRoot[s]
           wellKnown == Registered(Ref(s))
           whole == ~ IsPointer(Ref(s)) /\ ~ IsLocalSchemaId(TrimEnd(Ref(s)))
           sub == ResolveSubschema(root, Ref(s))
           base == BaseOf(root, f.base)
           path == DocumentPath(sub)
           placed == path = NULL \/ (base # NULL /\ IsAbsolute(base))
<1>1. f.schema \in Schemas /\ Fits(f) /\ RefFits(f.schema) /\ s \in C /\ root # NULL
  BY TopFits DEF ResolveTarget, Tracked, Sound
<1>2. Ref(s) # NULL /\ root \in DocumentsOf(s) /\ Ref(s) \in Addresses
  BY <1>1, SchemaTypes DEF RefFits
<1>3. ASSUME ~ whole
      PROVE sub # NULL
  <2>1. TrimEnd(Ref(s)).frag # <<>>
    <3>1. ASSUME TrimEnd(Ref(s)).frag = <<>>
          PROVE FALSE
      <4>1. ~ IsLocalSchemaId(TrimEnd(Ref(s)))
        BY <3>1 DEF IsLocalSchemaId
      <4>2. Ref(s).frag = <<"#">> \/ Ref(s).frag = <<>>
        BY <3>1 DEF TrimEnd
      <4>3. <<"#">>[1] # "#/"
        OBVIOUS
      <4>4. ~ IsPointer(Ref(s))
        BY <4>2, <4>3 DEF IsPointer
      <4> QED
        BY <1>3, <4>1, <4>4
    <3> QED
      BY <3>1
  <2>2. \A d \in DocumentsOf(s) : ResolveSubschema(d, Ref(s)) # NULL
    BY <1>1, <1>2, <2>1 DEF Connected
  <2> QED
    BY <1>2, <2>2
<1>4. ASSUME sub # NULL
      PROVE placed
  <2>1. /\ root \in Schemas /\ Resource[root] = root /\ sub \in Schemas /\ Resource[sub] = root
        /\ base # NULL => PlacedAt(base, sub)
        /\ path # NULL => PlacedAt(path, sub)
    BY <1>1, <1>4, TargetPlaced DEF Tracked
  <2>2. ASSUME path # NULL
        PROVE base # NULL
    <3>1. PICK u \in Uris : root \in Documents(u)
      BY <2>1, <2>2 DEF PlacedAt
    <3>2. root \notin Awaited
      BY <1>1 DEF Fresh, InPlay
    <3>3. DocumentPath(root) # NULL
      BY <3>1, <3>2, PathOfDocument DEF Tracked
    <3> QED
      BY <3>3 DEF BaseOf
  <2> QED
    BY <2>1, <2>2, PlacedIsAddress
<1> HIDE DEF whole, sub, base, path, placed, wellKnown
<1>5. \/ Continue(t)
      \/ ~ whole /\ (sub # NULL => ~ placed)
  BY <1>1 DEF ResolveTarget, whole, sub, base, path, placed, wellKnown
<1> QED
  BY <1>3, <1>4, <1>5

LEMMA DesignatedIn ==
  ASSUME NEW C, Connected(C), NEW s \in C, Ref(s) # NULL, NEW x \in Designated[s]
  PROVE x \in C
<1>0. s \in Schemas /\ DocumentsOf(s) \subseteq C /\ C \subseteq Schemas /\ Closed(C)
  BY DEF Connected, Closed
<1>1. CASE TrimEnd(Ref(s)).frag = <<>>
  BY <1>0, <1>1, WholeDesignated
<1>2. CASE IsPointer(Ref(s))
  <2>1. Designated[s] = {ResolveSubschema(d, Ref(s)) : d \in DocumentsOf(s)} \ {NULL}
    BY <1>0, <1>2 DEF Designated
  <2>2. PICK d \in DocumentsOf(s) : x = ResolveSubschema(d, Ref(s)) /\ x # NULL
    BY <2>1
  <2>3. PICK i \in DOMAIN Schema[d].subschemas : x = Schema[d].subschemas[i].schema
    BY <1>0, <2>2, SubschemaIn
  <2> QED
    BY <1>0, <2>3 DEF Closed
<1> QED
  BY <1>1, <1>2 DEF Connected

LEMMA TopSound ==
  ASSUME Typed, NEW C, Succeeds(C), NEW t \in Threads, ~ Idle(t), outcome[t].root \in C
  PROVE Sound(C, Top(t))
<1>1. frames \in [Threads -> Seq(FramesOf(Schemas))]
  BY DEF Typed, InPlay
<1>2. Len(frames[t]) \in Nat \ {0} /\ Top(t) = frames[t][Len(frames[t])]
  BY <1>1, TopIsIn DEF Top, Idle
<1> QED
  BY <1>2 DEF Succeeds

LEMMA SucceedsWith ==
  ASSUME NEW C, Connected(C), Typed, Succeeds(C),
         \A s \in C : resolvedRoot[s] # NULL => resolvedRoot'[s] # NULL,
         NEW t \in Threads, \A u \in Threads \ {t} : outcome'[u] = outcome[u],
         NEW new, Become(t, new),
         outcome'[t].root \in C =>
           /\ outcome'[t].how # "threw"
           /\ outcome[t].root \in C \/ Idle(t)
           /\ \A g \in new : Sound(C, g)'
  PROVE Succeeds(C)'
<1> SUFFICES ASSUME NEW u \in Threads, outcome'[u].root \in C
             PROVE outcome'[u].how # "threw" /\ \A i \in 1 .. Len(frames'[u]) : Sound(C, frames[u][i])'
  BY DEF Succeeds
<1>1. outcome'[u].how # "threw"
  BY DEF Succeeds
<1>2. ASSUME NEW i \in 1 .. Len(frames'[u])
      PROVE Sound(C, frames[u][i])'
  <2>1. CASE u = t /\ frames'[u][i] \in new
    BY <2>1 DEF Sound
  <2>2. CASE i \in 1 .. Len(frames[u]) /\ frames'[u][i] = frames[u][i]
    <3>1. ~ Idle(u)
      <4>1. Len(<<>>) = 0
        OBVIOUS
      <4> QED
        BY <2>2, <4>1 DEF Idle
    <3>2. Sound(C, frames[u][i])
      BY <2>2, <3>1 DEF Succeeds
    <3> QED
      BY <2>2, <3>2 DEF Sound
  <2> QED
    BY <2>1, <2>2 DEF Become
<1> QED
  BY <1>1, <1>2

(* The cases of a thread that goes on: with the same calls or fewer, with  *)
(* another state of the innermost one, and with one more.                  *)
LEMMA SucceedsWithout ==
  ASSUME NEW C, Connected(C), Typed, Succeeds(C),
         \A s \in C : resolvedRoot[s] # NULL => resolvedRoot'[s] # NULL,
         NEW t \in Threads, \A u \in Threads \ {t} : outcome'[u] = outcome[u], Become(t, {}),
         outcome'[t].root = outcome[t].root,
         outcome[t].root \in C => outcome'[t].how # "threw"
  PROVE Succeeds(C)'
<1>1. \A g \in {} : Sound(C, g)'
  OBVIOUS
<1> QED
  BY <1>1, SucceedsWith

LEMMA SucceedsWithTop ==
  ASSUME NEW C, Connected(C), Typed, Succeeds(C),
         \A s \in C : resolvedRoot[s] # NULL => resolvedRoot'[s] # NULL,
         NEW t \in Threads, ~ Idle(t), UNCHANGED outcome, NEW f, SetTop(t, f),
         outcome[t].root \in C => Sound(C, f)'
  PROVE Succeeds(C)'
<1>1. outcome[t].root \in C => \A g \in {f} : Sound(C, g)'
  BY DEF Sound
<1>2. Become(t, {f})
  BY TopBecomes
<1>3. outcome'[t].root \in C => outcome[t].root \in C /\ outcome'[t].how # "threw"
  BY DEF Succeeds
<1> QED
  BY <1>1, <1>2, <1>3, SucceedsWith

LEMMA SucceedsWithCall ==
  ASSUME NEW C, Connected(C), Typed, Succeeds(C),
         \A s \in C : resolvedRoot[s] # NULL => resolvedRoot'[s] # NULL,
         NEW t \in Threads, ~ Idle(t), UNCHANGED outcome, NEW f, NEW g,
         frames' = [frames EXCEPT ![t] = Append(Front(@) \o <<f>>, g)],
         outcome[t].root \in C => Sound(C, f)' /\ Sound(C, g)'
  PROVE Succeeds(C)'
<1>1. outcome[t].root \in C => \A x \in {f, g} : Sound(C, x)'
  BY DEF Sound
<1>2. Become(t, {f, g})
  BY CallBecomes
<1>3. outcome'[t].root \in C => outcome[t].root \in C /\ outcome'[t].how # "threw"
  BY DEF Succeeds
<1> QED
  BY <1>1, <1>2, <1>3, SucceedsWith

LEMMA SucceedsStep ==
  ASSUME Orderly(Schemas), NEW C, Connected(C), Typed, Fresh, Tracked, Calm, Succeeds(C),
         [Next]_vars
  PROVE Succeeds(C)'
<1>0. /\ C \subseteq Schemas /\ Closed(C)
      /\ frames \in [Threads -> Seq(FramesOf(Schemas))]
      /\ resolvedRoot \in [Schemas -> Schemas \cup {NULL}]
      /\ outcome \in [Threads -> [root : Roots \cup {NULL}, how : {"none", "valid", "threw"}]]
  BY DEF Connected, Closed, Typed, InPlay
<1>1. CASE UNCHANGED <<frames, outcome, resolvedRoot>>
  BY <1>1 DEF Succeeds, Sound
<1>2. ASSUME NEW t \in Threads, NEW s \in Roots, NEW i \in Instances, Validate(t, s, i)
      PROVE Succeeds(C)'
  <2> PICK g : g = Frame(s, s, NULL, i)
    OBVIOUS
  <2>1. /\ Idle(t) /\ frames' = [frames EXCEPT ![t] = <<g>>]
        /\ outcome' = [outcome EXCEPT ![t] = [root |-> s, how |-> "none"]]
        /\ UNCHANGED resolvedRoot
    BY <1>2 DEF Validate, MakesCall, schemaVars
  <2>2. Become(t, {g})
    <3> SUFFICES ASSUME NEW u \in Threads, NEW j \in 1 .. Len(frames'[u])
                 PROVE \/ u = t /\ frames'[u][j] \in {g}
                       \/ j \in 1 .. Len(frames[u]) /\ frames'[u][j] = frames[u][j]
      BY DEF Become
    <3>1. CASE u = t
      <4>1. frames'[u] = <<g>>
        BY <1>0, <2>1, <3>1
      <4> QED
        BY <3>1, <4>1
    <3>2. CASE u # t
      BY <1>0, <2>1, <3>2
    <3> QED
      BY <3>1, <3>2
  <2>3. outcome'[t].root = s /\ outcome'[t].how = "none"
    BY <1>0, <2>1
  <2>4. s \in C => \A x \in {g} : Sound(C, x)'
    BY DEF Frame, Sound
  <2>5. \A u \in Threads \ {t} : outcome'[u] = outcome[u]
    BY <1>0, <2>1
  <2> QED
    BY <2>1, <2>2, <2>3, <2>4, <2>5, SucceedsWith
<1>3. ASSUME NEW t \in Threads, Proceed(t)
      PROVE Succeeds(C)'
  <2> PICK f : f = Top(t)
    OBVIOUS
  <2>1. ~ Idle(t) /\ f \in FramesOf(Schemas) /\ f.schema \in Schemas
    BY <1>3, OthersStay, TopFits DEF Tracked
  <2>2. outcome[t].root \in C => Sound(C, f)
    BY <2>1, TopSound
  <2>3. CASE Pass(t) \/ Mark(t) \/ RegisterSubschemas(t)
    <3>1. PICK g : SetTop(t, g) /\ g.schema = f.schema /\ g.stage # "resolve"
      <4>1. CASE Pass(t)
        <5> DEFINE g == IF hasRegistered[Head(f.todo)] THEN [f EXCEPT !.todo = Tail(@)]
                        ELSE [f EXCEPT !.stage = "marking"]
        <5>1. SetTop(t, g) /\ f.stage = "register"
          BY <4>1 DEF Pass
        <5>2. g.schema = f.schema /\ g.stage # "resolve"
          BY <2>1, <5>1 DEF FramesOf
        <5> QED
          BY <5>1, <5>2
      <4>2. CASE Mark(t)
        <5> DEFINE g == [f EXCEPT !.stage = "registering"]
        <5>1. SetTop(t, g)
          BY <4>2 DEF Mark
        <5>2. g.schema = f.schema /\ g.stage # "resolve"
          BY <2>1 DEF FramesOf
        <5> QED
          BY <5>1, <5>2
      <4>3. CASE RegisterSubschemas(t)
        <5> DEFINE s == Head(f.todo)
                   g == [f EXCEPT !.stage = "register",
                                  !.base = IF Registers(f, s) THEN Address(f, s) ELSE @,
                                  !.todo = Subschemas(s) \o Tail(@)]
        <5>1. SetTop(t, g)
          BY <4>3 DEF RegisterSubschemas
        <5>2. g.schema = f.schema /\ g.stage # "resolve"
          BY <2>1 DEF FramesOf
        <5> QED
          BY <5>1, <5>2
      <4> QED
        BY <2>3, <4>1, <4>2, <4>3
    <3>2. UNCHANGED <<resolvedRoot, outcome>>
      BY <2>3 DEF Pass, Mark, RegisterSubschemas, schemaVars
    <3>3. outcome[t].root \in C => Sound(C, g)'
      BY <2>2, <3>1 DEF Sound
    <3> QED
      BY <2>1, <3>1, <3>2, <3>3, SucceedsWithTop
  <2>4. CASE Begin(t)
    <3>1. ~ CannotJoin(f)
      BY <2>1, PathPlaced, PlacedIsAddress DEF Tracked, CannotJoin
    <3> PICK g : g = [f EXCEPT !.stage = "keywords", !.base = BaseUri(f), !.left = Keywords(f)]
      OBVIOUS
    <3>2. SetTop(t, g) /\ UNCHANGED <<resolvedRoot, outcome>>
      BY <2>4, <3>1 DEF Begin
    <3>3. g.schema = f.schema /\ g.stage = "keywords"
      BY <2>1 DEF FramesOf
    <3>4. outcome[t].root \in C => Sound(C, g)'
      BY <2>2, <3>3 DEF Sound
    <3> QED
      BY <2>1, <3>2, <3>4, SucceedsWithTop
  <2>5. CASE PropertiesKeyword(t)
    <3> PICK i : i = Min(f.left)
      OBVIOUS
    <3> PICK x : x = Subschemas(f.schema)[i]
      OBVIOUS
    <3> PICK g : g = [f EXCEPT !.left = @ \ {i}]
      OBVIOUS
    <3> PICK h : h = Frame(x, f.root, f.base, {})
      OBVIOUS
    <3>1. /\ frames' = [frames EXCEPT ![t] = Append(Front(@) \o <<g>>, h)]
          /\ UNCHANGED <<resolvedRoot, outcome>> /\ f.stage = "keywords"
          /\ f.left # {} /\ 0 \notin f.left
      BY <2>5 DEF PropertiesKeyword, schemaVars
    <3>2. g.schema = f.schema /\ g.stage = "keywords" /\ h.schema = x /\ h.stage = "register"
      BY <2>1, <3>1 DEF FramesOf, Frame
    <3>3. i \in DOMAIN Schema[f.schema].subschemas
      <4>1. i \in f.left
        BY <2>1, <3>1, MinIsLeast DEF FramesOf
      <4> QED
        BY <2>1, <3>1, <4>1 DEF FramesOf, Suits
    <3>4. f.schema \in C => x \in C
      BY <1>0, <3>3 DEF Closed, Subschemas
    <3>5. outcome[t].root \in C => Sound(C, g)' /\ Sound(C, h)'
      BY <2>2, <3>2, <3>4 DEF Sound
    <3> QED
      BY <2>1, <3>1, <3>5, SucceedsWithCall
  <2>6. CASE RefKeyword(t)
    <3> PICK x : x = resolved[f.schema]
      OBVIOUS
    <3> PICK g : g = [f EXCEPT !.left = @ \ {0}]
      OBVIOUS
    <3> PICK h : h = Frame(x, IF resolvedRoot[f.schema] = NULL THEN f.root ELSE resolvedRoot[f.schema],
                           RefBase(f), f.instance)
      OBVIOUS
    <3>1. /\ frames' = [frames EXCEPT ![t] = Append(Front(@) \o <<g>>, h)]
          /\ UNCHANGED <<resolvedRoot, outcome>> /\ f.stage = "keywords" /\ x # NULL
      BY <2>6 DEF RefKeyword
    <3>2. g.schema = f.schema /\ g.stage = "keywords" /\ h.schema = x /\ h.stage = "register"
      BY <2>1, <3>1 DEF FramesOf, Frame
    <3>3. Ref(f.schema) # NULL /\ x \in Designated[f.schema]
      BY <2>1, <3>1 DEF Tracked, RefFits
    <3>4. f.schema \in C => x \in C
      BY <3>3, DesignatedIn
    <3>5. outcome[t].root \in C => Sound(C, g)' /\ Sound(C, h)'
      BY <2>2, <3>2, <3>4 DEF Sound
    <3> QED
      BY <2>1, <3>1, <3>5, SucceedsWithCall
  <2>7. CASE ResolveRoot(t)
    <3> PICK g : g = [f EXCEPT !.stage = "resolve"]
      OBVIOUS
    <3>0. g.schema = f.schema
      BY <2>1 DEF FramesOf
    <3>1. UNCHANGED outcome /\ \E r : \/ UNCHANGED resolvedRoot
                                     \/ resolvedRoot' = [resolvedRoot EXCEPT ![f.schema] = r]
      BY <2>7 DEF ResolveRoot
    <3>2. CASE f.schema \in C
      <4>1. SetTop(t, g)
        BY <2>7, <3>2, RootIsFound
      <4>2. PICK r : r # NULL /\ resolvedRoot' = [resolvedRoot EXCEPT ![f.schema] = r]
        BY <2>7, <3>2, RootIsFound
      <4>3. resolvedRoot'[f.schema] # NULL /\ \A s \in C : resolvedRoot[s] # NULL => resolvedRoot'[s] # NULL
        BY <1>0, <2>1, <4>2
      <4>4. Sound(C, g)'
        BY <3>0, <3>2, <4>3 DEF Sound
      <4> QED
        BY <2>1, <3>1, <4>1, <4>3, <4>4, SucceedsWithTop
    <3>3. CASE f.schema \notin C
      <4>1. outcome[t].root \notin C
        BY <2>2, <3>3 DEF Sound
      <4>2. \A s \in C : resolvedRoot[s] # NULL => resolvedRoot'[s] # NULL
        BY <1>0, <2>1, <3>1, <3>3
      <4>3. SetTop(t, g) \/ UNCHANGED frames
        BY <2>7 DEF ResolveRoot
      <4>4. UNCHANGED frames => Become(t, {})
        BY DEF Become
      <4>5. outcome' = outcome
        BY <3>1
      <4> QED
        BY <2>1, <4>1, <4>2, <4>3, <4>4, <4>5, SucceedsWithTop, SucceedsWithout
    <3> QED
      BY <3>2, <3>3
  <2>8. CASE ResolveTarget(t)
    <3> PICK g : g = [f EXCEPT !.stage = "keywords"]
      OBVIOUS
    <3>0. g.schema = f.schema /\ g.stage = "keywords" /\ UNCHANGED resolvedRoot
      BY <2>1, <2>8 DEF FramesOf, ResolveTarget
    <3>1. CASE Continue(t)
      <4>1. SetTop(t, g) /\ UNCHANGED outcome
        BY <3>1 DEF Continue
      <4>2. outcome[t].root \in C => Sound(C, g)'
        BY <2>2, <3>0 DEF Sound
      <4> QED
        BY <2>1, <3>0, <4>1, <4>2, SucceedsWithTop
    <3>2. CASE ~ Continue(t)
      <4>1. outcome[t].root \notin C
        BY <2>2, <2>8, <3>2, TargetIsFound
      <4>2. Throw(t)
        BY <2>8, <3>2 DEF ResolveTarget, NoRoot
      <4>3. Become(t, {})
        BY <4>2, ThrowBecomes DEF Throw
      <4>4. outcome'[t].root = outcome[t].root /\ \A u \in Threads \ {t} : outcome'[u] = outcome[u]
        BY <1>0, <4>2 DEF Throw
      <4> QED
        BY <3>0, <4>1, <4>3, <4>4, SucceedsWithout
    <3> QED
      BY <3>1, <3>2
  <2>9. CASE Return(t)
    <3>1. Become(t, {}) /\ UNCHANGED resolvedRoot
      BY <2>1, <2>9, ReturnBecomes DEF Return, schemaVars
    <3>2. outcome' = outcome \/ outcome' = [outcome EXCEPT ![t].how = "valid"]
      BY <2>9 DEF Return
    <3>3. /\ outcome'[t].root = outcome[t].root /\ outcome'[t].how \in {outcome[t].how, "valid"}
          /\ \A u \in Threads \ {t} : outcome'[u] = outcome[u]
      BY <1>0, <3>2
    <3>4. outcome[t].root \in C => outcome'[t].how # "threw"
      BY <3>3 DEF Succeeds
    <3> QED
      BY <3>1, <3>3, <3>4, SucceedsWithout
  <2> QED
    BY <1>3, <2>3, <2>4, <2>5, <2>6, <2>7, <2>8, <2>9 DEF Proceed
<1>4. ASSUME NEW t \in Threads, Call(t)
      PROVE Succeeds(C)'
  BY <1>1, <1>2, <1>4 DEF Call, Register, Unregister, UnregisterAt, Fetch, Clear, schemaVars
<1>5. CASE UNCHANGED vars
  BY <1>1, <1>5 DEF vars, schemaVars
<1> QED
  BY <1>3, <1>4, <1>5 DEF Next

(* Calls of Validate that do not overlap find every reference of a plain   *)
(* document, whatever was validated, registered and downloaded before, if  *)
(* nothing is unregistered: what a call has walked is registered at its    *)
(* address (JsonSchema.cs:247-278), which is what the base of a reference  *)
(* is, and a download is registered as well (JsonSchemaRegistry.cs:38-55), *)
(* so that the root is found (RefKeyword.cs:164-214).                      *)
THEOREM PlainReferencesAreFound ==
  ASSUME Orderly(Schemas), NEW C, Connected(C)
  PROVE Spec => []FoundIfAlone
<1>1. Init => Tracked /\ Undisturbed /\ SucceedsAlone(C)
  <2> SUFFICES ASSUME Init PROVE Tracked /\ Calm /\ Succeeds(C)
    BY DEF Undisturbed, SucceedsAlone
  <2>1. /\ Answers /\ Kept
        /\ \A t \in Threads : /\ DOMAIN local[t] = {} /\ Len(frames[t]) = 0 /\ Idle(t)
                              /\ outcome[t].root = NULL
    BY EmptyIn, PutIsDocument, MetaSchemasHaveIds DEF Init, Idle, Answers, PutAt, Kept, Known,
       MetaSchemas
  <2>2. \A u \in Uris : fetched[u] = 0 /\ \A k \in DOMAIN Online[u] : ~ (k <= fetched[u])
    BY DocumentShape, LenProperties DEF Init
  <2>3. \A s \in Schemas : /\ documentPath[s] = NULL /\ resolved[s] = NULL /\ resolvedRoot[s] = NULL
                           /\ ~ hasRegistered[s]
    BY DEF Init
  <2>4. NULL \notin C
    BY NullIsNothing DEF Connected
  <2>5. Calm
    BY <2>1, <2>2, <2>3 DEF Calm, Alone, Marked, Pathed, Rooted, Loaded, FramesSettled
  <2>6. Succeeds(C)
    BY <2>1, <2>4 DEF Succeeds
  <2> QED
    BY <2>1, <2>2, <2>3, <2>5, <2>6 DEF Tracked, PathsPlaced, LoadedPlaced, FramesFit, RefFits, NoLocalNames
<1>2. Typed /\ Fresh /\ AtPaths /\ Tracked /\ [Next]_vars => Tracked'
  BY TrackedStep
<1>3. Typed /\ Fresh /\ AtPaths /\ Tracked /\ Undisturbed /\ [Next]_vars => Undisturbed'
  BY UndisturbedStep
<1>4. Typed /\ Fresh /\ AtPaths /\ Tracked /\ Undisturbed /\ SucceedsAlone(C) /\ [Next]_vars
        => SucceedsAlone(C)'
  <2> SUFFICES ASSUME Typed, Fresh, Tracked, Undisturbed, SucceedsAlone(C), [Next]_vars,
                      ~ overlapped', ~ removed'
               PROVE Succeeds(C)'
    BY DEF SucceedsAlone
  <2>1. ~ overlapped /\ ~ removed
    BY QuietBefore
  <2> QED
    BY <2>1, SucceedsStep DEF Undisturbed, SucceedsAlone
<1>5. SucceedsAlone(C) => FoundIfAlone
  BY DEF SucceedsAlone, Succeeds, FoundIfAlone, Connected
<1> QED
  BY <1>1, <1>2, <1>3, <1>4, <1>5, PathInvariant, PTL DEF Spec
===============================================================================
