--------------------------- MODULE SchemaReferences ---------------------------
(***************************************************************************)
(* How JsonSchema finds what a $ref names: the static registry of schemas  *)
(* by address, which holds the meta-schemas from the start, and which      *)
(* Validate fills and Get downloads into; the registry of local names that *)
(* each call of Validate makes; the walk in which a schema registers its   *)
(* subschemas, once in its life; and the RefKeyword, which keeps what it   *)
(* found. Threads share the schemas and the registry.                      *)
(*                                                                         *)
(* Schemas consist of $id, $anchor, $ref and subschemas under properties   *)
(* and definitions: the other keywords hold subschemas in the same way.    *)
(* Instances are objects, given as their property names, with values that  *)
(* are no objects, and everything is valid. Relative addresses other than  *)
(* fragments, and pointers to anything but a direct subschema, are left    *)
(* out; so is the validation of a root against the meta-schemas, which     *)
(* sets the drafts that it supports from its keywords and $schema, and     *)
(* does to them what Validate does to any root.                            *)
(***************************************************************************)
EXTENDS Naturals, SequencesExt

CONSTANTS
  Threads,
  Schemas,   (* the schema objects, subschemas included                    *)
  Schema,    (* each one: [id, anchor, ref, subschemas, draft], where draft*)
             (* is "older", "2019-09", or "any" of both                    *)
  Roots,     (* the schemas that the program validates with                *)
  Instances, (* the instances: sets of property names                      *)
  Uris,      (* absolute URIs without fragments                            *)
  Online,    (* for each URI, the schemas that its downloads give in turn  *)
  BuiltIn,   (* the registry with the meta-schemas alone, by address       *)
  MayRemove, (* whether the program unregisters schemas                    *)
  MaxCalls,  (* bound: calls that the program makes                        *)
  NULL

(* An id or reference is split at its '#'. Of frag, <<>> is no fragment,   *)
(* <<"#">> an empty one, <<"#", name>> a local name, and                   *)
(* <<"#/", keyword, key>> a pointer.                                       *)
Local(name) == [uri |-> NULL, frag |-> <<"#", name>>]
At(uri) == [uri |-> uri, frag |-> <<>>]

TrimEnd(a) == IF a.frag = <<"#">> THEN At(a.uri) ELSE a
IsAbsolute(a) == a.uri # NULL
IsPointer(a) == a.frag # <<>> /\ a.frag[1] = "#/"
IsLocalSchemaId(a) ==
  a.frag # <<>> /\ ~ IsPointer(a) /\ ~ (a.uri = NULL /\ a.frag = <<"#">>)

(* new Uri(base, a), a an absolute URI or a fragment                       *)
Join(base, a) == IF IsAbsolute(a) THEN a ELSE [a EXCEPT !.uri = base.uri]

Parts == {"#", "#/"} \cup STRING
Addresses == [uri : Uris \cup {NULL}, frag : Seq(Parts)]

Keyed == [at : Seq(STRING), schema : Schemas]

ASSUME NullIsNothing == NULL \notin Schemas \cup Uris \cup Addresses

ASSUME SchemaShape ==
  Schema \in [Schemas -> [id : Addresses \cup {NULL}, anchor : STRING \cup {NULL},
                         ref : Addresses \cup {NULL}, subschemas : Seq(Keyed),
                         draft : {"older", "2019-09", "any"}]]

ASSUME DocumentShape ==
  /\ Roots \subseteq Schemas
  /\ Online \in [Uris -> Seq(Schemas)]

(* A meta-schema is registered at its id without the trailing '#', which   *)
(* those before draft 2019-09 have, and the schema of JSON patches.        *)
ASSUME BuiltInShape ==
  /\ DOMAIN BuiltIn \subseteq {At(u) : u \in Uris}
  /\ BuiltIn \in [DOMAIN BuiltIn -> Schemas]
  /\ \A a \in DOMAIN BuiltIn : Schema[BuiltIn[a]].id # NULL /\ TrimEnd(Schema[BuiltIn[a]].id) = a

MetaSchemas == {BuiltIn[a] : a \in DOMAIN BuiltIn}
Documented == Roots \cup MetaSchemas \cup UNION {Range(Online[u]) : u \in Uris}

(* An id without a URI is a fragment.                                      *)
ASSUME FragmentIds ==
  \A s \in Schemas : Schema[s].id # NULL /\ Schema[s].id.uri = NULL => Schema[s].id.frag # <<>>

(* The id of a whole document is an absolute URI, if it has one.           *)
ASSUME DocumentIds ==
  \A s \in Documented : Schema[s].id = NULL \/ IsAbsolute(Schema[s].id)

(* A document is no part of another, nor of itself.                        *)
ASSUME WholeDocuments ==
  \A s \in Schemas : \A i \in DOMAIN Schema[s].subschemas :
    Schema[s].subschemas[i].schema \notin Documented

(* The text of every download is read into new objects.                    *)
ASSUME NewDownloads ==
  /\ \A u \in Uris : Range(Online[u]) \cap (Roots \cup MetaSchemas) = {}
  /\ \A u, v \in Uris : \A i \in DOMAIN Online[u], j \in DOMAIN Online[v] :
       Online[u][i] = Online[v][j] => u = v /\ i = j

VARIABLES
  lookup,        (* _schemaLookup: the registry                            *)
  fetched,       (* how often each URI has been downloaded                 *)
  hasRegistered, (* _hasRegistered, of each schema                         *)
  documentPath,  (* _documentPath, of each schema                          *)
  resolved,      (* RefKeyword.Resolved, of each schema with a $ref        *)
  resolvedRoot,  (* RefKeyword._resolvedRoot                               *)
  frames,        (* for each thread, its calls of Validate, outermost first*)
  local,         (* for each thread, the LocalRegistry of its call         *)
  outcome,       (* for each thread, its last Validate: [root, how]        *)
  calls,         (* how many calls the program has made                    *)
  overlapped,    (* history: two validations were under way at once        *)
  removed        (* history: schemas were removed from the registry        *)

schemaVars == <<hasRegistered, documentPath, resolved, resolvedRoot>>
vars == <<lookup, fetched, schemaVars, frames, local, outcome, calls, overlapped, removed>>

Empty == [k \in {} |-> NULL]
With(f, x, y) == [k \in DOMAIN f \cup {x} |-> IF k = x THEN y ELSE f[k]]
Without(f, x) == [k \in DOMAIN f \ {x} |-> f[k]]
Found(f, x) == IF x \in DOMAIN f THEN f[x] ELSE NULL

Id(s) == Schema[s].id
Ref(s) == Schema[s].ref
Subschemas(s) == [i \in DOMAIN Schema[s].subschemas |-> Schema[s].subschemas[i].schema]

(* The DocumentPath property builds the path from the id when it is first  *)
(* read, and keeps it.                                                     *)
DocumentPath(s) == IF documentPath[s] # NULL THEN documentPath[s] ELSE Id(s)
PathRead(s) == [documentPath EXCEPT ![s] = DocumentPath(s)]

Init ==
  /\ lookup = BuiltIn
  /\ fetched = [u \in Uris |-> 0]
  /\ hasRegistered = [s \in Schemas |-> FALSE]
  /\ documentPath = [s \in Schemas |-> NULL]
  /\ resolved = [s \in Schemas |-> NULL]
  /\ resolvedRoot = [s \in Schemas |-> NULL]
  /\ frames = [t \in Threads |-> <<>>]
  /\ local = [t \in Threads |-> Empty]
  /\ outcome = [t \in Threads |-> [root |-> NULL, how |-> "none"]]
  /\ calls = 0
  /\ overlapped = FALSE
  /\ removed = FALSE

(* A schema about to be validated, with the SchemaValidationContext.       *)
Frame(schema, root, base, instance) ==
  [schema |-> schema, root |-> root, base |-> base, instance |-> instance,
   stage |-> "register", todo |-> <<schema>>, left |-> {}]

Idle(t) == frames[t] = <<>>
Top(t) == Last(frames[t])
SetTop(t, frame) == frames' = [frames EXCEPT ![t][Len(frames[t])] = frame]

Throw(t) ==
  /\ frames' = [frames EXCEPT ![t] = <<>>]
  /\ outcome' = [outcome EXCEPT ![t].how = "threw"]

------------------------------------------------------------------------------
(* Calls of the program: Validate, and those to the registry, each of which*)
(* holds the lock on _schemaLookup. Clear puts the meta-schemas back.      *)
MakesCall(t) == Idle(t) /\ calls < MaxCalls /\ calls' = calls + 1

Validate(t, root, instance) ==
  /\ MakesCall(t)
  /\ frames' = [frames EXCEPT ![t] = <<Frame(root, root, NULL, instance)>>]
  /\ local' = [local EXCEPT ![t] = Empty]
  /\ outcome' = [outcome EXCEPT ![t] = [root |-> root, how |-> "none"]]
  /\ overlapped' = (overlapped \/ \E u \in Threads \ {t} : ~ Idle(u))
  /\ UNCHANGED <<lookup, fetched, schemaVars, removed>>

Register(t, s) ==
  /\ MakesCall(t)
  /\ documentPath' = PathRead(s)
  /\ lookup' = IF DocumentPath(s) = NULL THEN lookup ELSE With(lookup, DocumentPath(s), s)
  /\ UNCHANGED <<fetched, hasRegistered, resolved, resolvedRoot, frames, local, outcome, overlapped,
                 removed>>

Unregister(t, s) ==
  /\ MayRemove
  /\ MakesCall(t)
  /\ documentPath' = PathRead(s)
  /\ lookup' = Without(lookup, DocumentPath(s))
  /\ removed' = TRUE
  /\ UNCHANGED <<fetched, hasRegistered, resolved, resolvedRoot, frames, local, outcome,
                 overlapped>>

UnregisterAt(t, uri) ==
  /\ MayRemove
  /\ MakesCall(t)
  /\ lookup' = Without(lookup, At(uri))
  /\ removed' = TRUE
  /\ UNCHANGED <<fetched, schemaVars, frames, local, outcome, overlapped>>

Clear(t) ==
  /\ MayRemove
  /\ MakesCall(t)
  /\ lookup' = BuiltIn
  /\ removed' = TRUE
  /\ UNCHANGED <<fetched, schemaVars, frames, local, outcome, overlapped>>

(* JsonSchemaRegistry.Get: the schema registered at the address, else a    *)
(* new one that is downloaded, given the address as its path and           *)
(* registered. It is NULL when the download gives nothing.                 *)
Registered(address) == Found(lookup, TrimEnd(address))
Downloads(uri) == Registered(At(uri)) = NULL /\ fetched[uri] < Len(Online[uri])
Got(uri) == IF Downloads(uri) THEN Online[uri][fetched[uri] + 1] ELSE Registered(At(uri))

(* As it would be without the path, and without the registration.          *)
GetWithoutPath(uri) ==
  IF Downloads(uri)
  THEN /\ fetched' = [fetched EXCEPT ![uri] = @ + 1]
       /\ lookup' = With(lookup, At(uri), Got(uri))
       /\ UNCHANGED documentPath
  ELSE UNCHANGED <<lookup, fetched, documentPath>>

GetUnpublished(uri) ==
  IF Downloads(uri)
  THEN /\ fetched' = [fetched EXCEPT ![uri] = @ + 1]
       /\ documentPath' = [documentPath EXCEPT ![Got(uri)] = At(uri)]
       /\ UNCHANGED lookup
  ELSE UNCHANGED <<lookup, fetched, documentPath>>

Get(uri) ==
  IF Downloads(uri)
  THEN /\ fetched' = [fetched EXCEPT ![uri] = @ + 1]
       /\ documentPath' = [documentPath EXCEPT ![Got(uri)] = At(uri)]
       /\ lookup' = With(lookup, At(uri), Got(uri))
  ELSE UNCHANGED <<lookup, fetched, documentPath>>

Fetch(t, uri) ==
  /\ MakesCall(t)
  /\ Get(uri)
  /\ UNCHANGED <<hasRegistered, resolved, resolvedRoot, frames, local, outcome, overlapped,
                 removed>>

------------------------------------------------------------------------------
(* RegisterSubschemas. A schema that is marked is passed over; one that is *)
(* not gets marked, and then registers itself and goes on to its           *)
(* subschemas. Other threads run between the test, the mark and the rest.  *)
Pass(t) ==
  LET f == Top(t)
  IN /\ ~ Idle(t) /\ f.stage = "register" /\ f.todo # <<>>
     /\ SetTop(t, IF hasRegistered[Head(f.todo)] THEN [f EXCEPT !.todo = Tail(@)]
                  ELSE [f EXCEPT !.stage = "marking"])
     /\ UNCHANGED <<lookup, fetched, schemaVars, local, outcome, calls, overlapped, removed>>

(* As it would be if the schema left the list when it is marked.           *)
MarkPopping(t) ==
  LET f == Top(t)
  IN /\ ~ Idle(t) /\ f.stage = "marking"
     /\ hasRegistered' = [hasRegistered EXCEPT ![Head(f.todo)] = TRUE]
     /\ SetTop(t, [f EXCEPT !.stage = "registering", !.todo = Tail(@)])
     /\ UNCHANGED <<lookup, fetched, documentPath, resolved, resolvedRoot, local, outcome,
                    calls, overlapped, removed>>

Mark(t) ==
  LET f == Top(t)
  IN /\ ~ Idle(t) /\ f.stage = "marking"
     /\ hasRegistered' = [hasRegistered EXCEPT ![Head(f.todo)] = TRUE]
     /\ SetTop(t, [f EXCEPT !.stage = "registering"])
     /\ UNCHANGED <<lookup, fetched, documentPath, resolved, resolvedRoot, local, outcome,
                    calls, overlapped, removed>>

(* JsonSchemaRegistry.RegisterLocal, which reads the DocumentPath of a     *)
(* schema with an anchor.                                                  *)
AnchorUri(s) ==
  LET path == DocumentPath(s)
  IN IF path = NULL THEN Local(Schema[s].anchor)
     ELSE [path EXCEPT !.frag = @ \o <<"#", Schema[s].anchor>>]

LocalNames(s) ==
  (IF Id(s) # NULL /\ IsLocalSchemaId(Id(s)) THEN {Id(s)} ELSE {})
    \cup (IF Schema[s].anchor # NULL THEN {AnchorUri(s)} ELSE {})

RegisterLocal(t, s) ==
  local' = [local EXCEPT ![t] =
              [k \in DOMAIN @ \cup LocalNames(s) |-> IF k \in LocalNames(s) THEN s ELSE @[k]]]

PathAfterLocal(s) == IF Schema[s].anchor # NULL THEN PathRead(s) ELSE documentPath

(* The address under which a schema registers itself, and whether it does. *)
(* The code asks for the field _documentPath; the property is never NULL   *)
(* for a schema with an id.                                                *)
Address(f, s) == IF Id(s) # NULL /\ f.base # NULL THEN Join(f.base, Id(s)) ELSE Id(s)

RegistersByProperty(f, s) ==
  /\ DocumentPath(s) = NULL
  /\ Address(f, s) # NULL /\ IsAbsolute(Address(f, s))

Registers(f, s) ==
  /\ PathAfterLocal(s)[s] = NULL
  /\ Address(f, s) # NULL /\ IsAbsolute(Address(f, s))

RegisterSubschemas(t) ==
  LET f == Top(t)
      s == Head(f.todo)
      address == Address(f, s)
      registers == Registers(f, s)
  IN /\ ~ Idle(t) /\ f.stage = "registering"
     /\ RegisterLocal(t, s)
     /\ documentPath' = IF registers THEN [PathAfterLocal(s) EXCEPT ![s] = address]
                        ELSE PathAfterLocal(s)
     /\ lookup' = IF registers THEN With(lookup, address, s) ELSE lookup
     /\ SetTop(t, [f EXCEPT !.stage = "register",
                            !.base = IF registers THEN address ELSE @,
                            !.todo = Subschemas(s) \o Tail(@)])
     /\ UNCHANGED <<fetched, hasRegistered, resolved, resolvedRoot, outcome, calls, overlapped,
                    removed>>

------------------------------------------------------------------------------
(* Validate goes on with the base URI and the keywords: $ref, of drafts    *)
(* before 2019-09 alone, and the properties that the instance has.         *)
SetsBase(f) == Ref(f.schema) = NULL \/ Schema[f.root].draft \in {"older", "2019-09"}

BaseUri(f) ==
  LET path == DocumentPath(f.schema)
      base == IF ~ SetsBase(f) \/ path = NULL THEN f.base
              ELSE IF f.base = NULL THEN path ELSE Join(f.base, path)
  IN IF base = NULL THEN NULL ELSE TrimEnd(base)

(* A relative path cannot be joined to a base that is itself relative.     *)
CannotJoin(f) ==
  /\ SetsBase(f) /\ f.base # NULL /\ ~ IsAbsolute(f.base)
  /\ DocumentPath(f.schema) # NULL /\ ~ IsAbsolute(DocumentPath(f.schema))

(* In left, 0 stands for the $ref, and i for the i-th of the subschemas.   *)
Keywords(f) ==
  LET s == f.schema
      reference == IF Ref(s) = NULL THEN {} ELSE {0}
      properties == {i \in DOMAIN Schema[s].subschemas :
                       /\ Schema[s].subschemas[i].at[1] = "properties"
                       /\ Schema[s].subschemas[i].at[2] \in f.instance}
  IN IF Ref(s) # NULL /\ Schema[f.root].draft = "older" THEN reference
     ELSE reference \cup properties

Begin(t) ==
  LET f == Top(t)
  IN /\ ~ Idle(t) /\ f.stage = "register" /\ f.todo = <<>>
     /\ RegisterLocal(t, f.schema)
     /\ documentPath' = IF SetsBase(f) THEN PathRead(f.schema) ELSE PathAfterLocal(f.schema)
     /\ \/ /\ ~ CannotJoin(f)
           /\ SetTop(t, [f EXCEPT !.stage = "keywords", !.base = BaseUri(f), !.left = Keywords(f)])
           /\ UNCHANGED outcome
        \/ CannotJoin(f) /\ Throw(t)
     /\ UNCHANGED <<lookup, fetched, hasRegistered, resolved, resolvedRoot, calls, overlapped,
                    removed>>

PropertiesKeyword(t) ==
  LET f == Top(t)
      next == Min(f.left)
  IN /\ ~ Idle(t) /\ f.stage = "keywords" /\ f.left # {} /\ 0 \notin f.left
     /\ frames' = [frames EXCEPT ![t] =
                     Append(Front(@) \o <<[f EXCEPT !.left = @ \ {next}]>>,
                            Frame(Subschemas(f.schema)[next], f.root, f.base, {}))]
     /\ UNCHANGED <<lookup, fetched, schemaVars, local, outcome, calls, overlapped, removed>>

(* As it would be if the context of the reference were passed on.          *)
RefBaseKept(f) == f.base

(* RefKeyword.Validate goes on to the schema it has found, from the root   *)
(* that it was found in.                                                   *)
RefBase(f) ==
  LET root == resolvedRoot[f.schema] IN IF root = NULL THEN NULL ELSE DocumentPath(root)

RefKeyword(t) ==
  LET f == Top(t)
      s == f.schema
      root == resolvedRoot[s]
  IN /\ ~ Idle(t) /\ f.stage = "keywords" /\ 0 \in f.left
     /\ resolved[s] # NULL
     /\ documentPath' = IF root = NULL THEN documentPath ELSE PathRead(root)
     /\ frames' = [frames EXCEPT ![t] =
                     Append(Front(@) \o <<[f EXCEPT !.left = @ \ {0}]>>,
                            Frame(resolved[s], IF root = NULL THEN f.root ELSE root, RefBase(f),
                                  f.instance))]
     /\ UNCHANGED <<lookup, fetched, hasRegistered, resolved, resolvedRoot, local, outcome, calls,
                    overlapped, removed>>

(* RefKeyword._ResolveReference: a local name, or else the root, which is  *)
(* taken from the registry whenever there is an address or a base.         *)
ResolveRoot(t) ==
  LET f == Top(t)
      s == f.schema
      known == IF IsLocalSchemaId(Ref(s)) THEN Found(local[t], TrimEnd(Ref(s))) ELSE NULL
      address == IF Ref(s).uri # NULL \/ f.base = NULL THEN Ref(s).uri ELSE f.base.uri
  IN /\ ~ Idle(t) /\ f.stage = "keywords" /\ 0 \in f.left
     /\ resolved[s] = NULL
     /\ \/ /\ known # NULL
           /\ resolved' = [resolved EXCEPT ![s] = known]
           /\ UNCHANGED <<lookup, fetched, documentPath, resolvedRoot, frames>>
        \/ /\ known = NULL /\ address # NULL
           /\ Get(address)
           /\ resolvedRoot' = [resolvedRoot EXCEPT ![s] = Got(address)]
           /\ SetTop(t, [f EXCEPT !.stage = "resolve"])
           /\ UNCHANGED resolved
        \/ /\ known = NULL /\ address = NULL
           /\ resolvedRoot' = [resolvedRoot EXCEPT ![s] = f.root]
           /\ SetTop(t, [f EXCEPT !.stage = "resolve"])
           /\ UNCHANGED <<lookup, fetched, documentPath, resolved>>
     /\ UNCHANGED <<hasRegistered, local, outcome, calls, overlapped, removed>>

(* JsonSchema.ResolveSubschema, which gives its result a path. There is no *)
(* subschema at a local name taken for a pointer.                          *)
ResolveSubschema(root, ref) ==
  LET there == {i \in DOMAIN Schema[root].subschemas :
                  IsPointer(ref) /\ Schema[root].subschemas[i].at = Tail(ref.frag)}
  IN IF there = {} THEN NULL ELSE Schema[root].subschemas[CHOOSE i \in there : TRUE].schema

BaseOf(root, base) ==
  IF Id(root) # NULL /\ IsAbsolute(Id(root)) THEN Id(root)
  ELSE IF DocumentPath(root) # NULL THEN DocumentPath(root) ELSE base

Continue(t) == SetTop(t, [Top(t) EXCEPT !.stage = "keywords"]) /\ UNCHANGED outcome

(* As it would be if a reference without a root were tried again.          *)
NoRootRetrying(t) == Continue(t)

(* Without a root the reference is not found, unless another thread has    *)
(* resolved it meanwhile.                                                  *)
NoRoot(t) == IF resolved[Top(t).schema] = NULL THEN Throw(t) ELSE Continue(t)

(* The whole of the root, what is registered at the whole reference, or a  *)
(* subschema.                                                              *)
ResolveTarget(t) ==
  LET f == Top(t)
      s == f.schema
      root == resolvedRoot[s]
      wellKnown == Registered(Ref(s))
      whole == ~ IsPointer(Ref(s)) /\ ~ IsLocalSchemaId(TrimEnd(Ref(s)))
      sub == ResolveSubschema(root, Ref(s))
      base == BaseOf(root, f.base)
      path == DocumentPath(sub)
      placed == path = NULL \/ (base # NULL /\ IsAbsolute(base))
  IN /\ ~ Idle(t) /\ f.stage = "resolve"
     /\ \/ /\ root # NULL /\ wellKnown # NULL
           /\ resolved' = [resolved EXCEPT ![s] = wellKnown]
           /\ Continue(t)
           /\ UNCHANGED documentPath
        \/ /\ root # NULL /\ wellKnown = NULL /\ whole
           /\ resolved' = [resolved EXCEPT ![s] = root]
           /\ documentPath' = PathRead(root)
           /\ Continue(t)
        \/ /\ root # NULL /\ wellKnown = NULL /\ ~ whole /\ sub # NULL /\ placed
           /\ resolved' = [resolved EXCEPT ![s] = sub]
           /\ documentPath' = [PathRead(root) EXCEPT ![sub] =
                                 IF path = NULL THEN base ELSE Join(base, path)]
           /\ Continue(t)
        \/ /\ root # NULL /\ wellKnown = NULL /\ ~ whole
           /\ sub # NULL => ~ placed
           /\ documentPath' = IF sub = NULL THEN PathRead(root)
                              ELSE [PathRead(root) EXCEPT ![sub] = path]
           /\ resolved' = IF sub = NULL THEN [resolved EXCEPT ![s] = NULL] ELSE resolved
           /\ Throw(t)
        \/ /\ root = NULL
           /\ NoRoot(t)
           /\ UNCHANGED <<documentPath, resolved>>
     /\ UNCHANGED <<lookup, fetched, hasRegistered, resolvedRoot, local, calls, overlapped, removed>>

Return(t) ==
  /\ ~ Idle(t) /\ Top(t).stage = "keywords" /\ Top(t).left = {}
  /\ frames' = [frames EXCEPT ![t] = Front(@)]
  /\ outcome' = IF Len(frames[t]) = 1 THEN [outcome EXCEPT ![t].how = "valid"] ELSE outcome
  /\ UNCHANGED <<lookup, fetched, schemaVars, local, calls, overlapped, removed>>

Call(t) ==
  \/ \E s \in Roots, i \in Instances : Validate(t, s, i)
  \/ \E s \in Roots : Register(t, s) \/ Unregister(t, s)
  \/ \E u \in Uris : UnregisterAt(t, u) \/ Fetch(t, u)
  \/ Clear(t)

Proceed(t) ==
  \/ Pass(t)
  \/ Mark(t)
  \/ RegisterSubschemas(t)
  \/ Begin(t)
  \/ PropertiesKeyword(t)
  \/ RefKeyword(t)
  \/ ResolveRoot(t)
  \/ ResolveTarget(t)
  \/ Return(t)

Next == \E t \in Threads : Call(t) \/ Proceed(t)

Spec == Init /\ [][Next]_vars

(* A call that was made goes on. Nothing says that any is made.            *)
FairSpec == Spec /\ \A t \in Threads : WF_vars(Proceed(t))

------------------------------------------------------------------------------
TypeOK ==
  /\ DOMAIN lookup \subseteq Addresses /\ Range(lookup) \subseteq Schemas
  /\ hasRegistered \in [Schemas -> BOOLEAN]
  /\ documentPath \in [Schemas -> Addresses \cup {NULL}]
  /\ resolved \in [Schemas -> Schemas \cup {NULL}]
  /\ resolvedRoot \in [Schemas -> Schemas \cup {NULL}]
  /\ \A u \in Uris : fetched[u] \in 0 .. Len(Online[u])
  /\ \A t \in Threads :
       /\ DOMAIN local[t] \subseteq Addresses /\ Range(local[t]) \subseteq Schemas
       /\ outcome[t].how \in {"none", "valid", "threw"}
       /\ \A i \in DOMAIN frames[t] :
            LET f == frames[t][i]
            IN /\ f.stage \in {"register", "marking", "registering", "keywords", "resolve"}
               /\ f.base \in Addresses \cup {NULL}
               /\ f.stage \in {"marking", "registering"} => f.todo # <<>>

(* A schema and all the subschemas in it.                                  *)
Below[s \in Schemas] == {s} \cup UNION {Below[x] : x \in Range(Subschemas(s))}

(* The schemas that a URI is the address of.                               *)
Documents(uri) ==
  {s \in Schemas : Id(s) # NULL /\ TrimEnd(Id(s)) = At(uri)} \cup Range(Online[uri])

Addressed == UNION {Documents(u) : u \in Uris}

(* The innermost schema with an address around a schema, or the outermost. *)
Resource == [s \in Schemas |->
  LET around == {x \in Schemas : s \in Below[x]}
      candidates == {x \in around : x \in Addressed \/ around \subseteq Below[x]}
  IN CHOOSE x \in candidates : candidates \cap Below[x] = {x}]

(* The documents that the reference of s may be resolved in: those at its  *)
(* address, or the one around it and its copies.                           *)
DocumentsOf(s) ==
  IF Ref(s).uri # NULL THEN Documents(Ref(s).uri)
  ELSE {Resource[s]} \cup
         UNION {Documents(u) : u \in {v \in Uris : Resource[s] \in Documents(v)}}

(* The schemas that the reference of s stands for: one, or its copies.     *)
Designated == [s \in {x \in Schemas : Ref(x) # NULL} |->
  LET documents == DocumentsOf(s)
      named(d) == {x \in Below[d] : \/ Id(x) = Local(Ref(s).frag[2])
                                     \/ Schema[x].anchor = Ref(s).frag[2]}
  IN IF IsPointer(Ref(s)) THEN {ResolveSubschema(d, Ref(s)) : d \in documents} \ {NULL}
     ELSE IF TrimEnd(Ref(s)).frag = <<>> THEN documents
     ELSE UNION {named(d) : d \in documents}]

(* A reference in a document with an address is resolved to the schema it  *)
(* designates, whatever the threads validate, register and unregister: the *)
(* base URI in the context is the one of the schema around the reference.  *)
(* In general this takes for granted that the documents are Orderly.       *)
RightTarget ==
  \A s \in Schemas : resolved[s] # NULL /\ Resource[s] \in Addressed =>
    resolved[s] \in Designated[s]

(* Documents out of each other's way, among the schemas of C: each is one  *)
(* resource, an address is that of one document and its copies, and nothing*)
(* has a local name. A schema with an address of its own inside another,   *)
(* when two threads walk it at once, may leave its base to the references  *)
(* around it (JsonSchema.cs:247-278); a local name is looked up among those*)
(* of all documents that the call of Validate has come to.                 *)
Orderly(C) ==
  /\ \A s \in C :
       /\ Resource[s] \in Documented
       /\ \A i \in DOMAIN Schema[s].subschemas :
            Resource[Schema[s].subschemas[i].schema] = Resource[s]
       /\ Id(s) # NULL => s \in Documented /\ (Id(s).frag = <<>> \/ s \in MetaSchemas)
       /\ Schema[s].anchor = NULL
  /\ \A d \in Documented \cap C : Resource[d] = d
  /\ \A u, v \in Uris : Documents(u) \cap Documents(v) \cap C # {} => u = v

(* What is registered at an address has that address for its DocumentPath, *)
(* so that Unregister finds it. A meta-schema, at the address that Clear   *)
(* gives it, has it but for the '#' at the end, with which Unregister looks*)
(* for it in vain.                                                         *)
RegisteredAtPath ==
  \A a \in DOMAIN lookup :
    \/ documentPath[lookup[a]] = a
    \/ /\ a \in DOMAIN BuiltIn /\ lookup[a] = BuiltIn[a]
       /\ TrimEnd(DocumentPath(lookup[a])) = a

(* Something can be had at an address: a download, or a meta-schema.       *)
Available(uri) == Online[uri] # <<>> \/ At(uri) \in DOMAIN BuiltIn

(* Documents that use addresses without '#', and pointers; the meta-schemas*)
(* may end theirs in '#'.                                                  *)
Plain == {root \in Roots \cap Addressed :
  \A s \in Below[root] :
    /\ Id(s) # NULL => Id(s).uri # NULL /\ (Id(s).frag = <<>> \/ s \in MetaSchemas)
    /\ Schema[s].anchor = NULL
    /\ Ref(s) # NULL =>
         /\ Designated[s] # {}
         /\ Ref(s).uri # NULL => Available(Ref(s).uri) \/ Designated[s] \cap Below[root] # {}}

(* Without overlapping calls and removals, every reference of a plain      *)
(* document is found, in the first validation and in any other, after      *)
(* Register and before it, whichever properties the instances have.        *)
FoundIfAlone ==
  ~ overlapped /\ ~ removed =>
    \A t \in Threads : outcome[t].how = "threw" => outcome[t].root \notin Plain

(* Documents whose references are found: C holds the plain ones, and those *)
(* that they refer to, in turn. A reference stands for the whole of a      *)
(* document or is a pointer to what every copy of the document has, and    *)
(* another document can be downloaded.                                     *)
Connected(C) ==
  /\ C \subseteq Schemas /\ Plain \subseteq C
  /\ \A s \in C : \A i \in DOMAIN Schema[s].subschemas : Schema[s].subschemas[i].schema \in C
  /\ \A s \in {x \in C : Ref(x) # NULL} :
       /\ DocumentsOf(s) \subseteq C
       /\ \/ TrimEnd(Ref(s)).frag = <<>>
          \/ /\ IsPointer(Ref(s))
             /\ \A d \in DocumentsOf(s) : ResolveSubschema(d, Ref(s)) # NULL
       /\ Ref(s).uri # NULL => Available(Ref(s).uri) \/ Resource[s] \in Documents(Ref(s).uri)

(* The schemas with a reference to the whole of what is at a URI.           *)
ReferringTo == [u \in Uris |-> {s \in Schemas : Ref(s) = At(u)}]

(* A URI is given one schema: two references to it share what was loaded   *)
(* for the first, in whichever thread (JsonSchemaRegistry.cs:38-55).       *)
OneSchemaPerUri ==
  ~ removed =>
    \A u \in Uris : \A s, x \in ReferringTo[u] :
      NULL \notin {resolved[s], resolved[x]} => resolved[s] = resolved[x]

(* It takes for granted that no two schemas claim one address, among those *)
(* that are loaded if nothing is removed: C holds the roots, the first of  *)
(* the downloads at each URI, and the subschemas.                          *)
Claims(s, u) ==
  \/ Id(s) = At(u)
  \/ Online[u] # <<>> /\ s = Online[u][1]
  \/ At(u) \in DOMAIN BuiltIn /\ s = BuiltIn[At(u)]

ClaimedOnce(C) ==
  /\ C \subseteq Schemas
  /\ \A s \in C : \A i \in DOMAIN Schema[s].subschemas : Schema[s].subschemas[i].schema \in C
  /\ Roots \cup MetaSchemas \subseteq C
  /\ \A u \in Uris : Online[u] # <<>> => Online[u][1] \in C
  /\ \A u \in Uris : \A s, x \in C : Claims(s, u) /\ Claims(x, u) => s = x

(* A validation ends: schemas register once, also if their references are  *)
(* recursive, and a reference that is not found ends it.                   *)
Terminates == \A t \in Threads : ~ Idle(t) ~> Idle(t)

(* references.md:22 says that a schema registers itself when it validates. *)
AutoRegistered ==
  (\A t \in Threads : Idle(t)) =>
    \A t \in Threads : outcome[t].how = "valid" /\ Id(outcome[t].root) # NULL =>
      Registered(Id(outcome[t].root)) = outcome[t].root

(* vocabs.md:126 says that subschemas are registered before any reference  *)
(* is resolved: one to a subschema of the same document is found.          *)
LocalNamesFound ==
  \A t \in Threads : outcome[t].how = "threw" =>
    \E s \in Below[outcome[t].root] : Ref(s) # NULL /\ Designated[s] = {}
==============================================================================
