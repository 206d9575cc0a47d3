-------------------------- MODULE ReferenceTracking --------------------------
(***************************************************************************)
(* How JsonSerializer keeps object references: an object met again is      *)
(* written as a marker {"$ref": pointer}, and a marker read is set to the  *)
(* object at its pointer once everything has been read. The module writes  *)
(* an object graph and reads the result back, one property, element or     *)
(* entry per step, as the recursion of the serializers visits them.        *)
(*                                                                         *)
(* An "object" is a class that AutoSerializer handles, a "list" is a       *)
(* List<T>, a "dict" a Dictionary<string, T>, a "custom" an                *)
(* IJsonSerializable that passes its members to the serializer it is       *)
(* given. Scalar members carry no references and are left out.             *)
(***************************************************************************)
EXTENDS Naturals, SequencesExt

CONSTANTS
  Graphs,    (* object graphs to write: [root, kind, members, equal]       *)
  Documents, (* JSON read that this serializer did not write               *)
  MaxFrames, (* bound: the depth of the recursion                          *)
  MaxPath,   (* bound: the length of the paths on which graphs are compared*)
  NULL       (* the null reference                                         *)

Kinds == {"object", "list", "dict", "custom"}

(* Positions in documents, by the names on the way, and locations.         *)
Positions == Seq(STRING)

VARIABLES
  graph,    (* the object graph, or NULL when a document was given         *)
  phase,    (* "serialize", "deserialize", "done" or "threw"               *)
  frames,   (* the recursion: [node, at, next], outermost first            *)
  contexts, (* CurrentLocation and SerializationMap of the nested calls    *)
  json,     (* the document by position: [kind, members, ref]              *)
  value     (* what was read, by position: the position whose object a     *)
            (* member holds, or NULL                                       *)

vars == <<graph, phase, frames, contexts, json, value>>

Top(s) == s[Len(s)]
SetTop(s, e) == [s EXCEPT ![Len(s)] = e]
With(f, x, y) == [k \in DOMAIN f \cup {x} |-> IF k = x THEN y ELSE f[k]]
Nothing == [k \in {} |-> NULL]

(* ReferencingSerializer.Handles: the serializers of classes keep          *)
(* references, those of collections do not.                                *)
Tracked(kind) == kind \in {"object", "custom"}

(* A graph of objects: a class has no two members of a name. What equal    *)
(* gives for two objects is the same when Equals says that they are equal. *)
IsGraph(g) ==
  /\ g.kind \in [DOMAIN g.kind -> Kinds]
  /\ g.root \in DOMAIN g.kind /\ Tracked(g.kind[g.root])
  /\ g.members \in [DOMAIN g.kind -> Seq([name : STRING, value : DOMAIN g.kind])]
  /\ g.equal \in [DOMAIN g.kind -> DOMAIN g.kind]
  /\ \A n \in DOMAIN g.kind : \A i, j \in DOMAIN g.members[n] :
       g.members[n][i].name = g.members[n][j].name => i = j

(* JSON by position: the members of a value are there, too.                *)
IsDocument(d) ==
  /\ DOMAIN d \subseteq Positions /\ <<>> \in DOMAIN d
  /\ d \in [DOMAIN d -> [kind : Kinds \cup {"marker"}, members : Seq(STRING),
                         ref : Positions \cup {NULL}]]
  /\ Tracked(d[<<>>].kind)
  /\ \A p \in DOMAIN d :
       /\ Len(p) < MaxFrames
       /\ d[p].kind = "marker" => d[p].ref \in Positions
       /\ \A i \in DOMAIN d[p].members : Append(p, d[p].members[i]) \in DOMAIN d

ASSUME GraphsAssumption == \A g \in Graphs : IsGraph(g) /\ NULL \notin DOMAIN g.kind
ASSUME DocumentsAssumption == \A d \in Documents : IsDocument(d)
ASSUME BoundsAssumption == MaxFrames \in Nat \ {0} /\ MaxPath \in Nat
ASSUME NullAssumption == NULL \notin Graphs \cup Positions

NewContext == [location |-> <<>>, map |-> Nothing]

(* Serialize(Type, object) of an IJsonSerializable's members makes a new   *)
(* context; otherwise the parent pushes the member's name.                 *)
Enter(parentKind, name) ==
  IF parentKind = "custom"
  THEN Append(contexts, NewContext)
  ELSE SetTop(contexts, [Top(contexts) EXCEPT !.location = Append(@, name)])

(* As if lists had none, either.                                           *)
LeaveWrittenUnpopped(cs, parentKind) ==
  CASE parentKind = "custom" -> Front(cs)
    [] parentKind \in {"dict", "list"} -> cs
    [] OTHER -> SetTop(cs, [Top(cs) EXCEPT !.location = Front(@)])

(* context.Pop() of the parent. DictionarySerializer._Encode has none for  *)
(* string keys.                                                            *)
LeaveWritten(cs, parentKind) ==
  CASE parentKind = "custom" -> Front(cs)
    [] parentKind = "dict" -> cs
    [] OTHER -> SetTop(cs, [Top(cs) EXCEPT !.location = Front(@)])

LeaveReadUnpopped(cs, parentKind) ==
  CASE parentKind = "custom" -> Front(cs)
    [] parentKind = "dict" -> cs
    [] OTHER -> SetTop(cs, [Top(cs) EXCEPT !.location = Front(@)])

LeaveRead(cs, parentKind) ==
  IF parentKind = "custom" THEN Front(cs)
  ELSE SetTop(cs, [Top(cs) EXCEPT !.location = Front(@)])

Advance(fs) == SetTop(fs, [Top(fs) EXCEPT !.next = @ + 1])
Frame(node, at) == [node |-> node, at |-> at, next |-> 1]
Node(kind) == [kind |-> kind, members |-> <<>>, ref |-> NULL]
Marker(pointer) == [kind |-> "marker", members |-> <<>>, ref |-> pointer]

------------------------------------------------------------------------------
(* A graph is written from its root, a document is read.                   *)
InitSerialize(g) ==
  /\ graph = g
  /\ phase = "serialize"
  /\ frames = <<Frame(g.root, <<>>)>>
  /\ contexts = <<[NewContext EXCEPT !.map = [e \in {g.equal[g.root]} |-> <<>>]]>>
  /\ json = [p \in {<<>>} |-> Node(g.kind[g.root])]
  /\ value = Nothing

FirstRead == [location |-> <<>>,
              map |-> [l \in {<<>>} |-> [object |-> NULL, targets |-> {}, complete |-> FALSE]]]

InitDeserialize(doc) ==
  /\ graph = NULL
  /\ phase = "deserialize"
  /\ frames = <<Frame(NULL, <<>>)>>
  /\ contexts = <<FirstRead>>
  /\ json = doc
  /\ value = [p \in {<<>>} |-> <<>>]

Init == (\E g \in Graphs : InitSerialize(g)) \/ (\E doc \in Documents : InitDeserialize(doc))

(* _SerializeValues, _Encode, ToJson: the next member is pushed and passed *)
(* to JsonSerializer.Serialize. ReferencingSerializer.TrySerialize writes  *)
(* a marker for an object that equals one in the map, else it adds the     *)
(* object before its members are written, which throws when the location   *)
(* of another is the same.                                                 *)
SerializeMemberLate ==
  LET f == Top(frames)
      kind == graph.kind[f.node]
      m == graph.members[f.node][f.next]
      at == Append(f.at, m.name)
      listed == With(json, f.at, [json[f.at] EXCEPT !.members = Append(@, m.name)])
  IN /\ phase = "serialize"
     /\ f.next <= Len(graph.members[f.node])
     /\ Len(frames) < MaxFrames
     /\ json' = With(listed, at, Node(graph.kind[m.value]))
     /\ contexts' = Enter(kind, m.name)
     /\ frames' = Append(Advance(frames), Frame(m.value, at))
     /\ UNCHANGED <<graph, phase, value>>

SerializeMember ==
  LET f == Top(frames)
      kind == graph.kind[f.node]
      m == graph.members[f.node][f.next]
      at == Append(f.at, m.name)
      entered == Enter(kind, m.name)
      c == Top(entered)
      equal == graph.equal[m.value]
      listed == With(json, f.at, [json[f.at] EXCEPT !.members = Append(@, m.name)])
  IN /\ phase = "serialize"
     /\ f.next <= Len(graph.members[f.node])
     /\ Len(frames) < MaxFrames
     /\ \/ /\ Tracked(graph.kind[m.value]) /\ equal \in DOMAIN c.map
           /\ json' = With(listed, at, Marker(c.map[equal]))
           /\ contexts' = LeaveWritten(entered, kind)
           /\ frames' = Advance(frames)
           /\ phase' = phase
        \/ /\ Tracked(graph.kind[m.value]) /\ equal \notin DOMAIN c.map
           /\ c.location \in Range(c.map)
           /\ phase' = "threw"
           /\ UNCHANGED <<frames, contexts, json>>
        \/ /\ Tracked(graph.kind[m.value]) =>
                equal \notin DOMAIN c.map /\ c.location \notin Range(c.map)
           /\ json' = With(listed, at, Node(graph.kind[m.value]))
           /\ contexts' = IF Tracked(graph.kind[m.value])
                          THEN SetTop(entered, [c EXCEPT !.map = With(@, equal, c.location)])
                          ELSE entered
           /\ frames' = Append(Advance(frames), Frame(m.value, at))
           /\ phase' = phase
     /\ UNCHANGED <<graph, value>>

(* The members of a value are written. After the root's, the text is read  *)
(* back by Deserialize(Type, JsonValue), with a context of its own.        *)
SerializeReturn ==
  LET f == Top(frames)
      parent == frames[Len(frames) - 1]
  IN /\ phase = "serialize"
     /\ f.next > Len(graph.members[f.node])
     /\ \/ /\ Len(frames) > 1
           /\ frames' = Front(frames)
           /\ contexts' = LeaveWritten(contexts, graph.kind[parent.node])
           /\ UNCHANGED <<phase, value>>
        \/ /\ Len(frames) = 1
           /\ phase' = "deserialize"
           /\ frames' = <<Frame(NULL, <<>>)>>
           /\ contexts' = <<FirstRead>>
           /\ value' = [p \in {<<>>} |-> <<>>]
     /\ UNCHANGED <<graph, json>>

------------------------------------------------------------------------------
(* SerializationReferenceCache.AddReference.                               *)
AddReferenceLast(map, source, target) ==
  With(map, source, [object |-> NULL, targets |-> {target}, complete |-> FALSE])

AddReference(map, source, target) ==
  LET known == IF source \in DOMAIN map THEN map[source]
               ELSE [object |-> NULL, targets |-> {}, complete |-> FALSE]
  IN With(map, source, [known EXCEPT !.targets = @ \cup {target}])

(* _DeserializeValues, _Decode, FromJson: the next member is pushed and    *)
(* passed to JsonSerializer.Deserialize. A marker is noted and reads as    *)
(* null for now; an object is added to the map, which throws when a marker *)
(* has named its location before.                                          *)
DeserializeMember ==
  LET f == Top(frames)
      name == json[f.at].members[f.next]
      at == Append(f.at, name)
      entered == Enter(json[f.at].kind, name)
      c == Top(entered)
  IN /\ phase = "deserialize"
     /\ f.next <= Len(json[f.at].members)
     /\ \/ /\ json[at].kind = "marker"
           /\ contexts' = LeaveRead(
                SetTop(entered, [c EXCEPT !.map = AddReference(@, json[at].ref, c.location)]),
                json[f.at].kind)
           /\ value' = With(value, at, NULL)
           /\ frames' = Advance(frames)
           /\ phase' = phase
        \/ /\ Tracked(json[at].kind) /\ c.location \in DOMAIN c.map
           /\ phase' = "threw"
           /\ UNCHANGED <<frames, contexts, value>>
        \/ /\ json[at].kind \in Kinds
           /\ Tracked(json[at].kind) => c.location \notin DOMAIN c.map
           /\ contexts' =
                IF Tracked(json[at].kind)
                THEN SetTop(entered, [c EXCEPT !.map =
                       With(@, c.location, [object |-> NULL, targets |-> {}, complete |-> FALSE])])
                ELSE entered
           /\ value' = With(value, at, at)
           /\ frames' = Append(Advance(frames), Frame(NULL, at))
           /\ phase' = phase
     /\ UNCHANGED <<graph, json>>

(* The value is made and, if tracked, becomes the object of its location.  *)
MadeUnassigned(c, at) ==
  IF Tracked(json[at].kind) THEN [c EXCEPT !.map[c.location].complete = TRUE] ELSE c

Made(c, at) ==
  IF Tracked(json[at].kind)
  THEN [c EXCEPT !.map[c.location].object = at, !.map[c.location].complete = TRUE]
  ELSE c

DeserializeReturn ==
  LET f == Top(frames)
      parent == frames[Len(frames) - 1]
  IN /\ phase = "deserialize"
     /\ f.next > Len(json[f.at].members)
     /\ Len(frames) > 1
     /\ frames' = Front(frames)
     /\ contexts' = LeaveRead(SetTop(contexts, Made(Top(contexts), f.at)), json[parent.at].kind)
     /\ UNCHANGED <<graph, phase, json, value>>

(* SetMember finds its way through properties and indexers of lists; in a  *)
(* dictionary it finds no member of the key's name, and Single throws.     *)
CanSet(target) == \A n \in 0 .. Len(target) - 1 :
                     json[SubSeq(target, 1, n)].kind \in {"object", "list"}

(* The outermost call returns: SerializationReferenceCache.Complete sets   *)
(* the members that markers stand for. The maps of nested calls are        *)
(* dropped with their contexts.                                            *)
Complete ==
  LET map == Made(Top(contexts), <<>>).map
      sources == {s \in DOMAIN map : map[s].complete}
      targets == UNION {map[s].targets : s \in sources}
      source(p) == CHOOSE s \in sources : p \in map[s].targets
  IN /\ phase = "deserialize"
     /\ Len(frames) = 1
     /\ Top(frames).next > Len(json[<<>>].members)
     /\ frames' = <<>>
     /\ contexts' = <<>>
     /\ \/ /\ \A p \in targets : CanSet(p)
           /\ phase' = "done"
           /\ value' = [p \in DOMAIN value |->
                          IF p \in targets THEN map[source(p)].object ELSE value[p]]
        \/ /\ \E p \in targets : ~ CanSet(p)
           /\ phase' = "threw"
           /\ UNCHANGED value
     /\ UNCHANGED <<graph, json>>

Next ==
  \/ SerializeMember
  \/ SerializeReturn
  \/ DeserializeMember
  \/ DeserializeReturn
  \/ Complete

Spec == Init /\ [][Next]_vars
FairSpec == Spec /\ WF_vars(Next)

------------------------------------------------------------------------------
TypeOK ==
  /\ phase \in {"serialize", "deserialize", "done", "threw"}
  /\ \A p \in DOMAIN json : json[p].kind \in Kinds \cup {"marker"}
  /\ DOMAIN value \subseteq DOMAIN json
  /\ \A p \in DOMAIN value : value[p] \in DOMAIN json \cup {NULL}
  /\ Len(frames) <= MaxFrames
  /\ phase \in {"serialize", "deserialize"} => contexts # <<>> /\ frames # <<>>
  /\ phase = "deserialize" =>
       \A i \in DOMAIN contexts : \A known \in Range(contexts[i].map) :
         /\ known.object \in DOMAIN value \cup {NULL}
         /\ known.complete <=> known.object # NULL

(* Where the object graph, and what was read, lead from the root.          *)
Walk(start, path, Step(_, _)) ==
  LET reached[n \in 0 .. Len(path)] ==
        IF n = 0 THEN start
        ELSE IF reached[n - 1] = NULL THEN NULL ELSE Step(reached[n - 1], path[n])
  IN reached[Len(path)]

GraphStep(node, name) ==
  LET named == {i \in DOMAIN graph.members[node] : graph.members[node][i].name = name}
  IN IF named = {} THEN NULL ELSE graph.members[node][CHOOSE i \in named : TRUE].value

ReadStep(p, name) == IF Append(p, name) \in DOMAIN value THEN value[Append(p, name)] ELSE NULL

Names == UNION {{graph.members[n][i].name : i \in DOMAIN graph.members[n]}
                  : n \in DOMAIN graph.members}
AccessPaths == BoundedSeq(Names, MaxPath)
Origin(path) == Walk(graph.root, path, GraphStep)
Result(path) == Walk(<<>>, path, ReadStep)

(* What was read has the shape of what was written: the same paths lead to *)
(* something, and two lead to the same object now exactly when they did    *)
(* before, whatever cycles the graph has.                                  *)
SameShape ==
  LET paths == {p \in AccessPaths : Origin(p) # NULL}
      tracked == {p \in paths : Tracked(graph.kind[Origin(p)])}
  IN /\ \A p \in AccessPaths : Origin(p) = NULL <=> Result(p) = NULL
     /\ \A p \in paths : json[Result(p)].kind = graph.kind[Origin(p)]
     /\ {{p \in tracked : Origin(p) = n} : n \in DOMAIN graph.kind}
          \ {{}} = {{p \in tracked : Result(p) = q} : q \in DOMAIN json} \ {{}}

(* Classes that do not override Equals, held by each other and by lists.   *)
Plain ==
  /\ \A n \in DOMAIN graph.kind : graph.kind[n] \in {"object", "list"}
  /\ \A n, m \in DOMAIN graph.kind : graph.equal[n] = graph.equal[m] => n = m

(* Writing and reading back plain objects keeps the references between     *)
(* them, and does not throw.                                               *)
RoundTrip ==
  graph # NULL /\ Plain => phase # "threw" /\ (phase = "done" => SameShape)

(* Reading keeps the pushes and pops of the recursion paired: what is      *)
(* noted under the current location belongs to the value being read. (Only *)
(* the members of an IJsonSerializable are located from themselves.)       *)
LocationIsPosition ==
  phase = "deserialize" /\ Len(contexts) = 1 => contexts[1].location = Top(frames).at

(* Neither direction goes round a cycle of objects for ever.               *)
Terminates == <>(phase \in {"done", "threw"})

(* serialization.md:24: "a reference marker (JSON Pointer) is created [...] *)
(* which points to the location within the JSON document that defines the  *)
(* data": where a marker points there is an object, the one that it stands *)
(* for or one that equals it. DictionarySerializer._Encode leaves its      *)
(* locations behind, and an IJsonSerializable starts a document of its     *)
(* own: in graphs with these markers point astray.                         *)
MarkersPointHome ==
  graph # NULL /\ phase = "deserialize" /\ Range(graph.kind) \subseteq {"object", "list"} =>
    \A p \in DOMAIN json : json[p].kind = "marker" =>
      /\ json[p].ref \in DOMAIN json /\ json[json[p].ref].kind = "object"
      /\ graph.equal[Origin(json[p].ref)] = graph.equal[Origin(p)]
==============================================================================
