--------------------------- MODULE JsonPatchProofs ---------------------------
(***************************************************************************)
(* JsonPatch for all documents and patches: its type invariant, that an    *)
(* action writes to containers of the current document only, and that the  *)
(* two ways to resolve a pointer agree.                                    *)
(***************************************************************************)
EXTENDS JsonPatch, CommonLemmas

Heap == [Locs -> Objects \cup Arrays]

(* X is a set of containers that a document consists of: what a walk finds *)
(* is in X or a scalar.                                                    *)
Statuses == {"ok", "failed", "throws"}
Found(X) ==
  {f \in [json : Refs \cup {NULL}, status : Statuses] : f.status = "ok" => f.json \in X \cup Scalars}
Walks(X) ==
  {w \in [parent : Locs \cup {NULL}, key : Segments \cup Int, current : Refs \cup {NULL},
          status : Statuses] :
     w.status = "ok" => w.current \in X \cup Scalars \cup {NULL}}

(* Containers outside X are left as they are.                              *)
Spared(r, h, X) ==
  /\ r.heap \in Heap
  /\ r.status \in Statuses
  /\ r.status = "ok" => r.json \in Refs
  /\ \A l \in Locs \ X : r.heap[l] = h[l]

------------------------------------------------------------------------------
(* A walk along a path goes from value to value as its steps do, and does  *)
(* not leave a set that no step leaves.                                    *)
LEMMA EvaluationSteps ==
  ASSUME NEW h, NEW json, NEW path \in Seq(Segments), NEW S,
         [json |-> json, status |-> "ok"] \in S,
         \A w \in S, part \in Segments : EvaluateSegment(h, w, part) \in S
  PROVE  LET walk == Evaluation(h, json, path)
         IN /\ walk[0] = [json |-> json, status |-> "ok"]
            /\ \A n \in 0 .. Len(path) : walk[n] \in S
            /\ \A n \in 1 .. Len(path) : walk[n] = EvaluateSegment(h, walk[n - 1], path[n])
<1> DEFINE N == Len(path)
           base == [json |-> json, status |-> "ok"]
           Step(n, w) == EvaluateSegment(h, w, path[n])
           step == [n \in 1 .. N |-> [w \in S |-> Step(n, w)]]
           Body(g) == [n \in 0 .. N |-> IF n = 0 THEN base ELSE Step(n, g[n - 1])]
           walk == Evaluation(h, json, path)
<1>1. walk = CHOOSE g : g = Body(g)
  BY Zenon DEF Evaluation
<1>2. N \in Nat /\ base \in S
  OBVIOUS
<1>3. \A n \in 1 .. N : \A w \in S : Step(n, w) \in S
  OBVIOUS
<1> HIDE DEF N, base, Step, Body, walk
<1>4. step \in StepsOn(S, N)
  BY <1>3 DEF StepsOn
<1>5. PICK f \in [0 .. N -> S] : f[0] = base /\ \A n \in 1 .. N : f[n] = step[n][f[n - 1]]
  <2> HIDE DEF step
  <2>1. \E f : IterationOf(f, step, base, S, N)
    BY <1>2, <1>4, Iterated, Zenon
  <2> QED
    BY <2>1 DEF IterationOf
<1>6. \A n \in 1 .. N : f[n] = Step(n, f[n - 1])
  <2> TAKE n \in 1 .. N
  <2>1. n - 1 \in 0 .. N
    BY <1>2
  <2>2. f[n - 1] \in S
    BY <1>5, <2>1
  <2>3. step[n][f[n - 1]] = Step(n, f[n - 1])
    BY <2>2
  <2> QED
    BY <1>5, <2>3
<1>7. f = Body(f)
  BY <1>2, <1>5, <1>6 DEF Body
<1>8. walk = Body(walk)
  BY <1>1, <1>7, Zenon
<1>9. walk[0] = base /\ \A n \in 1 .. N : walk[n] = Step(n, walk[n - 1])
  BY <1>2, <1>8 DEF Body
<1>10. 0 .. N \subseteq {n \in 0 .. N : walk[n] \in S}
  <2> DEFINE Z == {n \in 0 .. N : walk[n] \in S}
  <2>1. 0 \in Z
    BY <1>2, <1>9
  <2>2. \A n \in 1 .. N : n - 1 \in Z => n \in Z
    BY <1>3, <1>9
  <2> HIDE DEF Z
  <2>3. 0 .. N \subseteq Z
    BY <1>2, <2>1, <2>2, Upwards
  <2> QED
    BY <2>3 DEF Z
<1> QED
  BY <1>9, <1>10 DEF N, base, Step, walk

LEMMA ResolutionSteps ==
  ASSUME NEW h, NEW json, NEW path \in Seq(Segments), NEW S,
         WalkFrom(json, IF path = <<>> THEN "failed" ELSE "ok") \in S,
         \A w \in S, part \in Segments : ResolvePart(h, w, part) \in S
  PROVE  LET walk == Resolution(h, json, path)
         IN /\ walk[0] = WalkFrom(json, IF path = <<>> THEN "failed" ELSE "ok")
            /\ \A n \in 0 .. Len(path) : walk[n] \in S
            /\ \A n \in 1 .. Len(path) : walk[n] = ResolvePart(h, walk[n - 1], path[n])
<1> DEFINE N == Len(path)
           base == WalkFrom(json, IF path = <<>> THEN "failed" ELSE "ok")
           Step(n, w) == ResolvePart(h, w, path[n])
           step == [n \in 1 .. N |-> [w \in S |-> Step(n, w)]]
           Body(g) == [n \in 0 .. N |-> IF n = 0 THEN base ELSE Step(n, g[n - 1])]
           walk == Resolution(h, json, path)
<1>1. walk = CHOOSE g : g = Body(g)
  BY Zenon DEF Resolution
<1>2. N \in Nat /\ base \in S
  OBVIOUS
<1>3. \A n \in 1 .. N : \A w \in S : Step(n, w) \in S
  OBVIOUS
<1> HIDE DEF N, base, Step, Body, walk
<1>4. step \in StepsOn(S, N)
  BY <1>3 DEF StepsOn
<1>5. PICK f \in [0 .. N -> S] : f[0] = base /\ \A n \in 1 .. N : f[n] = step[n][f[n - 1]]
  <2> HIDE DEF step
  <2>1. \E f : IterationOf(f, step, base, S, N)
    BY <1>2, <1>4, Iterated, Zenon
  <2> QED
    BY <2>1 DEF IterationOf
<1>6. \A n \in 1 .. N : f[n] = Step(n, f[n - 1])
  <2> TAKE n \in 1 .. N
  <2>1. n - 1 \in 0 .. N
    BY <1>2
  <2>2. f[n - 1] \in S
    BY <1>5, <2>1
  <2>3. step[n][f[n - 1]] = Step(n, f[n - 1])
    BY <2>2
  <2> QED
    BY <1>5, <2>3
<1>7. f = Body(f)
  BY <1>2, <1>5, <1>6 DEF Body
<1>8. walk = Body(walk)
  BY <1>1, <1>7, Zenon
<1>9. walk[0] = base /\ \A n \in 1 .. N : walk[n] = Step(n, walk[n - 1])
  BY <1>2, <1>8 DEF Body
<1>10. 0 .. N \subseteq {n \in 0 .. N : walk[n] \in S}
  <2> DEFINE Z == {n \in 0 .. N : walk[n] \in S}
  <2>1. 0 \in Z
    BY <1>2, <1>9
  <2>2. \A n \in 1 .. N : n - 1 \in Z => n \in Z
    BY <1>3, <1>9
  <2> HIDE DEF Z
  <2>3. 0 .. N \subseteq Z
    BY <1>2, <2>1, <2>2, Upwards
  <2> QED
    BY <2>3 DEF Z
<1> QED
  BY <1>9, <1>10 DEF N, base, Step, walk

LEMMA InsertionSteps ==
  ASSUME NEW h, NEW json, NEW path \in Seq(Segments), NEW S,
         WalkFrom(json, "ok") \in S,
         \A w \in S, part \in Segments : InsertPart(h, w, part) \in S
  PROVE  LET walk == Insertion(h, json, path)
         IN /\ walk[0] = WalkFrom(json, "ok")
            /\ \A n \in 0 .. Len(path) : walk[n] \in S
            /\ \A n \in 1 .. Len(path) : walk[n] = InsertPart(h, walk[n - 1], path[n])
<1> DEFINE N == Len(path)
           base == WalkFrom(json, "ok")
           Step(n, w) == InsertPart(h, w, path[n])
           step == [n \in 1 .. N |-> [w \in S |-> Step(n, w)]]
           Body(g) == [n \in 0 .. N |-> IF n = 0 THEN base ELSE Step(n, g[n - 1])]
           walk == Insertion(h, json, path)
<1>1. walk = CHOOSE g : g = Body(g)
  BY Zenon DEF Insertion
<1>2. N \in Nat /\ base \in S
  OBVIOUS
<1>3. \A n \in 1 .. N : \A w \in S : Step(n, w) \in S
  OBVIOUS
<1> HIDE DEF N, base, Step, Body, walk
<1>4. step \in StepsOn(S, N)
  BY <1>3 DEF StepsOn
<1>5. PICK f \in [0 .. N -> S] : f[0] = base /\ \A n \in 1 .. N : f[n] = step[n][f[n - 1]]
  <2> HIDE DEF step
  <2>1. \E f : IterationOf(f, step, base, S, N)
    BY <1>2, <1>4, Iterated, Zenon
  <2> QED
    BY <2>1 DEF IterationOf
<1>6. \A n \in 1 .. N : f[n] = Step(n, f[n - 1])
  <2> TAKE n \in 1 .. N
  <2>1. n - 1 \in 0 .. N
    BY <1>2
  <2>2. f[n - 1] \in S
    BY <1>5, <2>1
  <2>3. step[n][f[n - 1]] = Step(n, f[n - 1])
    BY <2>2
  <2> QED
    BY <1>5, <2>3
<1>7. f = Body(f)
  BY <1>2, <1>5, <1>6 DEF Body
<1>8. walk = Body(walk)
  BY <1>1, <1>7, Zenon
<1>9. walk[0] = base /\ \A n \in 1 .. N : walk[n] = Step(n, walk[n - 1])
  BY <1>2, <1>8 DEF Body
<1>10. 0 .. N \subseteq {n \in 0 .. N : walk[n] \in S}
  <2> DEFINE Z == {n \in 0 .. N : walk[n] \in S}
  <2>1. 0 \in Z
    BY <1>2, <1>9
  <2>2. \A n \in 1 .. N : n - 1 \in Z => n \in Z
    BY <1>3, <1>9
  <2> HIDE DEF Z
  <2>3. 0 .. N \subseteq Z
    BY <1>2, <2>1, <2>2, Upwards
  <2> QED
    BY <2>3 DEF Z
<1> QED
  BY <1>9, <1>10 DEF N, base, Step, walk

------------------------------------------------------------------------------
(* The content of a container.                                             *)
LEMMA Contents ==
  ASSUME NEW h \in Heap, NEW X \in SUBSET Locs, Closed(h, X), NEW l \in X
  PROVE  /\ h[l] \in Objects \cup Arrays
         /\ h[l].kind = "object" => /\ h[l] \in Objects
                                    /\ DOMAIN h[l].at \subseteq Segments
         /\ h[l].kind = "array" => /\ h[l] \in Arrays
                                   /\ h[l].at \in Seq(Refs)
                                   /\ h[l].at \in Seq(X \cup Scalars)
                                   /\ Len(h[l].at) \in Nat
                                   /\ DOMAIN h[l].at = 1 .. Len(h[l].at)
         /\ \A k \in DOMAIN h[l].at : h[l].at[k] \in Refs \cap (X \cup Scalars)
<1>1. h[l] \in Objects \cup Arrays
  BY DEF Heap
<1>2. ASSUME h[l] \in Objects
      PROVE  /\ DOMAIN h[l].at \subseteq Segments
             /\ \A k \in DOMAIN h[l].at : h[l].at[k] \in Refs
  BY <1>2 DEF Objects
<1>3. ASSUME h[l] \in Arrays
      PROVE  /\ h[l].at \in Seq(Refs) /\ Len(h[l].at) \in Nat /\ DOMAIN h[l].at = 1 .. Len(h[l].at)
             /\ \A k \in DOMAIN h[l].at : h[l].at[k] \in Refs
  <2>1. h[l].at \in Seq(Refs)
    BY <1>3 DEF Arrays
  <2> QED
    BY <2>1, LenProperties, ElementOfSeq
<1>4. \A k \in DOMAIN h[l].at : h[l].at[k] \in Refs
  BY <1>1, <1>2, <1>3
<1>5. \A k \in DOMAIN h[l].at : h[l].at[k] \in X \cup Scalars
  BY <1>4 DEF Closed, Children, Refs
<1>6. ASSUME h[l] \in Arrays
      PROVE  h[l].at \in Seq(X \cup Scalars)
  BY <1>3, <1>5, <1>6, SeqOverElements
<1>7. /\ h[l].kind = "object" => h[l] \in Objects
      /\ h[l].kind = "array" => h[l] \in Arrays
  BY <1>1 DEF Objects, Arrays
<1> QED
  BY <1>1, <1>2, <1>3, <1>4, <1>5, <1>6, <1>7

LEMMA NumberIsInt == \A part : Number(part) \in Int /\ Index(part) \in Int /\ IntMax \in Nat
BY PathsAssumption DEF Number, Index

(* What is put into a container of X leaves the others alone, and if it is *)
(* of X leaves X closed.                                                   *)
LEMMA Written ==
  ASSUME NEW h \in Heap, NEW X \in SUBSET Locs, NEW l \in X, NEW content,
         [h[l] EXCEPT !.at = content] \in Objects \cup Arrays
  PROVE  /\ Write(h, l, content) \in Heap
         /\ \A m \in Locs \ {l} : Write(h, l, content)[m] = h[m]
         /\ Closed(h, X) /\ (\A k \in DOMAIN content : content[k] \in X \cup Scalars)
              => Closed(Write(h, l, content), X)
<1>1. h \in [Locs -> Objects \cup Arrays] /\ l \in Locs
  BY DEF Heap
<1>2. Write(h, l, content) = [m \in Locs |-> IF m = l THEN [h[l] EXCEPT !.at = content] ELSE h[m]]
  BY <1>1 DEF Write
<1>3. [h[l] EXCEPT !.at = content].at = content
  BY <1>1 DEF Objects, Arrays
<1>4. Children(Write(h, l, content), l) = {content[k] : k \in DOMAIN content} \cap Locs
  <2>1. Write(h, l, content)[l].at = content
    BY <1>1, <1>2, <1>3
  <2> QED
    BY <2>1, Zenon DEF Children
<1>5. \A m \in X \ {l} : Children(Write(h, l, content), m) = Children(h, m)
  BY <1>1, <1>2 DEF Children
<1>6. ASSUME Closed(h, X), \A k \in DOMAIN content : content[k] \in X \cup Scalars
      PROVE  Closed(Write(h, l, content), X)
  <2>1. {content[k] : k \in DOMAIN content} \cap Locs \subseteq X
    BY <1>6, LocsAssumption
  <2> QED
    BY <1>4, <1>5, <1>6, <2>1 DEF Closed
<1> QED
  BY <1>1, <1>2, <1>6 DEF Heap

------------------------------------------------------------------------------
(* The three walks stay in X.                                              *)
LEMMA EvaluateSegmentStays ==
  ASSUME NEW h \in Heap, NEW X \in SUBSET Locs, Closed(h, X),
         NEW found \in Found(X), NEW segment \in Segments
  PROVE  EvaluateSegment(h, found, segment) \in Found(X)
<1> DEFINE at == h[found.json].at
           n == Number(segment)
<1>1. /\ found \in [json : Refs \cup {NULL}, status : Statuses]
      /\ found.status = "ok" => found.json \in X \cup Scalars
  BY DEF Found
<1>2. /\ [json |-> NULL, status |-> "failed"] \in Found(X)
      /\ [json |-> NULL, status |-> "throws"] \in Found(X)
  BY DEF Found, Statuses
<1>3. ASSUME NEW v \in Refs \cap (X \cup Scalars), found.status = "ok"
      PROVE  [found EXCEPT !.json = v] \in Found(X)
  BY <1>1, <1>3 DEF Found
<1>4. CASE found.status # "ok"
  BY <1>4 DEF EvaluateSegment
<1>5. CASE found.status = "ok" /\ found.json \in X /\ h[found.json].kind = "object"
  <2>1. \A k \in DOMAIN at : at[k] \in Refs \cap (X \cup Scalars)
    BY <1>5, Contents
  <2>2. EvaluateSegment(h, found, segment) =
          IF segment \in DOMAIN at THEN [found EXCEPT !.json = at[segment]]
          ELSE [json |-> NULL, status |-> "failed"]
    BY <1>5 DEF EvaluateSegment, IsKind
  <2> QED
    BY <1>2, <1>3, <1>5, <2>1, <2>2
<1>6. CASE found.status = "ok" /\ found.json \in X /\ h[found.json].kind = "array"
  <2>1. /\ at \in Seq(Refs) /\ Len(at) \in Nat /\ DOMAIN at = 1 .. Len(at)
        /\ \A k \in DOMAIN at : at[k] \in Refs \cap (X \cup Scalars)
    BY <1>6, Contents
  <2>2. CASE segment = Dash
    <3>1. EvaluateSegment(h, found, segment) =
            IF at = <<>> THEN [json |-> NULL, status |-> "throws"]
            ELSE [found EXCEPT !.json = at[Len(at)]]
      BY <1>6, <2>2 DEF EvaluateSegment, IsKind, Last
    <3>2. at # <<>> => Len(at) \in DOMAIN at
      BY <2>1, EmptySeq
    <3> QED
      BY <1>2, <1>3, <1>6, <2>1, <3>1, <3>2
  <2>3. CASE segment # Dash
    <3>1. EvaluateSegment(h, found, segment) =
            IF n \in 0 .. Len(at) - 1 THEN [found EXCEPT !.json = at[n + 1]]
            ELSE [json |-> NULL, status |-> "failed"]
      BY <1>6, <2>3 DEF EvaluateSegment, IsKind
    <3>2. n \in 0 .. Len(at) - 1 => n + 1 \in DOMAIN at
      BY <2>1
    <3> QED
      BY <1>2, <1>3, <1>6, <2>1, <3>1, <3>2
  <2> QED
    BY <2>2, <2>3
<1>7. CASE /\ found.status = "ok"
           /\ ~ (found.json \in X /\ h[found.json].kind \in {"object", "array"})
  <2>1. found.json \in Locs => found.json \in X
    BY <1>1, <1>7, LocsAssumption
  <2>2. ~ IsKind(h, found.json, "object") /\ ~ IsKind(h, found.json, "array")
    BY <1>7, <2>1 DEF IsKind
  <2> QED
    BY <1>2, <1>7, <2>2 DEF EvaluateSegment
<1> QED
  BY <1>4, <1>5, <1>6, <1>7

(* The container that a walk stands in front of, and the place in it.      *)
At(h, w) == IF h[w.parent].kind = "array" THEN w.key + 1 ELSE w.key

Resolves(h, X, w) ==
  w.status = "ok" =>
    /\ w.parent \in X
    /\ At(h, w) \in DOMAIN h[w.parent].at
    /\ w.current = h[w.parent].at[At(h, w)]

LEMMA ResolvePartStays ==
  ASSUME NEW h \in Heap, NEW X \in SUBSET Locs, Closed(h, X),
         NEW w \in Walks(X), NEW part \in Segments
  PROVE  /\ ResolvePart(h, w, part) \in Walks(X)
         /\ Resolves(h, X, ResolvePart(h, w, part))
<1> DEFINE at == h[w.current].at
           n == Index(part)
           v == ResolvePart(h, w, part)
           result == v \in Walks(X) /\ Resolves(h, X, v)
           walk == [parent : Locs \cup {NULL}, key : Segments \cup Int,
                    current : Refs \cup {NULL}, status : Statuses]
<1> SUFFICES result
  OBVIOUS
<1>1. w \in walk /\ (w.status = "ok" => w.current \in X \cup Scalars \cup {NULL})
  BY DEF Walks
<1>2. ASSUME NEW s \in {"failed", "throws"}, v = [w EXCEPT !.status = s]
      PROVE  result
  <2>1. v \in walk /\ v.status # "ok"
    BY <1>1, <1>2 DEF Statuses
  <2> QED
    BY <2>1 DEF Walks, Resolves
<1>3. ASSUME w.status = "ok", w.current \in X, NEW k \in Segments \cup Int, NEW d \in DOMAIN at,
             at[d] \in Refs \cap (X \cup Scalars),
             v = [w EXCEPT !.parent = w.current, !.key = k, !.current = at[d]],
             d = IF h[w.current].kind = "array" THEN k + 1 ELSE k
      PROVE  result
  <2>1. /\ v.parent = w.current /\ v.key = k /\ v.current = at[d]
        /\ v.status = "ok"
        /\ v \in walk
    BY <1>1, <1>3
  <2>2. v \in Walks(X)
    BY <1>3, <2>1 DEF Walks
  <2>3. Resolves(h, X, v)
    BY <1>3, <2>1 DEF Resolves, At
  <2> QED
    BY <2>2, <2>3
<1>4. CASE w.status # "ok"
  <2>1. v = w
    BY <1>4 DEF ResolvePart
  <2> QED
    BY <1>4, <2>1 DEF Resolves
<1>5. CASE w.status = "ok" /\ w.current \in X /\ h[w.current].kind = "object"
  <2>1. \A k \in DOMAIN at : at[k] \in Refs \cap (X \cup Scalars)
    BY <1>5, Contents
  <2>2. v = IF part \in DOMAIN at
            THEN [w EXCEPT !.parent = w.current, !.key = part, !.current = at[part]]
            ELSE [w EXCEPT !.status = "failed"]
    BY <1>5 DEF ResolvePart, IsKind
  <2> HIDE DEF result, v, at
  <2>3. CASE part \in DOMAIN at
    BY <1>3, <1>5, <2>1, <2>2, <2>3
  <2>4. CASE part \notin DOMAIN at
    BY <1>2, <2>2, <2>4
  <2> QED
    BY <2>3, <2>4
<1>6. CASE w.status = "ok" /\ w.current \in X /\ h[w.current].kind = "array"
  <2> DEFINE index == IF n = IntMax THEN Len(at) - 1 ELSE n
  <2>1. /\ Len(at) \in Nat /\ DOMAIN at = 1 .. Len(at)
        /\ \A k \in DOMAIN at : at[k] \in Refs \cap (X \cup Scalars)
    BY <1>6, Contents
  <2>2. v = IF n = -1 \/ (n # IntMax /\ Len(at) <= n)
            THEN [w EXCEPT !.status = "failed"]
            ELSE IF index < 0
            THEN [w EXCEPT !.status = "throws"]
            ELSE [w EXCEPT !.parent = w.current, !.key = index, !.current = at[index + 1]]
    BY <1>6 DEF ResolvePart, IsKind
  <2>3. n \in Int /\ IntMax \in Nat
    BY NumberIsInt
  <2> HIDE DEF result, v, at, n
  <2>4. CASE n = -1 \/ (n # IntMax /\ Len(at) <= n)
    BY <1>2, <2>2, <2>4
  <2>5. CASE ~ (n = -1 \/ (n # IntMax /\ Len(at) <= n)) /\ index < 0
    <3> HIDE DEF index
    <3> QED
      BY <1>2, <2>2, <2>5
  <2>6. CASE ~ (n = -1 \/ (n # IntMax /\ Len(at) <= n)) /\ ~ (index < 0)
    <3>1. index \in Int /\ index + 1 \in DOMAIN at
      BY <2>1, <2>3, <2>6
    <3> HIDE DEF index
    <3>2. v = [w EXCEPT !.parent = w.current, !.key = index, !.current = at[index + 1]]
      BY <2>2, <2>6
    <3> QED
      BY <1>3, <1>6, <2>1, <3>1, <3>2
  <2> QED
    BY <2>4, <2>5, <2>6
<1>7. CASE w.status = "ok" /\ ~ (w.current \in X /\ h[w.current].kind \in {"object", "array"})
  <2>1. w.current \in Locs => w.current \in X
    BY <1>1, <1>7, LocsAssumption DEF Refs
  <2>2. ~ IsKind(h, w.current, "object") /\ ~ IsKind(h, w.current, "array")
    BY <1>7, <2>1 DEF IsKind
  <2>3. v = [w EXCEPT !.status = "failed"]
    BY <1>7, <2>2 DEF ResolvePart
  <2> HIDE DEF result, v
  <2> QED
    BY <1>2, <2>3
<1> QED
  BY <1>4, <1>5, <1>6, <1>7

(* Where InsertValue puts its value: a member, or an index.                *)
Places(h, X, w) ==
  w.status = "ok" =>
    /\ w.parent \in X
    /\ h[w.parent].kind \in {"object", "array"}
    /\ h[w.parent].kind = "object" => w.key \in Segments
    /\ h[w.parent].kind = "array" => w.key \in Nat

LEMMA InsertPartStays ==
  ASSUME NEW h \in Heap, NEW X \in SUBSET Locs, Closed(h, X),
         NEW w \in Walks(X), NEW part \in Segments
  PROVE  /\ InsertPart(h, w, part) \in Walks(X)
         /\ Places(h, X, InsertPart(h, w, part))
<1> DEFINE at == h[w.current].at
           n == Index(part)
           v == InsertPart(h, w, part)
           result == v \in Walks(X) /\ Places(h, X, v)
           walk == [parent : Locs \cup {NULL}, key : Segments \cup Int,
                    current : Refs \cup {NULL}, status : Statuses]
<1> SUFFICES result
  OBVIOUS
<1>1. w \in walk /\ (w.status = "ok" => w.current \in X \cup Scalars \cup {NULL})
  BY DEF Walks
<1>2. ASSUME NEW s \in {"failed", "throws"}, v = [w EXCEPT !.status = s]
      PROVE  result
  <2>1. v \in walk /\ v.status # "ok"
    BY <1>1, <1>2 DEF Statuses
  <2> QED
    BY <2>1 DEF Walks, Places
<1>3. ASSUME w.status = "ok", w.current \in X, h[w.current].kind \in {"object", "array"},
             NEW k \in Segments \cup Int, NEW c \in {NULL} \cup (Refs \cap (X \cup Scalars)),
             v = [w EXCEPT !.parent = w.current, !.key = k, !.current = c],
             h[w.current].kind = "object" => k \in Segments,
             h[w.current].kind = "array" => k \in Nat
      PROVE  result
  <2>1. /\ v.parent = w.current /\ v.key = k /\ v.current = c
        /\ v.status = "ok"
        /\ v \in walk
    BY <1>1, <1>3
  <2>2. v \in Walks(X)
    BY <1>3, <2>1 DEF Walks
  <2>3. Places(h, X, v)
    BY <1>3, <2>1 DEF Places
  <2> QED
    BY <2>2, <2>3
<1>4. CASE w.status # "ok"
  <2>1. v = w
    BY <1>4 DEF InsertPart
  <2> QED
    BY <1>4, <2>1 DEF Places
<1>5. CASE w.status = "ok" /\ w.current \in X /\ h[w.current].kind = "object"
  <2> DEFINE c == IF part \in DOMAIN at THEN at[part] ELSE NULL
  <2>1. \A k \in DOMAIN at : at[k] \in Refs \cap (X \cup Scalars)
    BY <1>5, Contents
  <2>2. v = [w EXCEPT !.parent = w.current, !.key = part, !.current = c]
    BY <1>5 DEF InsertPart, IsKind
  <2>3. c \in {NULL} \cup (Refs \cap (X \cup Scalars))
    BY <2>1
  <2> HIDE DEF result, v, at, c
  <2> QED
    BY <1>3, <1>5, <2>2, <2>3
<1>6. CASE w.status = "ok" /\ w.current \in X /\ h[w.current].kind = "array"
  <2> DEFINE index == IF n = IntMax THEN Greater(0, Len(at) - 1) ELSE n
             key == IF part = Dash THEN Len(at) ELSE index
             c == IF index < Len(at) THEN at[index + 1] ELSE NULL
  <2>1. /\ Len(at) \in Nat /\ DOMAIN at = 1 .. Len(at)
        /\ \A k \in DOMAIN at : at[k] \in Refs \cap (X \cup Scalars)
    BY <1>6, Contents
  <2>2. v = IF n = -1
            THEN [w EXCEPT !.status = "failed"]
            ELSE IF index < 0
            THEN [w EXCEPT !.status = "throws"]
            ELSE [w EXCEPT !.parent = w.current, !.key = key, !.current = c]
    BY <1>6 DEF InsertPart, IsKind
  <2>3. n \in Int /\ IntMax \in Nat /\ index \in Int
    BY <2>1, NumberIsInt DEF Greater
  <2> HIDE DEF result, v, at, n, index
  <2>4. CASE n = -1
    BY <1>2, <2>2, <2>4
  <2>5. CASE n # -1 /\ index < 0
    BY <1>2, <2>2, <2>5
  <2>6. CASE n # -1 /\ ~ (index < 0)
    <3>1. key \in Nat
      BY <2>1, <2>3, <2>6
    <3>2. c \in {NULL} \cup (Refs \cap (X \cup Scalars))
      <4>1. index < Len(at) => index + 1 \in DOMAIN at
        BY <2>1, <2>3, <2>6
      <4> QED
        BY <2>1, <4>1
    <3>3. v = [w EXCEPT !.parent = w.current, !.key = key, !.current = c]
      BY <2>2, <2>6
    <3> HIDE DEF key, c
    <3>4. key \in Segments \cup Int /\ h[w.current].kind # "object" /\ h[w.current].kind \in {"object", "array"}
      BY <1>6, <3>1
    <3> QED
      BY <1>3, <1>6, <3>1, <3>2, <3>3, <3>4, Zenon
  <2> QED
    BY <2>4, <2>5, <2>6
<1>7. CASE w.status = "ok" /\ ~ (w.current \in X /\ h[w.current].kind \in {"object", "array"})
  <2>1. w.current \in Locs => w.current \in X
    BY <1>1, <1>7, LocsAssumption DEF Refs
  <2>2. ~ IsKind(h, w.current, "object") /\ ~ IsKind(h, w.current, "array")
    BY <1>7, <2>1 DEF IsKind
  <2>3. v = [w EXCEPT !.status = "failed"]
    BY <1>7, <2>2 DEF InsertPart
  <2> HIDE DEF result, v
  <2> QED
    BY <1>2, <2>3
<1> QED
  BY <1>4, <1>5, <1>6, <1>7

LEMMA EvaluateStays ==
  ASSUME NEW h \in Heap, NEW X \in SUBSET Locs, Closed(h, X),
         NEW json \in X \cup Scalars, NEW path \in Seq(Segments)
  PROVE  Evaluate(h, json, path) \in Found(X)
<1>1. [json |-> json, status |-> "ok"] \in Found(X)
  BY DEF Found, Refs, Statuses
<1>2. \A w \in Found(X), part \in Segments : EvaluateSegment(h, w, part) \in Found(X)
  BY EvaluateSegmentStays
<1>3. \A n \in 0 .. Len(path) : Evaluation(h, json, path)[n] \in Found(X)
  BY <1>1, <1>2, EvaluationSteps
<1>4. Len(path) \in 0 .. Len(path)
  BY LenProperties
<1> QED
  BY <1>3, <1>4 DEF Evaluate

LEMMA WalkBegins ==
  ASSUME NEW X \in SUBSET Locs, NEW json \in X \cup Scalars, NEW s \in Statuses
  PROVE  WalkFrom(json, s) \in Walks(X)
BY DEF WalkFrom, Walks, Refs

LEMMA ResolutionStays ==
  ASSUME NEW h \in Heap, NEW X \in SUBSET Locs, Closed(h, X),
         NEW json \in X \cup Scalars, NEW path \in Seq(Segments)
  PROVE  LET walk == Resolution(h, json, path)
         IN /\ walk[0] = WalkFrom(json, IF path = <<>> THEN "failed" ELSE "ok")
            /\ \A n \in 0 .. Len(path) : walk[n] \in Walks(X)
            /\ \A n \in 1 .. Len(path) : walk[n] = ResolvePart(h, walk[n - 1], path[n])
<1> DEFINE first == WalkFrom(json, IF path = <<>> THEN "failed" ELSE "ok")
<1>1. first \in Walks(X)
  BY WalkBegins DEF Statuses
<1>2. \A w \in Walks(X), part \in Segments : ResolvePart(h, w, part) \in Walks(X)
  BY ResolvePartStays
<1> QED
  BY <1>1, <1>2, ResolutionSteps

LEMMA ResolvePointerStays ==
  ASSUME NEW h \in Heap, NEW X \in SUBSET Locs, Closed(h, X),
         NEW json \in X \cup Scalars, NEW path \in Seq(Segments)
  PROVE  /\ ResolvePointer(h, json, path) \in Walks(X)
         /\ Resolves(h, X, ResolvePointer(h, json, path))
<1> DEFINE first == WalkFrom(json, IF path = <<>> THEN "failed" ELSE "ok")
           walk == Resolution(h, json, path)
           N == Len(path)
<1>1. first \in Walks(X)
  BY WalkBegins DEF Statuses
<1>3. /\ walk[0] = first
      /\ \A n \in 0 .. N : walk[n] \in Walks(X)
      /\ \A n \in 1 .. N : walk[n] = ResolvePart(h, walk[n - 1], path[n])
  BY ResolutionStays
<1>4. N \in Nat /\ (path = <<>> <=> N = 0) /\ \A n \in 1 .. N : path[n] \in Segments
  BY EmptySeq, LenProperties, ElementOfSeq
<1> HIDE DEF walk, N, first
<1>5. CASE path = <<>>
  <2>1. walk[N] = first /\ first.status = "failed"
    BY <1>3, <1>4, <1>5 DEF first, WalkFrom
  <2> QED
    BY <1>1, <2>1 DEF Resolves, ResolvePointer, walk, N
<1>6. CASE path # <<>>
  <2>1. N \in 1 .. N /\ N - 1 \in 0 .. N
    BY <1>4, <1>6
  <2>2. walk[N] = ResolvePart(h, walk[N - 1], path[N]) /\ walk[N - 1] \in Walks(X) /\ path[N] \in Segments
    BY <1>3, <1>4, <2>1
  <2>3. walk[N] \in Walks(X) /\ Resolves(h, X, walk[N])
    BY <2>2, ResolvePartStays
  <2> QED
    BY <2>3 DEF ResolvePointer, walk, N
<1> QED
  BY <1>5, <1>6

LEMMA InsertionStays ==
  ASSUME NEW h \in Heap, NEW X \in SUBSET Locs, Closed(h, X),
         NEW json \in X \cup Scalars, NEW path \in Seq(Segments), path # <<>>
  PROVE  LET w == Insertion(h, json, path)[Len(path)]
         IN w \in Walks(X) /\ Places(h, X, w)
<1> DEFINE first == WalkFrom(json, "ok")
           walk == Insertion(h, json, path)
           N == Len(path)
<1>1. first \in Walks(X)
  BY WalkBegins DEF Statuses
<1>2. \A w \in Walks(X), part \in Segments : InsertPart(h, w, part) \in Walks(X)
  BY InsertPartStays
<1>3. /\ \A n \in 0 .. N : walk[n] \in Walks(X)
      /\ \A n \in 1 .. N : walk[n] = InsertPart(h, walk[n - 1], path[n])
  BY <1>1, <1>2, InsertionSteps
<1>4. N \in Nat \ {0} /\ \A n \in 1 .. N : path[n] \in Segments
  BY EmptySeq, LenProperties, ElementOfSeq
<1>5. SUFFICES walk[N] \in Walks(X) /\ Places(h, X, walk[N])
  OBVIOUS
<1> HIDE DEF walk, N, first
<1>6. N \in 1 .. N /\ N - 1 \in 0 .. N
  BY <1>4
<1>7. walk[N] = InsertPart(h, walk[N - 1], path[N]) /\ walk[N - 1] \in Walks(X) /\ path[N] \in Segments
  BY <1>3, <1>4, <1>6
<1> QED
  BY <1>7, InsertPartStays

------------------------------------------------------------------------------
(* What each operation does to the heap, X being closed and having the     *)
(* document it is applied to.                                              *)
LEMMA InsertValueStays ==
  ASSUME NEW h \in Heap, NEW X \in SUBSET Locs, Closed(h, X),
         NEW json \in X \cup Scalars, NEW path \in Seq(Segments),
         NEW value \in Refs, NEW insertAfter \in BOOLEAN
  PROVE  /\ Spared(InsertValue(h, json, path, value, insertAfter), h, X)
         /\ value \in X \cup Scalars =>
              Closed(InsertValue(h, json, path, value, insertAfter).heap, X)
<1> DEFINE w == Insertion(h, json, path)[Len(path)]
           at == h[w.parent].at
           r == InsertValue(h, json, path, value, insertAfter)
           put(k) == Write(h, w.parent, k)
           result == Spared(r, h, X) /\ (value \in X \cup Scalars => Closed(r.heap, X))
<1> SUFFICES result
  OBVIOUS
<1>1. json \in Refs
  BY DEF Refs
<1>2. ASSUME NEW s \in Statuses, NEW j \in Refs, r = Outcome(h, j, s)
      PROVE  result
  BY <1>2 DEF Outcome, Spared, Statuses
<1>3. ASSUME w.parent \in X, NEW content,
             [h[w.parent] EXCEPT !.at = content] \in Objects \cup Arrays,
             value \in X \cup Scalars => \A k \in DOMAIN content : content[k] \in X \cup Scalars,
             r = Outcome(Write(h, w.parent, content), json, "ok")
      PROVE  result
  <2>1. /\ Write(h, w.parent, content) \in Heap
        /\ \A m \in Locs \ {w.parent} : Write(h, w.parent, content)[m] = h[m]
        /\ value \in X \cup Scalars => Closed(Write(h, w.parent, content), X)
    <3> HIDE DEF w
    <3> QED
      BY <1>3, Written
  <2>2. /\ r.heap = Write(h, w.parent, content) /\ r.status = "ok" /\ r.json = json
    BY <1>3 DEF Outcome
  <2> HIDE DEF r, w
  <2> QED
    BY <1>1, <1>3, <2>1, <2>2 DEF Spared, Statuses
<1>4. CASE path = <<>>
  <2>1. r = Outcome(h, value, "ok")
    BY <1>4 DEF InsertValue
  <2> HIDE DEF result, r
  <2> QED
    BY <1>2, <2>1 DEF Statuses
<1>5. CASE path # <<>> /\ w.status # "ok"
  <2>1. r = Outcome(h, json, w.status)
    BY <1>5 DEF InsertValue
  <2>2. w.status \in Statuses
    BY <1>5, InsertionStays DEF Walks
  <2> HIDE DEF result, r, w
  <2> QED
    BY <1>1, <1>2, <2>1, <2>2
<1>6. CASE path # <<>> /\ w.status = "ok" /\ h[w.parent].kind = "object"
  <2>1. w.parent \in X /\ w.key \in Segments /\ IsKind(h, w.parent, "object")
    BY <1>6, InsertionStays DEF Places, IsKind
  <2> DEFINE content == [k \in DOMAIN at \cup {w.key} |-> IF k = w.key THEN value ELSE at[k]]
  <2>2. r = Outcome(Write(h, w.parent, content), json, "ok")
    BY <1>6, <2>1 DEF InsertValue
  <2> HIDE DEF w, r, result
  <2>3. /\ h[w.parent] \in Objects /\ DOMAIN at \subseteq Segments
        /\ \A k \in DOMAIN at : at[k] \in Refs \cap (X \cup Scalars)
    BY <1>6, <2>1, Contents
  <2>4. DOMAIN content \in SUBSET Segments /\ content \in [DOMAIN content -> Refs]
    BY <2>1, <2>3
  <2>5. \A k \in DOMAIN content : content[k] = value \/ content[k] \in X \cup Scalars
    BY <2>3
  <2> HIDE DEF content
  <2>6. [h[w.parent] EXCEPT !.at = content] \in Objects
    BY <2>3, <2>4 DEF Objects
  <2> QED
    BY <1>3, <2>1, <2>2, <2>5, <2>6
<1>7. CASE path # <<>> /\ w.status = "ok" /\ h[w.parent].kind # "object"
  <2>1. w.parent \in X /\ w.key \in Nat /\ ~ IsKind(h, w.parent, "object") /\ h[w.parent].kind = "array"
    BY <1>7, InsertionStays DEF Places, IsKind
  <2> DEFINE i == w.key + (IF insertAfter THEN 2 ELSE 1)
  <2>2. r = CASE w.key > Len(at) -> Outcome(h, json, "failed")
              [] w.key = Len(at) -> Outcome(Write(h, w.parent, Append(at, value)), json, "ok")
              [] OTHER -> Outcome(Write(h, w.parent, InsertAt(at, i, value)), json, "ok")
    BY <1>7, <2>1 DEF InsertValue
  <2> HIDE DEF w, r, result
  <2>3. /\ h[w.parent] \in Arrays /\ at \in Seq(Refs) /\ at \in Seq(X \cup Scalars) /\ Len(at) \in Nat
    BY <2>1, Contents
  <2>4. ASSUME NEW content \in Seq(Refs),
               value \in X \cup Scalars => content \in Seq(X \cup Scalars),
               r = Outcome(Write(h, w.parent, content), json, "ok")
        PROVE  result
    <3>1. [h[w.parent] EXCEPT !.at = content] \in Arrays
      BY <2>3 DEF Arrays
    <3>2. value \in X \cup Scalars => \A k \in DOMAIN content : content[k] \in X \cup Scalars
      BY <2>4, LenProperties, ElementOfSeq
    <3> QED
      BY <1>3, <2>1, <2>4, <3>1, <3>2
  <2>5. CASE w.key > Len(at)
    <3>1. r = Outcome(h, json, "failed")
      BY <2>2, <2>5
    <3> QED
      BY <1>1, <1>2, <3>1 DEF Statuses
  <2>6. CASE w.key = Len(at)
    <3>1. r = Outcome(Write(h, w.parent, Append(at, value)), json, "ok")
      BY <2>1, <2>2, <2>3, <2>6
    <3>2. /\ Append(at, value) \in Seq(Refs)
          /\ value \in X \cup Scalars => Append(at, value) \in Seq(X \cup Scalars)
      BY <2>3, AppendProperties
    <3> QED
      BY <2>4, <3>1, <3>2
  <2>7. CASE w.key < Len(at)
    <3>1. i \in 1 .. Len(at) + 1
      BY <2>1, <2>3, <2>7
    <3> HIDE DEF i, at
    <3>2. r = Outcome(Write(h, w.parent, InsertAt(at, i, value)), json, "ok")
      BY <2>1, <2>2, <2>3, <2>7
    <3>3. /\ InsertAt(at, i, value) \in Seq(Refs)
          /\ value \in X \cup Scalars => InsertAt(at, i, value) \in Seq(X \cup Scalars)
      BY <2>3, <3>1, InsertedInSeq
    <3> QED
      BY <2>4, <3>2, <3>3
  <2> QED
    BY <2>1, <2>3, <2>5, <2>6, <2>7
<1> QED
  BY <1>4, <1>5, <1>6, <1>7

LEMMA RemoveAtPathStays ==
  ASSUME NEW h \in Heap, NEW X \in SUBSET Locs, Closed(h, X),
         NEW json \in X \cup Scalars, NEW Path \in Seq(Segments), NEW path \in Seq(Segments)
  PROVE  /\ Spared(RemoveAtPath(h, json, Path, path), h, X)
         /\ Closed(RemoveAtPath(h, json, Path, path).heap, X)
<1> DEFINE w == ResolvePointer(h, json, path)
           at == h[w.parent].at
           r == RemoveAtPath(h, json, Path, path)
           result == Spared(r, h, X) /\ Closed(r.heap, X)
<1> SUFFICES result
  OBVIOUS
<1>1. json \in Refs /\ w \in Walks(X) /\ Resolves(h, X, w)
  BY ResolvePointerStays DEF Refs
<1>2. ASSUME NEW s \in Statuses, r = Outcome(h, json, s)
      PROVE  result
  BY <1>1, <1>2 DEF Outcome, Spared, Statuses
<1>3. ASSUME NEW l \in X, NEW content, [h[l] EXCEPT !.at = content] \in Objects \cup Arrays,
             \A k \in DOMAIN content : content[k] \in X \cup Scalars,
             r = Outcome(Write(h, l, content), json, "ok")
      PROVE  result
  <2>1. /\ Write(h, l, content) \in Heap
        /\ \A m \in Locs \ {l} : Write(h, l, content)[m] = h[m]
        /\ Closed(Write(h, l, content), X)
    BY <1>3, Written
  <2>2. /\ r.heap = Write(h, l, content) /\ r.status = "ok" /\ r.json = json
    BY <1>3 DEF Outcome
  <2> HIDE DEF r, w
  <2> QED
    BY <1>1, <1>3, <2>1, <2>2 DEF Spared, Statuses
<1>4. CASE Path = <<>>
  <2>1. r = IF IsKind(h, json, "object") THEN Outcome(Write(h, json, <<>>), json, "ok")
            ELSE Outcome(h, json, "throws")
    BY <1>4 DEF RemoveAtPath
  <2> HIDE DEF r, result
  <2>2. CASE IsKind(h, json, "object")
    <3>1. json \in X /\ h[json].kind = "object"
      BY <2>2, LocsAssumption DEF IsKind
    <3>2. h[json] \in Objects
      BY <3>1, Contents
    <3>3. <<>> \in [{} -> Refs] /\ DOMAIN <<>> = {}
      OBVIOUS
    <3>4. [h[json] EXCEPT !.at = <<>>] \in Objects
      BY <3>2, <3>3 DEF Objects
    <3> QED
      BY <1>3, <2>1, <2>2, <3>1, <3>3, <3>4
  <2>3. CASE ~ IsKind(h, json, "object")
    BY <1>2, <2>1, <2>3 DEF Statuses
  <2> QED
    BY <2>2, <2>3
<1>5. CASE Path # <<>> /\ w.status # "ok"
  <2>1. r = Outcome(h, json, w.status)
    BY <1>5 DEF RemoveAtPath
  <2>2. w.status \in Statuses
    BY <1>1 DEF Walks
  <2> HIDE DEF result, r, w
  <2> QED
    BY <1>2, <2>1, <2>2
<1>6. CASE Path # <<>> /\ w.status = "ok"
  <2>1. w.parent \in X /\ At(h, w) \in DOMAIN at
    BY <1>1, <1>6 DEF Resolves
  <2>2. r = IF h[w.parent].kind = "object"
            THEN Outcome(Write(h, w.parent, [k \in DOMAIN at \ {w.key} |-> at[k]]), json, "ok")
            ELSE Outcome(Write(h, w.parent, RemoveAt(at, w.key + 1)), json, "ok")
    BY <1>6, <2>1 DEF RemoveAtPath, IsKind
  <2>3. /\ h[w.parent] \in Objects \cup Arrays
        /\ \A k \in DOMAIN at : at[k] \in Refs \cap (X \cup Scalars)
    BY <2>1, Contents
  <2> HIDE DEF w, r, result
  <2>4. CASE h[w.parent].kind = "object"
    <3> DEFINE content == [k \in DOMAIN at \ {w.key} |-> at[k]]
    <3>1. h[w.parent] \in Objects /\ DOMAIN at \subseteq Segments
      BY <2>1, <2>4, Contents
    <3>2. DOMAIN content \in SUBSET Segments /\ content \in [DOMAIN content -> Refs]
      BY <2>3, <3>1
    <3>3. \A k \in DOMAIN content : content[k] \in X \cup Scalars
      BY <2>3
    <3>4. r = Outcome(Write(h, w.parent, content), json, "ok")
      BY <2>2, <2>4
    <3> HIDE DEF content
    <3>5. [h[w.parent] EXCEPT !.at = content] \in Objects
      BY <3>1, <3>2 DEF Objects
    <3> QED
      BY <1>3, <2>1, <3>3, <3>4, <3>5
  <2>5. CASE h[w.parent].kind # "object"
    <3> DEFINE content == RemoveAt(at, w.key + 1)
    <3>1. h[w.parent].kind = "array"
      BY <2>3, <2>5 DEF Objects, Arrays
    <3>2. /\ h[w.parent] \in Arrays /\ at \in Seq(Refs) /\ at \in Seq(X \cup Scalars)
          /\ DOMAIN at = 1 .. Len(at)
      BY <2>1, <3>1, Contents
    <3>3. w.key + 1 \in 1 .. Len(at)
      BY <2>1, <3>1, <3>2 DEF At
    <3>4. r = Outcome(Write(h, w.parent, content), json, "ok")
      BY <2>2, <2>5
    <3>5. content \in Seq(Refs) /\ content \in Seq(X \cup Scalars)
      <4> HIDE DEF at
      <4> QED
        BY <3>2, <3>3, RemovedFromSeq
    <3> HIDE DEF content
    <3>6. \A k \in DOMAIN content : content[k] \in X \cup Scalars
      BY <3>5, LenProperties, ElementOfSeq
    <3>7. [h[w.parent] EXCEPT !.at = content] \in Arrays
      BY <3>2, <3>5 DEF Arrays
    <3> QED
      BY <1>3, <2>1, <3>4, <3>6, <3>7
  <2> QED
    BY <2>4, <2>5
<1> QED
  BY <1>4, <1>5, <1>6

LEMMA CopyToStays ==
  ASSUME NEW h \in Heap, NEW X \in SUBSET Locs, Closed(h, X),
         NEW json \in X \cup Scalars, NEW From \in Seq(Segments), NEW Path \in Seq(Segments)
  PROVE  /\ Spared(CopyTo(h, json, From, Path), h, X)
         /\ Closed(CopyTo(h, json, From, Path).heap, X)
<1> DEFINE found == Evaluate(h, json, From)
           r == CopyTo(h, json, From, Path)
<1>1. /\ found \in [json : Refs \cup {NULL}, status : Statuses]
      /\ found.status = "ok" => found.json \in X \cup Scalars
  BY EvaluateStays DEF Found
<1>2. CASE found.status # "ok"
  <2>1. r = Outcome(h, json, found.status)
    BY <1>2 DEF CopyTo
  <2> HIDE DEF found
  <2>2. found.status \in Statuses
    BY <1>1
  <2>3. r.heap = h /\ r.status = found.status
    BY <2>1 DEF Outcome
  <2> HIDE DEF r
  <2>4. Spared(r, h, X) /\ Closed(r.heap, X)
    BY <1>2, <2>2, <2>3 DEF Spared
  <2> QED
    BY <2>4 DEF r
<1>3. CASE found.status = "ok"
  <2>1. r = InsertValue(h, json, Path, found.json, TRUE)
    BY <1>3 DEF CopyTo
  <2>2. found.json \in X \cup Scalars /\ found.json \in Refs
    BY <1>1, <1>3 DEF Refs
  <2> HIDE DEF found
  <2> QED
    BY <2>1, <2>2, InsertValueStays
<1> QED
  BY <1>2, <1>3

(* The second operation of a move and of a replacement finds what the first*)
(* left, in which X is closed still.                                       *)
LEMMA MoveToStays ==
  ASSUME NEW h \in Heap, NEW X \in SUBSET Locs, Closed(h, X),
         NEW json \in X \cup Scalars, NEW From \in Seq(Segments), NEW Path \in Seq(Segments)
  PROVE  Spared(MoveTo(h, json, From, Path), h, X)
<1> DEFINE copy == CopyTo(h, json, From, Path)
           r == MoveTo(h, json, From, Path)
           remove == RemoveAtPath(copy.heap, json, Path, From)
<1>1. Spared(copy, h, X) /\ Closed(copy.heap, X)
  BY CopyToStays
<1>2. CASE From = Path
  <2>1. r = Outcome(h, json, "ok") /\ json \in Refs
    BY <1>2 DEF MoveTo, Refs
  <2> QED
    BY <2>1 DEF Outcome, Spared, Statuses
<1>3. CASE From # Path /\ copy.status # "ok"
  <2>1. r = copy
    BY <1>3 DEF MoveTo
  <2> HIDE DEF copy, r
  <2>2. Spared(r, h, X)
    BY <1>1, <2>1
  <2> QED
    BY <2>2 DEF r
<1>4. CASE From # Path /\ copy.status = "ok"
  <2>1. r = remove
    BY <1>4 DEF MoveTo
  <2>2. copy.heap \in Heap /\ \A l \in Locs \ X : copy.heap[l] = h[l]
    BY <1>1 DEF Spared
  <2>3. Spared(remove, copy.heap, X)
    <3> HIDE DEF copy
    <3> QED
      BY <1>1, <2>2, RemoveAtPathStays
  <2> HIDE DEF copy, r, remove
  <2>4. Spared(r, h, X)
    BY <2>1, <2>2, <2>3 DEF Spared
  <2> QED
    BY <2>4 DEF r
<1> QED
  BY <1>2, <1>3, <1>4

LEMMA ReplaceAtPathStays ==
  ASSUME NEW h \in Heap, NEW X \in SUBSET Locs, Closed(h, X),
         NEW json \in X \cup Scalars, NEW Path \in Seq(Segments), NEW value \in Refs
  PROVE  Spared(ReplaceAtPath(h, json, Path, value), h, X)
<1> DEFINE remove == RemoveAtPath(h, json, Path, Path)
           r == ReplaceAtPath(h, json, Path, value)
           insert == InsertValue(remove.heap, json, Path, value, FALSE)
<1>1. Spared(remove, h, X) /\ Closed(remove.heap, X)
  BY RemoveAtPathStays
<1>2. CASE remove.status # "ok"
  <2>1. r = remove
    BY <1>2 DEF ReplaceAtPath
  <2> HIDE DEF remove, r
  <2>2. Spared(r, h, X)
    BY <1>1, <2>1
  <2> QED
    BY <2>2 DEF r
<1>3. CASE remove.status = "ok"
  <2>1. r = insert
    BY <1>3 DEF ReplaceAtPath
  <2>2. remove.heap \in Heap /\ \A l \in Locs \ X : remove.heap[l] = h[l]
    BY <1>1 DEF Spared
  <2>3. Spared(insert, remove.heap, X)
    <3> HIDE DEF remove
    <3> QED
      BY <1>1, <2>2, InsertValueStays
  <2> HIDE DEF remove, r, insert
  <2>4. Spared(r, h, X)
    BY <2>1, <2>2, <2>3 DEF Spared
  <2> QED
    BY <2>4 DEF r
<1> QED
  BY <1>2, <1>3

LEMMA TestAtStays ==
  ASSUME NEW h \in Heap, NEW X \in SUBSET Locs, Closed(h, X),
         NEW json \in X \cup Scalars, NEW Path \in Seq(Segments), NEW value \in Refs
  PROVE  Spared(TestAt(h, json, Path, value), h, X)
<1> DEFINE r == TestAt(h, json, Path, value)
           found == Evaluate(h, json, Path)
<1>1. found.status \in Statuses /\ json \in Refs
  BY EvaluateStays DEF Found, Refs
<1>2. \E s \in Statuses : r = Outcome(h, json, s)
  <2> HIDE DEF found
  <2>1. /\ found.status # "ok" => r = Outcome(h, json, found.status)
        /\ found.status = "ok" => \/ r = Outcome(h, json, "ok")
                                  \/ r = Outcome(h, json, "failed")
    BY DEF TestAt, found
  <2> QED
    BY <1>1, <2>1 DEF Statuses
<1> HIDE DEF r
<1>3. Spared(r, h, X)
  BY <1>1, <1>2 DEF Outcome, Spared
<1> QED
  BY <1>3 DEF r

------------------------------------------------------------------------------
(* What every action does, for every set of containers that has the current*)
(* document and is closed.                                                 *)
LEMMA StepSpares ==
  ASSUME TypeOK, Next, NEW X \in SUBSET Locs, Closed(heap, X), current \in X \cup Scalars
  PROVE  \E r : /\ Spared(r, heap, X)
                /\ heap' = r.heap /\ status' = r.status
                /\ current' = IF r.status = "ok" THEN r.json ELSE current
                /\ applied < MaxActions /\ applied' = applied + 1
<1>1. heap \in Heap /\ Values \subseteq Refs /\ Paths \subseteq Seq(Segments)
  BY DocumentAssumption, PathsAssumption DEF TypeOK, Heap
<1>2. PICK path \in Paths :
        \/ \E value \in Values : AddValue(path, value)
        \/ RemoveValue(path)
        \/ \E value \in Values : ReplaceValue(path, value)
        \/ \E from \in Paths : MoveValue(from, path)
        \/ \E from \in Paths : CopyValue(from, path)
        \/ \E value \in Values : TestValue(path, value)
  BY DEF Next
<1>3. path \in Seq(Segments)
  BY <1>1
<1>4. ASSUME NEW value \in Values, AddValue(path, value)
      PROVE  Spared(InsertValue(heap, current, path, value, FALSE), heap, X)
  BY <1>1, <1>3, InsertValueStays
<1>5. Spared(RemoveAtPath(heap, current, path, path), heap, X)
  BY <1>1, <1>3, RemoveAtPathStays
<1>6. ASSUME NEW value \in Values
      PROVE  /\ Spared(ReplaceAtPath(heap, current, path, value), heap, X)
             /\ Spared(TestAt(heap, current, path, value), heap, X)
  BY <1>1, <1>3, ReplaceAtPathStays, TestAtStays
<1>7. ASSUME NEW from \in Paths
      PROVE  /\ Spared(MoveTo(heap, current, from, path), heap, X)
             /\ Spared(CopyTo(heap, current, from, path), heap, X)
  BY <1>1, <1>3, MoveToStays, CopyToStays
<1>8. CASE \E value \in Values : AddValue(path, value)
  BY <1>4, <1>8 DEF AddValue, TryApply
<1>9. CASE RemoveValue(path)
  BY <1>5, <1>9 DEF RemoveValue, TryApply
<1>10. CASE \E value \in Values : ReplaceValue(path, value)
  BY <1>6, <1>10 DEF ReplaceValue, TryApply
<1>11. CASE \E from \in Paths : MoveValue(from, path)
  BY <1>7, <1>11 DEF MoveValue, TryApply
<1>12. CASE \E from \in Paths : CopyValue(from, path)
  BY <1>7, <1>12 DEF CopyValue, TryApply
<1>13. CASE \E value \in Values : TestValue(path, value)
  BY <1>6, <1>13 DEF TestValue, TryApply
<1> QED
  BY <1>2, <1>8, <1>9, <1>10, <1>11, <1>12, <1>13

(* All containers together are closed.                                     *)
LEMMA AllAreClosed == \A h : Closed(h, Locs)
BY DEF Closed, Children

(* JsonPatch.TryApply never makes a container that is no object and no     *)
(* array of values, and never leaves a null reference in one: not when an  *)
(* element is taken out, and not where a place is beyond the end.          *)
THEOREM TypeCorrect == Spec => []TypeOK
<1>1. Init => TypeOK
  BY DocumentAssumption, PathsAssumption DEF Init, TypeOK
<1>2. ASSUME TypeOK, [Next]_vars
      PROVE  TypeOK'
  <2>1. CASE Next
    <3>1. current \in Locs \cup Scalars
      BY <1>2 DEF TypeOK, Refs
    <3>2. PICK r : /\ Spared(r, heap, Locs)
                   /\ heap' = r.heap /\ status' = r.status
                   /\ current' = IF r.status = "ok" THEN r.json ELSE current
                   /\ applied < MaxActions /\ applied' = applied + 1
      BY <1>2, <2>1, <3>1, AllAreClosed, StepSpares
    <3>3. applied' \in 0 .. MaxActions
      BY <1>2, <3>2, PathsAssumption DEF TypeOK
    <3> QED
      BY <1>2, <3>2, <3>3 DEF TypeOK, Spared, Heap, Statuses
  <2>2. CASE UNCHANGED vars
    BY <1>2, <2>2 DEF TypeOK, vars
  <2> QED
    BY <1>2, <2>1, <2>2
<1> QED
  BY <1>1, <1>2, PTL DEF Spec

(* An action writes to containers of the current document only, whatever   *)
(* containers documents and values share: what it finds along a path, and  *)
(* what it puts in on the way to a removal, is of the document.            *)
THEOREM OnlyTheDocumentChanges == Spec => WritesCurrentOnly
<1> DEFINE Only == \A l \in Locs : heap'[l] # heap[l] => l \in Reach(heap, current)
<1>1. ASSUME TypeOK, [Next]_vars
      PROVE  [Only]_vars
  <2>1. CASE Next
    <3>1. SUFFICES ASSUME NEW l \in Locs, heap'[l] # heap[l], NEW X \in SUBSET Locs,
                          {current} \cap Locs \subseteq X, Closed(heap, X)
                   PROVE  l \in X
      BY DEF Reach
    <3>2. current \in X \cup Scalars
      BY <1>1, <3>1 DEF TypeOK, Refs
    <3>3. PICK r : Spared(r, heap, X) /\ heap' = r.heap
      BY <1>1, <2>1, <3>1, <3>2, StepSpares
    <3> QED
      BY <3>1, <3>3 DEF Spared
  <2> QED
    BY <1>1, <2>1
<1> QED
  BY <1>1, TypeCorrect, PTL DEF Spec, WritesCurrentOnly

------------------------------------------------------------------------------
(* After each segment the two walks are in the same place.                 *)
Together(w, found) ==
  /\ w.status = found.status
  /\ w.status = "ok" => w.current = found.json

LEMMA SegmentsAgree ==
  ASSUME NEW h \in Heap, NEW w \in Walks(Locs), NEW found \in Found(Locs), Together(w, found),
         NEW part \in Segments, Number(part) \in -1 .. IntMax - 1
  PROVE  Together(ResolvePart(h, w, part), EvaluateSegment(h, found, part))
<1> DEFINE at == h[w.current].at
           n == Number(part)
           v == ResolvePart(h, w, part)
           e == EvaluateSegment(h, found, part)
           result == Together(v, e)
<1> SUFFICES result
  OBVIOUS
<1>1. /\ w \in [parent : Locs \cup {NULL}, key : Segments \cup Int, current : Refs \cup {NULL},
                status : Statuses]
      /\ w.status = "ok" => w.current \in Locs \cup Scalars \cup {NULL}
      /\ found \in [json : Refs \cup {NULL}, status : Statuses]
  BY DEF Walks, Found
<1>2. w.status = found.status /\ (w.status = "ok" => w.current = found.json)
  BY DEF Together
<1>3. ASSUME NEW s \in {"failed", "throws"}, v = [w EXCEPT !.status = s],
             e = [json |-> NULL, status |-> s]
      PROVE  result
  <2>1. v.status = s /\ e.status = s
    BY <1>1, <1>3
  <2> HIDE DEF v, e
  <2> QED
    BY <2>1 DEF Together
<1>4. ASSUME w.status = "ok", NEW k, NEW c,
             v = [w EXCEPT !.parent = w.current, !.key = k, !.current = c],
             e = [found EXCEPT !.json = c]
      PROVE  result
  <2>1. v.status = "ok" /\ v.current = c /\ e.status = "ok" /\ e.json = c
    BY <1>1, <1>2, <1>4
  <2> HIDE DEF v, e
  <2> QED
    BY <2>1 DEF Together
<1>5. CASE w.status # "ok"
  BY <1>2, <1>5 DEF ResolvePart, EvaluateSegment
<1>6. CASE w.status = "ok" /\ IsKind(h, w.current, "object")
  <2>1. /\ v = IF part \in DOMAIN at
               THEN [w EXCEPT !.parent = w.current, !.key = part, !.current = at[part]]
               ELSE [w EXCEPT !.status = "failed"]
        /\ e = IF part \in DOMAIN at THEN [found EXCEPT !.json = at[part]]
               ELSE [json |-> NULL, status |-> "failed"]
    <3>1. ~ IsKind(h, w.current, "array")
      BY <1>6 DEF IsKind
    <3> QED
      BY <1>2, <1>6, <3>1 DEF ResolvePart, EvaluateSegment
  <2> HIDE DEF result, v, e, at
  <2> QED
    BY <1>3, <1>4, <1>6, <2>1
<1>7. CASE w.status = "ok" /\ IsKind(h, w.current, "array")
  <2> DEFINE m == Index(part)
             index == IF m = IntMax THEN Len(at) - 1 ELSE m
  <2>1. w.current \in Locs /\ h[w.current].kind = "array" /\ ~ IsKind(h, w.current, "object")
    BY <1>7 DEF IsKind
  <2>2. at \in Seq(Refs) /\ Len(at) \in Nat /\ (at = <<>> <=> Len(at) = 0)
    <3>1. at \in Seq(Refs)
      BY <2>1, AllAreClosed, Contents
    <3> QED
      BY <3>1, EmptySeq, LenProperties
  <2>3. v = IF m = -1 \/ (m # IntMax /\ Len(at) <= m)
            THEN [w EXCEPT !.status = "failed"]
            ELSE IF index < 0
            THEN [w EXCEPT !.status = "throws"]
            ELSE [w EXCEPT !.parent = w.current, !.key = index, !.current = at[index + 1]]
    BY <1>7, <2>1 DEF ResolvePart
  <2>4. part = Dash => e = IF at = <<>> THEN [json |-> NULL, status |-> "throws"]
                           ELSE [found EXCEPT !.json = at[Len(at)]]
    BY <1>2, <1>7, <2>1 DEF EvaluateSegment, Last
  <2>5. part # Dash => e = IF n \in 0 .. Len(at) - 1 THEN [found EXCEPT !.json = at[n + 1]]
                           ELSE [json |-> NULL, status |-> "failed"]
    BY <1>2, <1>7, <2>1 DEF EvaluateSegment
  <2>6. /\ n \in Int /\ n >= -1 /\ n # IntMax
        /\ IntMax \in Nat
        /\ m = IF part = Dash THEN IntMax ELSE n
    BY NumberIsInt DEF Index
  <2> HIDE DEF result, v, e, at, n, m
  <2>7. CASE part = Dash /\ Len(at) = 0
    <3>1. m = IntMax /\ m # -1 /\ Len(at) - 1 < 0
      BY <2>2, <2>6, <2>7
    <3>2. v = [w EXCEPT !.status = "throws"] /\ e = [json |-> NULL, status |-> "throws"]
      BY <2>2, <2>3, <2>4, <2>7, <3>1
    <3> QED
      BY <1>3, <3>2
  <2>8. CASE part = Dash /\ Len(at) # 0
    <3>1. m = IntMax /\ m # -1 /\ Len(at) - 1 + 1 = Len(at) /\ ~ (Len(at) - 1 < 0)
      BY <2>2, <2>6, <2>8
    <3>2. v = [w EXCEPT !.parent = w.current, !.key = Len(at) - 1, !.current = at[Len(at)]]
      BY <2>3, <2>8, <3>1
    <3>3. e = [found EXCEPT !.json = at[Len(at)]]
      BY <2>2, <2>4, <2>8
    <3> QED
      BY <1>4, <1>7, <3>2, <3>3
  <2>9. CASE part # Dash /\ n \in 0 .. Len(at) - 1
    <3>1. m = n /\ m # IntMax /\ ~ (m = -1 \/ Len(at) <= m) /\ ~ (m < 0)
      BY <2>2, <2>6, <2>9
    <3>2. v = [w EXCEPT !.parent = w.current, !.key = n, !.current = at[n + 1]]
      BY <2>3, <2>9, <3>1
    <3>3. e = [found EXCEPT !.json = at[n + 1]]
      BY <2>5, <2>9
    <3> QED
      BY <1>4, <1>7, <3>2, <3>3
  <2>10. CASE part # Dash /\ n \notin 0 .. Len(at) - 1
    <3>1. m = -1 \/ (m # IntMax /\ Len(at) <= m)
      BY <2>2, <2>6, <2>10
    <3>2. v = [w EXCEPT !.status = "failed"] /\ e = [json |-> NULL, status |-> "failed"]
      BY <2>3, <2>5, <2>10, <3>1
    <3> QED
      BY <1>3, <3>2
  <2> QED
    BY <2>7, <2>8, <2>9, <2>10
<1>8. CASE w.status = "ok" /\ ~ IsKind(h, w.current, "object") /\ ~ IsKind(h, w.current, "array")
  <2>1. v = [w EXCEPT !.status = "failed"] /\ e = [json |-> NULL, status |-> "failed"]
    BY <1>2, <1>8 DEF ResolvePart, EvaluateSegment
  <2> HIDE DEF result, v, e
  <2> QED
    BY <1>3, <2>1
<1> QED
  BY <1>5, <1>6, <1>7, <1>8

LEMMA WalksAgree ==
  ASSUME NEW h \in Heap, NEW json \in Refs, NEW path \in Seq(Segments), path # <<>>,
         \A i \in DOMAIN path : Number(path[i]) \in -1 .. IntMax - 1
  PROVE  Together(ResolvePointer(h, json, path), Evaluate(h, json, path))
<1> DEFINE first == [json |-> json, status |-> "ok"]
           found == Evaluation(h, json, path)
           walk == Resolution(h, json, path)
           N == Len(path)
           Z == {n \in 0 .. N : Together(walk[n], found[n])}
<1>1. Closed(h, Locs) /\ json \in Locs \cup Scalars
  BY AllAreClosed DEF Refs
<1>2. /\ found[0] = first
      /\ \A n \in 0 .. N : found[n] \in Found(Locs)
      /\ \A n \in 1 .. N : found[n] = EvaluateSegment(h, found[n - 1], path[n])
  <2>1. first \in Found(Locs)
    BY <1>1 DEF Found, Statuses
  <2>2. \A w \in Found(Locs), part \in Segments : EvaluateSegment(h, w, part) \in Found(Locs)
    BY <1>1, EvaluateSegmentStays
  <2> QED
    BY <2>1, <2>2, EvaluationSteps
<1>3. /\ walk[0] = WalkFrom(json, "ok")
      /\ \A n \in 0 .. N : walk[n] \in Walks(Locs)
      /\ \A n \in 1 .. N : walk[n] = ResolvePart(h, walk[n - 1], path[n])
  <2>1. /\ walk[0] = WalkFrom(json, IF path = <<>> THEN "failed" ELSE "ok")
        /\ \A n \in 0 .. N : walk[n] \in Walks(Locs)
        /\ \A n \in 1 .. N : walk[n] = ResolvePart(h, walk[n - 1], path[n])
    BY <1>1, ResolutionStays
  <2> QED
    BY <2>1
<1>4. N \in Nat /\ \A n \in 1 .. N : path[n] \in Segments /\ Number(path[n]) \in -1 .. IntMax - 1
  BY LenProperties, ElementOfSeq
<1> HIDE DEF found, walk, N
<1>5. 0 \in Z
  BY <1>2, <1>3, <1>4 DEF Together, WalkFrom
<1>6. ASSUME NEW n \in 1 .. N, n - 1 \in Z
      PROVE  n \in Z
  <2>1. n - 1 \in 0 .. N /\ n \in 0 .. N
    BY <1>4
  <2>2. walk[n - 1] \in Walks(Locs) /\ found[n - 1] \in Found(Locs) /\ Together(walk[n - 1], found[n - 1])
    BY <1>2, <1>3, <1>6, <2>1
  <2>3. Together(walk[n], found[n])
    BY <1>2, <1>3, <1>4, <2>2, SegmentsAgree
  <2> QED
    BY <2>1, <2>3
<1>7. 0 .. N \subseteq Z
  <2> HIDE DEF Z
  <2> QED
    BY <1>4, <1>5, <1>6, Upwards
<1>8. Together(walk[N], found[N])
  <2>1. N \in 0 .. N
    BY <1>4
  <2> QED
    BY <1>7, <2>1
<1> QED
  BY <1>8 DEF ResolvePointer, Evaluate, walk, found, N

(* JsonPointer.Evaluate and ResolvePointer find the same value, and the    *)
(* second gives the container and the place where it is, for every pointer *)
(* whose numerals are neither negative nor int.MaxValue, in every state of *)
(* every patch.                                                            *)
THEOREM ResolversAlwaysAgree == Spec => []ResolversAgree
<1>1. TypeOK => ResolversAgree
  <2> SUFFICES ASSUME TypeOK, NEW path \in Paths \ {<<>>},
                      \A i \in DOMAIN path : Number(path[i]) \in -1 .. IntMax - 1
               PROVE  LET found == Evaluate(heap, current, path)
                          w == ResolvePointer(heap, current, path)
                          slot == IF IsKind(heap, w.parent, "array") THEN w.key + 1 ELSE w.key
                      IN /\ w.status = found.status
                         /\ w.status = "ok" => w.current = found.json /\ heap[w.parent].at[slot] = found.json
    BY DEF ResolversAgree
  <2> DEFINE found == Evaluate(heap, current, path)
             w == ResolvePointer(heap, current, path)
  <2>1. heap \in Heap /\ current \in Refs /\ path \in Seq(Segments) /\ current \in Locs \cup Scalars
    BY PathsAssumption DEF TypeOK, Heap, Refs
  <2>2. Together(w, found)
    BY <2>1, WalksAgree
  <2>3. Resolves(heap, Locs, w)
    BY <2>1, AllAreClosed, ResolvePointerStays
  <2> HIDE DEF found, w
  <2>4. /\ w.status = found.status
        /\ w.status = "ok" => /\ w.current = found.json /\ w.parent \in Locs
                              /\ w.current = heap[w.parent].at[At(heap, w)]
    BY <2>2, <2>3 DEF Together, Resolves
  <2> QED
    BY <2>4 DEF found, w, At, IsKind
<1> QED
  BY <1>1, TypeCorrect, PTL
==============================================================================
