----------------------- MODULE ReferenceTrackingProofs -----------------------
(***************************************************************************)
(* ReferenceTracking for all object graphs and documents: its type         *)
(* invariant, that reading pairs what it pushes and pops, that markers in  *)
(* graphs of classes and lists point to what they stand for, and that      *)
(* plain objects that are written and read back keep their shape.          *)
(***************************************************************************)
EXTENDS ReferenceTracking, CommonLemmas, FiniteSetTheorems

Maps(K, R) == UNION {[D -> R] : D \in SUBSET K}
Contexts(K, R) == [location : Positions, map : Maps(K, R)]
Frames(N, X) == [node : N, at : X, next : Nat \ {0}]

(* What is known of an object when X has been read.                        *)
Known(X) ==
  {k \in [object : X \cup {NULL}, targets : SUBSET Positions, complete : BOOLEAN] :
     k.complete <=> k.object # NULL}

(* The calls for members of an IJsonSerializable.                          *)
Nested(fs, d) == {i \in 1 .. Len(fs) - 1 : d[fs[i].at].kind = "custom"}

(* Each call is for a member of the value of the call around it, and there *)
(* is a context more for each that is nested.                              *)
Stacked(fs, cs, d) ==
  /\ \A i \in 1 .. Len(fs) : Len(fs[i].at) = i - 1
  /\ \A i \in 1 .. Len(fs) - 1 : fs[i].at = Front(fs[i + 1].at)
  /\ Len(cs) = Cardinality(Nested(fs, d)) + 1

(* The outermost context is where the first nested call was made.          *)
Located(fs, cs, d) ==
  \A i \in 1 .. Len(fs) :
    /\ \A j \in 1 .. i - 1 : j \notin Nested(fs, d)
    /\ i \in Nested(fs, d) \cup {Len(fs)}
    => cs[1].location = fs[i].at

Nodes == DOMAIN graph.kind

Writing ==
  /\ graph \in Graphs
  /\ frames \in Seq(Frames(Nodes, DOMAIN json)) /\ frames # <<>>
  /\ contexts \in Seq(Contexts(Nodes, Positions))
  /\ \A i \in 1 .. Len(frames) : json[frames[i].at].kind = graph.kind[frames[i].node]
  /\ Stacked(frames, contexts, json)

Reading ==
  /\ frames \in Seq(Frames({NULL}, DOMAIN value)) /\ frames # <<>>
  /\ contexts \in Seq(Contexts(Positions, Known(DOMAIN value)))
  /\ Stacked(frames, contexts, json)
  /\ Located(frames, contexts, json)

IInv ==
  /\ phase \in {"serialize", "deserialize", "done", "threw"}
  /\ graph \in Graphs \cup {NULL}
  /\ IsDocument(json)
  /\ DOMAIN value \subseteq DOMAIN json
  /\ value \in [DOMAIN value -> DOMAIN json \cup {NULL}]
  /\ Len(frames) <= MaxFrames
  /\ phase = "serialize" => Writing
  /\ phase = "deserialize" => Reading

------------------------------------------------------------------------------
(* Stacks, and maps with an entry more.                                    *)
LEMMA LessOne ==
  ASSUME NEW k \in Nat, k > 1
  PROVE  k - 1 \in Nat \ {0} /\ k = k - 1 + 1
OBVIOUS

LEMMA TopTyped ==
  ASSUME NEW S, NEW s \in Seq(S), s # <<>>
  PROVE  /\ Len(s) \in Nat \ {0} /\ Top(s) = s[Len(s)] /\ Top(s) \in S
         /\ \A i \in 1 .. Len(s) : s[i] \in S
BY TopIsIn, ElementOfSeq DEF Top

LEMMA SetTopTyped ==
  ASSUME NEW S, NEW s \in Seq(S), s # <<>>, NEW e \in S
  PROVE  /\ SetTop(s, e) \in Seq(S)
         /\ SetTop(s, e) # <<>>
         /\ Len(SetTop(s, e)) = Len(s)
         /\ Top(SetTop(s, e)) = e
         /\ \A i \in 1 .. Len(s) : SetTop(s, e)[i] = IF i = Len(s) THEN e ELSE s[i]
<1>1. Len(s) \in Nat \ {0}
  BY TopTyped
<1>2. /\ SetTop(s, e) \in Seq(S)
      /\ Len(SetTop(s, e)) = Len(s)
      /\ \A i \in 1 .. Len(s) : SetTop(s, e)[i] = IF i = Len(s) THEN e ELSE s[i]
  BY <1>1, ExceptSeq DEF SetTop
<1>3. SetTop(s, e) # <<>> /\ Top(SetTop(s, e)) = e
  BY <1>1, <1>2, EmptySeq DEF Top
<1> QED
  BY <1>2, <1>3

LEMMA FrontTyped ==
  ASSUME NEW S, NEW s \in Seq(S)
  PROVE  /\ Front(s) \in Seq(S)
         /\ s # <<>> => /\ Len(Front(s)) = Len(s) - 1
                        /\ \A i \in 1 .. Len(s) - 1 : Front(s)[i] = s[i]
<1>1. CASE s = <<>>
  <2>1. Front(s) = <<>>
    BY <1>1, SubSeqProperties, EmptySeq DEF Front
  <2> QED
    BY <1>1, <2>1, EmptySeq
<1>2. CASE s # <<>>
  BY <1>2, Popped DEF Front
<1> QED
  BY <1>1, <1>2

LEMMA FrontOfAppend ==
  ASSUME NEW S, NEW s \in Seq(S), NEW e \in S
  PROVE  /\ Append(s, e) \in Seq(S) /\ Append(s, e) # <<>> /\ Len(Append(s, e)) = Len(s) + 1
         /\ \A i \in 1 .. Len(s) : Append(s, e)[i] = s[i]
         /\ Append(s, e)[Len(s) + 1] = e
         /\ Front(Append(s, e)) = s
<1>1. /\ Append(s, e) \in Seq(S) /\ Len(Append(s, e)) = Len(s) + 1 /\ Len(s) \in Nat
      /\ \A i \in 1 .. Len(s) : Append(s, e)[i] = s[i]
      /\ Append(s, e)[Len(s) + 1] = e
      /\ Append(s, e) # <<>>
  BY AppendProperties, LenProperties
<1> DEFINE t == Append(s, e)
<1>2. t \in Seq(S) /\ t # <<>> /\ Len(t) - 1 = Len(s)
  BY <1>1
<1>3. /\ Front(t) \in Seq(S) /\ Len(Front(t)) = Len(t) - 1
      /\ \A i \in 1 .. Len(t) - 1 : Front(t)[i] = t[i]
  <2> HIDE DEF t
  <2> QED
    BY <1>2, FrontTyped
<1>4. Front(t) = s
  <2>1. \A i \in 1 .. Len(Front(t)) : Front(t)[i] = s[i]
    BY <1>1, <1>2, <1>3
  <2> HIDE DEF t
  <2> QED
    BY <1>2, <1>3, <2>1, SeqEqual
<1> QED
  BY <1>1, <1>4

LEMMA WithTyped ==
  ASSUME NEW K, NEW R, NEW m \in Maps(K, R), NEW x \in K, NEW y \in R
  PROVE  With(m, x, y) \in Maps(K, R)
<1>1. PICK D \in SUBSET K : m \in [D -> R]
  BY DEF Maps
<1>2. D \cup {x} \in SUBSET K /\ With(m, x, y) \in [D \cup {x} -> R]
  BY <1>1 DEF With
<1> QED
  BY <1>2 DEF Maps
------------------------------------------------------------------------------
(* What calls and returns do to the contexts. Of the outermost, only the   *)
(* location is followed.                                                   *)
LEMMA EnterTyped ==
  ASSUME NEW K, NEW R, contexts \in Seq(Contexts(K, R)), contexts # <<>>,
         NEW kind, NEW name \in STRING
  PROVE  /\ Enter(kind, name) \in Seq(Contexts(K, R)) /\ Enter(kind, name) # <<>>
         /\ Top(Enter(kind, name)) \in Contexts(K, R)
         /\ kind = "custom" => Len(Enter(kind, name)) = Len(contexts) + 1
         /\ kind # "custom" => Len(Enter(kind, name)) = Len(contexts)
         /\ kind = "custom" \/ Len(contexts) > 1 =>
              Enter(kind, name)[1].location = contexts[1].location
         /\ kind # "custom" /\ Len(contexts) = 1 =>
              Enter(kind, name)[1].location = Append(contexts[1].location, name)
<1> DEFINE C == Contexts(K, R)
<1>1. Len(contexts) \in Nat \ {0} /\ Top(contexts) \in C /\ Top(contexts) = contexts[Len(contexts)]
  BY TopTyped
<1>2. CASE kind = "custom"
  <2>1. NewContext \in C
    <3>1. Nothing \in [{} -> R] /\ {} \in SUBSET K
      BY DEF Nothing
    <3>2. Nothing \in Maps(K, R)
      BY <3>1 DEF Maps
    <3>3. <<>> \in Positions
      BY EmptySeq DEF Positions
    <3> QED
      BY <3>2, <3>3 DEF NewContext, Contexts
  <2>2. Enter(kind, name) = Append(contexts, NewContext)
    BY <1>2 DEF Enter
  <2> HIDE DEF C
  <2>3. /\ Append(contexts, NewContext) \in Seq(C) /\ Append(contexts, NewContext) # <<>>
        /\ Len(Append(contexts, NewContext)) = Len(contexts) + 1
        /\ \A i \in 1 .. Len(contexts) : Append(contexts, NewContext)[i] = contexts[i]
    BY <2>1, FrontOfAppend DEF C
  <2>4. Top(Append(contexts, NewContext)) \in C
    BY <2>3, TopTyped
  <2>5. Append(contexts, NewContext)[1] = contexts[1]
    BY <1>1, <2>3
  <2> QED
    BY <1>2, <2>2, <2>3, <2>4, <2>5 DEF C
<1>3. CASE kind # "custom"
  <2> DEFINE c == [Top(contexts) EXCEPT !.location = Append(@, name)]
  <2>1. Enter(kind, name) = SetTop(contexts, c)
    BY <1>3 DEF Enter
  <2>2. c \in C /\ c.location = Append(Top(contexts).location, name)
    <3>1. Append(Top(contexts).location, name) \in Positions
      BY <1>1, FrontOfAppend DEF Contexts, Positions
    <3> QED
      BY <1>1, <3>1 DEF Contexts
  <2> HIDE DEF C, c
  <2>3. /\ SetTop(contexts, c) \in Seq(C) /\ SetTop(contexts, c) # <<>>
        /\ Len(SetTop(contexts, c)) = Len(contexts) /\ Top(SetTop(contexts, c)) = c
        /\ \A i \in 1 .. Len(contexts) :
             SetTop(contexts, c)[i] = IF i = Len(contexts) THEN c ELSE contexts[i]
    BY <2>2, SetTopTyped DEF C
  <2>4. SetTop(contexts, c)[1] = IF 1 = Len(contexts) THEN c ELSE contexts[1]
    BY <1>1, <2>3
  <2>5. SetTop(contexts, c)[1].location =
          IF Len(contexts) = 1 THEN Append(contexts[1].location, name) ELSE contexts[1].location
    BY <1>1, <2>2, <2>4
  <2> QED
    BY <1>1, <1>3, <2>1, <2>2, <2>3, <2>5 DEF C
<1> QED
  BY <1>2, <1>3

(* The innermost context gets another map.                                 *)
LEMMA ContextChanged ==
  ASSUME NEW K, NEW R, NEW cs \in Seq(Contexts(K, R)), cs # <<>>,
         NEW c \in Contexts(K, R), c.location = Top(cs).location
  PROVE  /\ SetTop(cs, c) \in Seq(Contexts(K, R)) /\ SetTop(cs, c) # <<>>
         /\ Len(SetTop(cs, c)) = Len(cs)
         /\ SetTop(cs, c)[1].location = cs[1].location
<1>1. Len(cs) \in Nat \ {0} /\ Top(cs) = cs[Len(cs)]
  BY TopTyped
<1>2. /\ SetTop(cs, c) \in Seq(Contexts(K, R)) /\ SetTop(cs, c) # <<>>
      /\ Len(SetTop(cs, c)) = Len(cs)
      /\ \A i \in 1 .. Len(cs) : SetTop(cs, c)[i] = IF i = Len(cs) THEN c ELSE cs[i]
  BY SetTopTyped
<1>3. SetTop(cs, c)[1] = IF 1 = Len(cs) THEN c ELSE cs[1]
  BY <1>1, <1>2
<1>4. SetTop(cs, c)[1].location = cs[1].location
  BY <1>1, <1>3
<1> QED
  BY <1>2, <1>4

LEMMA LeaveReadTyped ==
  ASSUME NEW K, NEW R, NEW cs \in Seq(Contexts(K, R)), cs # <<>>, NEW kind
  PROVE  /\ LeaveRead(cs, kind) \in Seq(Contexts(K, R))
         /\ kind = "custom" => Len(LeaveRead(cs, kind)) = Len(cs) - 1
         /\ kind # "custom" => Len(LeaveRead(cs, kind)) = Len(cs)
         /\ Len(cs) > 1 => LeaveRead(cs, kind)[1].location = cs[1].location
         /\ kind # "custom" /\ Len(cs) = 1 =>
              LeaveRead(cs, kind)[1].location = Front(cs[1].location)
<1> DEFINE C == Contexts(K, R)
<1>1. Len(cs) \in Nat \ {0} /\ Top(cs) \in C /\ Top(cs) = cs[Len(cs)]
  BY TopTyped
<1>2. CASE kind = "custom"
  <2>1. /\ Front(cs) \in Seq(C) /\ Len(Front(cs)) = Len(cs) - 1
        /\ \A i \in 1 .. Len(cs) - 1 : Front(cs)[i] = cs[i]
    <3>1. cs \in Seq(C)
      OBVIOUS
    <3> HIDE DEF C
    <3> QED
      BY <3>1, FrontTyped
  <2>2. LeaveRead(cs, kind) = Front(cs)
    BY <1>2 DEF LeaveRead
  <2> QED
    BY <1>1, <1>2, <2>1, <2>2
<1>3. CASE kind # "custom"
  <2> DEFINE c == [Top(cs) EXCEPT !.location = Front(@)]
  <2>1. LeaveRead(cs, kind) = SetTop(cs, c)
    BY <1>3 DEF LeaveRead
  <2>2. c \in C /\ c.location = Front(Top(cs).location)
    <3>1. Front(Top(cs).location) \in Positions
      BY <1>1, FrontTyped DEF Contexts, Positions
    <3> QED
      BY <1>1, <3>1 DEF Contexts
  <2> HIDE DEF C, c
  <2>3. /\ SetTop(cs, c) \in Seq(C) /\ Len(SetTop(cs, c)) = Len(cs)
        /\ \A i \in 1 .. Len(cs) : SetTop(cs, c)[i] = IF i = Len(cs) THEN c ELSE cs[i]
    BY <2>2, SetTopTyped DEF C
  <2>4. SetTop(cs, c)[1] = IF 1 = Len(cs) THEN c ELSE cs[1]
    BY <1>1, <2>3
  <2> QED
    BY <1>1, <1>3, <2>1, <2>2, <2>3, <2>4 DEF C
<1> QED
  BY <1>2, <1>3

(* The same for writing, where dictionaries do not pop.                    *)
LEMMA LeaveWrittenTyped ==
  ASSUME NEW K, NEW R, NEW cs \in Seq(Contexts(K, R)), cs # <<>>, NEW kind
  PROVE  /\ LeaveWritten(cs, kind) \in Seq(Contexts(K, R))
         /\ kind = "custom" => Len(LeaveWritten(cs, kind)) = Len(cs) - 1
         /\ kind # "custom" => Len(LeaveWritten(cs, kind)) = Len(cs)
<1>1. CASE kind = "dict"
  BY <1>1, LenProperties DEF LeaveWritten
<1>2. CASE kind # "dict"
  <2>1. LeaveWritten(cs, kind) = LeaveRead(cs, kind)
    BY <1>2 DEF LeaveWritten, LeaveRead
  <2> QED
    BY <2>1, LeaveReadTyped
<1> QED
  BY <1>1, <1>2

(* A marker is read between a push and its pop.                            *)
LEMMA MarkerKeepsContexts ==
  ASSUME NEW K, NEW R, contexts \in Seq(Contexts(K, R)), contexts # <<>>,
         NEW kind, NEW name \in STRING, NEW c \in Contexts(K, R),
         c.location = Top(Enter(kind, name)).location
  PROVE  LET left == LeaveRead(SetTop(Enter(kind, name), c), kind)
         IN /\ left \in Seq(Contexts(K, R)) /\ Len(left) = Len(contexts)
            /\ left[1].location = contexts[1].location
<1> DEFINE entered == Enter(kind, name)
           changed == SetTop(entered, c)
           left == LeaveRead(changed, kind)
<1>1. /\ entered \in Seq(Contexts(K, R)) /\ entered # <<>>
      /\ kind = "custom" => Len(entered) = Len(contexts) + 1
      /\ kind # "custom" => Len(entered) = Len(contexts)
      /\ kind = "custom" \/ Len(contexts) > 1 => entered[1].location = contexts[1].location
      /\ kind # "custom" /\ Len(contexts) = 1 =>
           entered[1].location = Append(contexts[1].location, name)
  BY EnterTyped
<1>2. /\ changed \in Seq(Contexts(K, R)) /\ changed # <<>> /\ Len(changed) = Len(entered)
      /\ changed[1].location = entered[1].location
  <2>1. c.location = Top(entered).location
    OBVIOUS
  <2> HIDE DEF entered
  <2> QED
    BY <1>1, <2>1, ContextChanged
<1>3. /\ left \in Seq(Contexts(K, R))
      /\ kind = "custom" => Len(left) = Len(changed) - 1
      /\ kind # "custom" => Len(left) = Len(changed)
      /\ Len(changed) > 1 => left[1].location = changed[1].location
      /\ kind # "custom" /\ Len(changed) = 1 => left[1].location = Front(changed[1].location)
  <2>1. changed \in Seq(Contexts(K, R)) /\ changed # <<>>
    BY <1>2
  <2> HIDE DEF changed
  <2> QED
    BY <2>1, LeaveReadTyped
<1>4. Len(contexts) \in Nat \ {0} /\ contexts[1].location \in Seq(STRING)
  <2>1. Len(contexts) \in Nat \ {0} /\ contexts[1] \in Contexts(K, R)
    BY TopTyped
  <2> QED
    BY <2>1 DEF Contexts, Positions
<1>5. Front(Append(contexts[1].location, name)) = contexts[1].location
  BY <1>4, FrontOfAppend
<1> HIDE DEF entered, changed, left
<1>6. left \in Seq(Contexts(K, R)) /\ Len(left) = Len(contexts)
  BY <1>1, <1>2, <1>3, <1>4
<1>7. left[1].location = contexts[1].location
  <2>1. CASE kind = "custom" \/ Len(contexts) > 1
    <3>1. Len(changed) > 1
      BY <1>1, <1>2, <1>4, <2>1
    <3> QED
      BY <1>1, <1>2, <1>3, <2>1, <3>1
  <2>2. CASE kind # "custom" /\ Len(contexts) = 1
    <3>1. Len(changed) = 1 /\ changed[1].location = Append(contexts[1].location, name)
      BY <1>1, <1>2, <2>2
    <3> QED
      BY <1>3, <1>5, <2>2, <3>1
  <2>3. Len(contexts) > 1 \/ Len(contexts) = 1
    <3>1. Len(contexts) \in Nat \ {0}
      BY <1>4
    <3> DEFINE n == Len(contexts)
    <3>2. n \in Nat /\ n # 0
      BY <3>1
    <3> HIDE DEF n
    <3>3. n > 1 \/ n = 1
      BY <3>2
    <3> QED
      BY <3>3 DEF n
  <2> QED
    BY <2>1, <2>2, <2>3, Zenon
<1> QED
  BY <1>6, <1>7 DEF entered, changed, left
------------------------------------------------------------------------------
(* The stack of calls, and its contexts.                                   *)
LEMMA NestedFinite ==
  ASSUME NEW fs, Len(fs) \in Nat, NEW d
  PROVE  /\ IsFiniteSet(Nested(fs, d)) /\ Cardinality(Nested(fs, d)) \in Nat
         /\ Cardinality(Nested(fs, d)) = 0 <=> Nested(fs, d) = {}
<1>1. Nested(fs, d) \subseteq 1 .. Len(fs) - 1
  BY DEF Nested
<1>2. IsFiniteSet(1 .. Len(fs) - 1)
  BY FS_Interval
<1> HIDE DEF Nested
<1>3. IsFiniteSet(Nested(fs, d))
  BY <1>1, <1>2, FS_Subset
<1> QED
  BY <1>3, FS_CardinalityType, FS_EmptySet

(* One call more.                                                          *)
Pushed(fs, cs, d, fs2, cs2, d2) ==
  /\ Len(fs2) = Len(fs) + 1
  /\ \A i \in 1 .. Len(fs) : fs2[i].at = fs[i].at /\ d2[fs[i].at].kind = d[fs[i].at].kind
  /\ Len(fs2[Len(fs) + 1].at) = Len(fs[Len(fs)].at) + 1
  /\ Front(fs2[Len(fs) + 1].at) = fs[Len(fs)].at
  /\ d[fs[Len(fs)].at].kind = "custom" => Len(cs2) = Len(cs) + 1
  /\ d[fs[Len(fs)].at].kind # "custom" => Len(cs2) = Len(cs)

LEMMA StackedPush ==
  ASSUME NEW fs, NEW cs, NEW d, NEW fs2, NEW cs2, NEW d2,
         Stacked(fs, cs, d), Len(fs) \in Nat \ {0}, Pushed(fs, cs, d, fs2, cs2, d2)
  PROVE  /\ Stacked(fs2, cs2, d2)
         /\ d[fs[Len(fs)].at].kind = "custom" => Nested(fs2, d2) = Nested(fs, d) \cup {Len(fs)}
         /\ d[fs[Len(fs)].at].kind # "custom" => Nested(fs2, d2) = Nested(fs, d)
<1> DEFINE n == Len(fs)
<1>0. /\ n \in Nat \ {0} /\ Len(fs2) = n + 1
      /\ \A i \in 1 .. n : fs2[i].at = fs[i].at /\ d2[fs[i].at].kind = d[fs[i].at].kind
      /\ Len(fs2[n + 1].at) = Len(fs[n].at) + 1 /\ Front(fs2[n + 1].at) = fs[n].at
      /\ d[fs[n].at].kind = "custom" => Len(cs2) = Len(cs) + 1
      /\ d[fs[n].at].kind # "custom" => Len(cs2) = Len(cs)
  BY DEF Pushed
<1>1. /\ d[fs[n].at].kind = "custom" => Nested(fs2, d2) = Nested(fs, d) \cup {n}
      /\ d[fs[n].at].kind # "custom" => Nested(fs2, d2) = Nested(fs, d)
  <2>1. \A i \in 1 .. n - 1 : i \in Nested(fs2, d2) <=> i \in Nested(fs, d)
    BY <1>0 DEF Nested
  <2>2. n \in Nested(fs2, d2) <=> d[fs[n].at].kind = "custom"
    BY <1>0 DEF Nested
  <2>3. Nested(fs2, d2) \subseteq 1 .. n - 1 \cup {n} /\ Nested(fs, d) \subseteq 1 .. n - 1
    BY <1>0 DEF Nested
  <2> HIDE DEF n, Nested
  <2> QED
    BY <2>1, <2>2, <2>3
<1>2. Len(cs2) = Cardinality(Nested(fs2, d2)) + 1
  <2>1. IsFiniteSet(Nested(fs, d)) /\ Cardinality(Nested(fs, d)) \in Nat
    BY <1>0, NestedFinite
  <2>2. n \notin Nested(fs, d)
    BY <1>0 DEF Nested
  <2>3. Cardinality(Nested(fs, d) \cup {n}) = Cardinality(Nested(fs, d)) + 1
    BY <2>1, <2>2, FS_AddElement
  <2>4. Len(cs) = Cardinality(Nested(fs, d)) + 1
    BY DEF Stacked
  <2> HIDE DEF n
  <2>5. CASE d[fs[n].at].kind = "custom"
    BY <1>0, <1>1, <2>1, <2>3, <2>4, <2>5
  <2>6. CASE d[fs[n].at].kind # "custom"
    BY <1>0, <1>1, <2>1, <2>4, <2>6
  <2> QED
    BY <2>5, <2>6
<1>3. \A i \in 1 .. n + 1 : Len(fs2[i].at) = i - 1
  <2>1. \A i \in 1 .. n : Len(fs2[i].at) = i - 1
    BY <1>0 DEF Stacked
  <2>2. Len(fs2[n + 1].at) = (n + 1) - 1
    BY <1>0 DEF Stacked
  <2> HIDE DEF n
  <2> QED
    BY <1>0, <2>1, <2>2
<1>4. \A i \in 1 .. (n + 1) - 1 : fs2[i].at = Front(fs2[i + 1].at)
  <2> SUFFICES ASSUME NEW i \in 1 .. n PROVE fs2[i].at = Front(fs2[i + 1].at)
    BY <1>0
  <2>1. CASE i = n
    BY <1>0, <2>1
  <2>2. CASE i # n
    <3>1. i \in 1 .. n - 1 /\ i + 1 \in 1 .. n
      BY <1>0, <2>2
    <3> QED
      BY <1>0, <3>1 DEF Stacked
  <2> QED
    BY <2>1, <2>2
<1> QED
  BY <1>0, <1>1, <1>2, <1>3, <1>4 DEF Stacked

(* The same calls.                                                         *)
LEMMA StackedStay ==
  ASSUME NEW fs, NEW cs, NEW d, NEW fs2, NEW cs2, NEW d2,
         Stacked(fs, cs, d), Len(fs) \in Nat \ {0},
         Len(fs2) = Len(fs), Len(cs2) = Len(cs),
         \A i \in 1 .. Len(fs) : fs2[i].at = fs[i].at /\ d2[fs[i].at].kind = d[fs[i].at].kind
  PROVE  Stacked(fs2, cs2, d2) /\ Nested(fs2, d2) = Nested(fs, d)
<1>1. Nested(fs2, d2) = Nested(fs, d)
  BY DEF Nested
<1>2. \A i \in 1 .. Len(fs) - 1 : fs2[i].at = fs[i].at /\ fs2[i + 1].at = fs[i + 1].at
  <2> SUFFICES ASSUME NEW i \in 1 .. Len(fs) - 1
               PROVE fs2[i].at = fs[i].at /\ fs2[i + 1].at = fs[i + 1].at
    OBVIOUS
  <2>1. i \in 1 .. Len(fs) /\ i + 1 \in 1 .. Len(fs)
    OBVIOUS
  <2> QED
    BY <2>1
<1> QED
  BY <1>1, <1>2 DEF Stacked

(* One call less.                                                          *)
Returned(fs, cs, d, fs2, cs2) ==
  /\ Len(fs2) = Len(fs) - 1
  /\ \A i \in 1 .. Len(fs) - 1 : fs2[i].at = fs[i].at
  /\ d[fs[Len(fs) - 1].at].kind = "custom" => Len(cs2) = Len(cs) - 1
  /\ d[fs[Len(fs) - 1].at].kind # "custom" => Len(cs2) = Len(cs)

LEMMA StackedPop ==
  ASSUME NEW fs, NEW cs, NEW d, NEW fs2, NEW cs2,
         Stacked(fs, cs, d), Len(fs) \in Nat \ {0}, Len(fs) > 1, Returned(fs, cs, d, fs2, cs2)
  PROVE  /\ Stacked(fs2, cs2, d)
         /\ Nested(fs2, d) = Nested(fs, d) \ {Len(fs) - 1}
<1> DEFINE n == Len(fs) - 1
<1>a. /\ Len(fs2) = n /\ \A i \in 1 .. n : fs2[i].at = fs[i].at
      /\ d[fs[n].at].kind = "custom" => Len(cs2) = Len(cs) - 1
      /\ d[fs[n].at].kind # "custom" => Len(cs2) = Len(cs)
  BY DEF Returned
<1>b. n \in Nat \ {0} /\ Len(fs) = n + 1
  BY LessOne
<1>0. /\ n \in Nat \ {0} /\ Len(fs) = n + 1 /\ Len(fs2) = n
      /\ \A i \in 1 .. n : fs2[i].at = fs[i].at
      /\ d[fs[n].at].kind = "custom" => Len(cs2) = Len(cs) - 1
      /\ d[fs[n].at].kind # "custom" => Len(cs2) = Len(cs)
  BY <1>a, <1>b
<1>1. Nested(fs2, d) = Nested(fs, d) \ {n}
  <2>1. \A i \in 1 .. n - 1 : i \in Nested(fs2, d) <=> i \in Nested(fs, d)
    BY <1>0 DEF Nested
  <2>2. Nested(fs, d) \subseteq 1 .. n - 1 \cup {n} /\ Nested(fs2, d) \subseteq 1 .. n - 1
    BY <1>0 DEF Nested
  <2>3. n \notin 1 .. n - 1
    BY <1>0
  <2> HIDE DEF n, Nested
  <2> QED
    BY <2>1, <2>2, <2>3
<1>2. Len(cs2) = Cardinality(Nested(fs2, d)) + 1
  <2>1. IsFiniteSet(Nested(fs, d)) /\ Cardinality(Nested(fs, d)) \in Nat
    BY <1>0, NestedFinite
  <2>2. n \in Nested(fs, d) <=> d[fs[n].at].kind = "custom"
    BY <1>0 DEF Nested
  <2>3. Cardinality(Nested(fs, d) \ {n}) =
          IF n \in Nested(fs, d) THEN Cardinality(Nested(fs, d)) - 1 ELSE Cardinality(Nested(fs, d))
    BY <2>1, FS_RemoveElement
  <2>4. Len(cs) = Cardinality(Nested(fs, d)) + 1
    BY DEF Stacked
  <2> HIDE DEF n
  <2>5. CASE d[fs[n].at].kind = "custom"
    BY <1>0, <1>1, <2>1, <2>2, <2>3, <2>4, <2>5
  <2>6. CASE d[fs[n].at].kind # "custom"
    BY <1>0, <1>1, <2>1, <2>2, <2>3, <2>4, <2>6
  <2> QED
    BY <2>5, <2>6
<1>3. \A i \in 1 .. n : Len(fs2[i].at) = i - 1
  <2> SUFFICES ASSUME NEW i \in 1 .. n PROVE Len(fs2[i].at) = i - 1
    OBVIOUS
  <2>1. i \in 1 .. Len(fs)
    BY <1>0
  <2> QED
    BY <1>0, <2>1 DEF Stacked
<1>4. \A i \in 1 .. n - 1 : fs2[i].at = Front(fs2[i + 1].at)
  <2> SUFFICES ASSUME NEW i \in 1 .. n - 1 PROVE fs2[i].at = Front(fs2[i + 1].at)
    OBVIOUS
  <2>1. i \in 1 .. n /\ i + 1 \in 1 .. n
    BY <1>0
  <2> QED
    BY <1>0, <2>1 DEF Stacked
<1> QED
  BY <1>0, <1>1, <1>2, <1>3, <1>4 DEF Stacked

(* The outermost context is alone as long as no call is nested.            *)
LEMMA Alone ==
  ASSUME NEW fs, NEW cs, NEW d, Stacked(fs, cs, d), Len(fs) \in Nat \ {0}
  PROVE  /\ Len(cs) \in Nat \ {0}
         /\ Len(cs) = 1 <=> Nested(fs, d) = {}
         /\ Len(cs) > 1 <=> Nested(fs, d) # {}
         /\ Nested(fs, d) \subseteq 1 .. Len(fs) - 1
<1>1. /\ Cardinality(Nested(fs, d)) \in Nat
      /\ Cardinality(Nested(fs, d)) = 0 <=> Nested(fs, d) = {}
  BY NestedFinite
<1>2. Len(cs) = Cardinality(Nested(fs, d)) + 1
  BY DEF Stacked
<1>3. Nested(fs, d) \subseteq 1 .. Len(fs) - 1
  BY DEF Nested
<1> QED
  BY <1>1, <1>2, <1>3

LEMMA LocatedStay ==
  ASSUME NEW fs, NEW cs, NEW d, NEW fs2, NEW cs2, NEW d2,
         Located(fs, cs, d), Nested(fs2, d2) = Nested(fs, d),
         Len(fs2) = Len(fs), \A i \in 1 .. Len(fs) : fs2[i].at = fs[i].at,
         cs2[1].location = cs[1].location
  PROVE  Located(fs2, cs2, d2)
<1> HIDE DEF Nested
<1> QED
  BY DEF Located

LEMMA LocatedPush ==
  ASSUME NEW fs, NEW cs, NEW d, NEW fs2, NEW cs2, NEW d2, NEW name,
         Stacked(fs, cs, d), Located(fs, cs, d), Len(fs) \in Nat \ {0},
         Len(fs2) = Len(fs) + 1,
         \A i \in 1 .. Len(fs) : fs2[i].at = fs[i].at,
         fs2[Len(fs) + 1].at = Append(fs[Len(fs)].at, name),
         d[fs[Len(fs)].at].kind = "custom" => Nested(fs2, d2) = Nested(fs, d) \cup {Len(fs)},
         d[fs[Len(fs)].at].kind # "custom" => Nested(fs2, d2) = Nested(fs, d),
         d[fs[Len(fs)].at].kind = "custom" \/ Len(cs) > 1 => cs2[1].location = cs[1].location,
         d[fs[Len(fs)].at].kind # "custom" /\ Len(cs) = 1 =>
           cs2[1].location = Append(cs[1].location, name)
  PROVE  Located(fs2, cs2, d2)
<1> DEFINE n == Len(fs)
           A == Nested(fs, d)
           B == Nested(fs2, d2)
<1>0. n \in Nat \ {0} /\ Len(fs2) = n + 1 /\ n + 1 \notin B
  BY DEF Nested
<1>1. A \subseteq 1 .. n - 1 /\ (Len(cs) = 1 <=> A = {}) /\ (Len(cs) > 1 <=> A # {})
  <2>1. /\ Nested(fs, d) \subseteq 1 .. Len(fs) - 1
        /\ Len(cs) = 1 <=> Nested(fs, d) = {}
        /\ Len(cs) > 1 <=> Nested(fs, d) # {}
    BY Alone
  <2> QED
    BY <2>1, Zenon
<1> HIDE DEF n
<1> SUFFICES ASSUME NEW i \in 1 .. n + 1, \A j \in 1 .. i - 1 : j \notin B, i \in B \cup {n + 1}
             PROVE cs2[1].location = fs2[i].at
  BY <1>0 DEF Located
<1>2. \A j \in 1 .. n : (\A k \in 1 .. j - 1 : k \notin A) /\ j \in A \cup {n} => cs[1].location = fs[j].at
  BY DEF Located, n
<1>3. n \notin A
  BY <1>0, <1>1
<1> HIDE DEF A, B
<1>4. CASE i = n + 1
  <2>1. n \notin B /\ \A j \in 1 .. n : j \notin B
    BY <1>0, <1>4
  <2>2. d[fs[n].at].kind # "custom" /\ A = B
    BY <2>1 DEF A, B, n
  <2>3. A = {}
    <3>1. A \subseteq 1 .. n
      BY <1>0, <1>1
    <3> QED
      BY <2>1, <2>2, <3>1
  <2>4. cs[1].location = fs[n].at
    BY <1>0, <1>2, <2>3
  <2>5. cs2[1].location = Append(cs[1].location, name)
    BY <1>1, <2>2, <2>3 DEF n
  <2> QED
    BY <1>4, <2>4, <2>5 DEF n
<1>5. CASE i = n
  <2>1. n \in B
    BY <1>0, <1>5
  <2>2. d[fs[n].at].kind = "custom"
    BY <1>3, <2>1 DEF A, B, n
  <2>3. \A k \in 1 .. n - 1 : k \notin A
    BY <1>5, <2>2 DEF A, B, n
  <2>4. cs[1].location = fs[n].at
    BY <1>0, <1>2, <2>3
  <2> QED
    BY <1>0, <1>5, <2>2, <2>4 DEF n
<1>6. CASE i # n + 1 /\ i # n
  <2>1. i \in 1 .. n - 1 /\ i \in B
    BY <1>0, <1>6
  <2>2. i \in A /\ \A k \in 1 .. i - 1 : k \notin A
    <3>1. A \subseteq B /\ B \subseteq A \cup {n}
      BY DEF A, B, n
    <3> QED
      BY <1>0, <2>1, <3>1
  <2>3. Len(cs) > 1
    BY <1>1, <2>2
  <2>4. cs[1].location = fs[i].at
    BY <1>0, <1>2, <2>1, <2>2
  <2> QED
    BY <1>0, <2>1, <2>3, <2>4 DEF n
<1> QED
  BY <1>4, <1>5, <1>6

LEMMA LocatedPop ==
  ASSUME NEW fs, NEW cs, NEW d, NEW fs2, NEW cs2,
         Stacked(fs, cs, d), Located(fs, cs, d), Len(fs) \in Nat \ {0}, Len(fs) > 1,
         Returned(fs, cs, d, fs2, cs2),
         Nested(fs2, d) = Nested(fs, d) \ {Len(fs) - 1},
         Len(cs) > 1 => cs2[1].location = cs[1].location,
         d[fs[Len(fs) - 1].at].kind # "custom" /\ Len(cs) = 1 =>
           cs2[1].location = Front(cs[1].location)
  PROVE  Located(fs2, cs2, d)
<1> DEFINE n == Len(fs) - 1
           A == Nested(fs, d)
           B == Nested(fs2, d)
<1>0. n \in Nat \ {0} /\ Len(fs) = n + 1 /\ Len(fs2) = n /\ B = A \ {n}
  <2>1. Len(fs2) = n
    BY DEF Returned
  <2>2. n \in Nat \ {0} /\ Len(fs) = n + 1
    BY LessOne
  <2> QED
    BY <2>1, <2>2
<1>1. A \subseteq 1 .. n /\ (Len(cs) = 1 <=> A = {}) /\ (Len(cs) > 1 <=> A # {})
  <2>1. /\ Nested(fs, d) \subseteq 1 .. Len(fs) - 1
        /\ Len(cs) = 1 <=> Nested(fs, d) = {}
        /\ Len(cs) > 1 <=> Nested(fs, d) # {}
    BY Alone
  <2> QED
    BY <2>1, Zenon
<1>2. \A j \in 1 .. n + 1 :
        (\A k \in 1 .. j - 1 : k \notin A) /\ j \in A \cup {n + 1} => cs[1].location = fs[j].at
  BY <1>0 DEF Located
<1>3. n \in A <=> d[fs[n].at].kind = "custom"
  BY <1>0 DEF Nested
<1>4. fs[n].at = Front(fs[n + 1].at)
  <2>1. n \in 1 .. Len(fs) - 1
    BY <1>0
  <2> HIDE DEF n
  <2> QED
    BY <2>1 DEF Stacked
<1>5. \A i \in 1 .. n : fs2[i].at = fs[i].at
  BY DEF Returned
<1>6. n \notin A /\ A = {} => cs2[1].location = Front(cs[1].location)
  BY <1>1, <1>3
<1> SUFFICES ASSUME NEW i \in 1 .. n, \A j \in 1 .. i - 1 : j \notin B, i \in B \cup {n}
             PROVE cs2[1].location = fs2[i].at
  BY <1>0 DEF Located
<1> HIDE DEF n, A, B
<1>7. CASE i = n
  <2>1. \A k \in 1 .. n - 1 : k \notin A
    BY <1>0, <1>7
  <2>2. CASE n \in A
    <3>1. cs[1].location = fs[n].at
      BY <1>0, <1>2, <2>1, <2>2
    <3>2. cs2[1].location = cs[1].location
      BY <1>1, <2>2
    <3> QED
      BY <1>5, <1>7, <3>1, <3>2
  <2>3. CASE n \notin A
    <3>1. A = {}
      BY <1>0, <1>1, <2>1, <2>3
    <3>2. cs[1].location = fs[n + 1].at
      BY <1>0, <1>2, <3>1
    <3> QED
      BY <1>4, <1>5, <1>6, <1>7, <3>1, <3>2
  <2> QED
    BY <2>2, <2>3
<1>8. CASE i # n
  <2>1. i \in A /\ i \in 1 .. n - 1 /\ \A k \in 1 .. i - 1 : k \notin A
    BY <1>0, <1>8
  <2>2. cs[1].location = fs[i].at
    BY <1>0, <1>2, <2>1
  <2>3. cs2[1].location = cs[1].location
    BY <1>1, <2>1
  <2> QED
    BY <1>5, <2>2, <2>3
<1> QED
  BY <1>7, <1>8

------------------------------------------------------------------------------
(* Calls, and what they may be about when more is there.                   *)
LEMMA AdvanceTyped ==
  ASSUME NEW N, NEW X, NEW fs \in Seq(Frames(N, X)), fs # <<>>
  PROVE  /\ Advance(fs) \in Seq(Frames(N, X)) /\ Advance(fs) # <<>> /\ Len(Advance(fs)) = Len(fs)
         /\ \A i \in 1 .. Len(fs) : Advance(fs)[i].at = fs[i].at /\ Advance(fs)[i].node = fs[i].node
<1> DEFINE F == Frames(N, X)
           f == [Top(fs) EXCEPT !.next = @ + 1]
<1>1. Len(fs) \in Nat \ {0} /\ Top(fs) \in F /\ Top(fs) = fs[Len(fs)]
  BY TopTyped
<1>2. f \in F /\ f.at = Top(fs).at /\ f.node = Top(fs).node
  BY <1>1 DEF Frames
<1> HIDE DEF F, f
<1>3. /\ SetTop(fs, f) \in Seq(F) /\ SetTop(fs, f) # <<>> /\ Len(SetTop(fs, f)) = Len(fs)
      /\ \A i \in 1 .. Len(fs) : SetTop(fs, f)[i] = IF i = Len(fs) THEN f ELSE fs[i]
  BY <1>2, SetTopTyped DEF F
<1>4. \A i \in 1 .. Len(fs) : SetTop(fs, f)[i].at = fs[i].at /\ SetTop(fs, f)[i].node = fs[i].node
  BY <1>1, <1>2, <1>3
<1> QED
  BY <1>3, <1>4 DEF Advance, F, f

Called(fs, node, at) == Append(Advance(fs), Frame(node, at))

LEMMA CallTyped ==
  ASSUME NEW N, NEW X, NEW fs \in Seq(Frames(N, X)), fs # <<>>, NEW node \in N, NEW at \in X
  PROVE  LET called == Called(fs, node, at)
         IN /\ called \in Seq(Frames(N, X)) /\ called # <<>> /\ Len(called) = Len(fs) + 1
            /\ \A i \in 1 .. Len(fs) : called[i].at = fs[i].at /\ called[i].node = fs[i].node
            /\ called[Len(fs) + 1].at = at /\ called[Len(fs) + 1].node = node
<1> DEFINE called == Called(fs, node, at)
           a == Advance(fs)
           e == Frame(node, at)
<1>1. e \in Frames(N, X) /\ e.at = at /\ e.node = node
  BY DEF Frame, Frames
<1>2. /\ a \in Seq(Frames(N, X)) /\ Len(a) = Len(fs)
      /\ \A i \in 1 .. Len(fs) : a[i].at = fs[i].at /\ a[i].node = fs[i].node
  BY AdvanceTyped
<1>3. called = Append(a, e)
  BY DEF Called
<1> HIDE DEF called, a, e
<1>4. /\ called \in Seq(Frames(N, X)) /\ called # <<>> /\ Len(called) = Len(a) + 1
      /\ \A i \in 1 .. Len(a) : called[i] = a[i]
      /\ called[Len(a) + 1] = e
  BY <1>1, <1>2, <1>3, FrontOfAppend
<1>5. \A i \in 1 .. Len(fs) : called[i].at = fs[i].at /\ called[i].node = fs[i].node
  BY <1>2, <1>4
<1> QED
  BY <1>1, <1>2, <1>4, <1>5 DEF called

LEMMA FramesGrow ==
  ASSUME NEW N, NEW X, NEW Y, X \subseteq Y, NEW fs \in Seq(Frames(N, X))
  PROVE  fs \in Seq(Frames(N, Y))
<1>1. Frames(N, X) \subseteq Frames(N, Y)
  BY DEF Frames
<1>2. \A i \in 1 .. Len(fs) : fs[i] \in Frames(N, Y)
  BY <1>1, ElementOfSeq
<1> QED
  BY <1>2, SeqOverElements

LEMMA ContextsGrow ==
  ASSUME NEW X, NEW Y, X \subseteq Y, NEW cs \in Seq(Contexts(Positions, Known(X)))
  PROVE  cs \in Seq(Contexts(Positions, Known(Y)))
<1>1. Known(X) \subseteq Known(Y)
  BY DEF Known
<1> HIDE DEF Known
<1>2. \A D \in SUBSET Positions : [D -> Known(X)] \subseteq [D -> Known(Y)]
  BY <1>1
<1>3. Maps(Positions, Known(X)) \subseteq Maps(Positions, Known(Y))
  BY <1>2 DEF Maps
<1>4. Contexts(Positions, Known(X)) \subseteq Contexts(Positions, Known(Y))
  BY <1>3 DEF Contexts
<1>5. \A i \in 1 .. Len(cs) : cs[i] \in Contexts(Positions, Known(Y))
  BY <1>4, ElementOfSeq
<1> QED
  BY <1>5, SeqOverElements

------------------------------------------------------------------------------
(* What reading notes of objects.                                          *)
LEMMA AddReferenceTyped ==
  ASSUME NEW X, NEW m \in Maps(Positions, Known(X)), NEW source \in Positions, NEW target \in Positions
  PROVE  AddReference(m, source, target) \in Maps(Positions, Known(X))
<1> DEFINE fresh == [object |-> NULL, targets |-> {}, complete |-> FALSE]
           known == IF source \in DOMAIN m THEN m[source] ELSE fresh
<1>1. fresh \in Known(X)
  BY DEF Known
<1>2. source \in DOMAIN m => m[source] \in Known(X)
  BY DEF Maps
<1>3. known \in Known(X)
  BY <1>1, <1>2
<1> HIDE DEF known
<1>4. [known EXCEPT !.targets = @ \cup {target}] \in Known(X)
  BY <1>3 DEF Known
<1> QED
  BY <1>4, WithTyped DEF AddReference, known

LEMMA MadeTyped ==
  ASSUME NEW X, NEW c \in Contexts(Positions, Known(X)), NEW at \in X, NULL \notin X
  PROVE  Made(c, at) \in Contexts(Positions, Known(X)) /\ Made(c, at).location = c.location
<1>1. CASE ~ Tracked(json[at].kind)
  BY <1>1 DEF Made
<1>2. CASE Tracked(json[at].kind)
  <2> DEFINE l == c.location
             m1 == [c.map EXCEPT ![l].object = at]
             m == [m1 EXCEPT ![l].complete = TRUE]
  <2>1. PICK D \in SUBSET Positions : c.map \in [D -> Known(X)]
    BY DEF Contexts, Maps
  <2>2. \A k \in D : m[k] = IF k = l THEN [[c.map[k] EXCEPT !.object = at] EXCEPT !.complete = TRUE]
                            ELSE c.map[k]
    BY <2>1
  <2>3. \A k \in Known(X) : [[k EXCEPT !.object = at] EXCEPT !.complete = TRUE] \in Known(X)
    BY DEF Known
  <2>4. m \in [D -> Known(X)]
    BY <2>1, <2>2, <2>3
  <2>5. m \in Maps(Positions, Known(X))
    BY <2>4 DEF Maps
  <2>6. Made(c, at) = [c EXCEPT !.map = m]
    BY <1>2 DEF Made, Contexts
  <2> HIDE DEF m
  <2> QED
    BY <2>5, <2>6 DEF Contexts
<1> QED
  BY <1>1, <1>2

(* Where reading stands.                                                   *)
LEMMA ReadingAt ==
  ASSUME IInv, phase = "deserialize"
  PROVE  /\ Reading /\ NULL \notin DOMAIN value
         /\ Len(frames) \in Nat \ {0} /\ Top(frames) = frames[Len(frames)]
         /\ \A i \in 1 .. Len(frames) : frames[i].at \in DOMAIN value /\ frames[i].at \in Positions
         /\ Top(frames).next \in Nat \ {0}
         /\ contexts # <<>> /\ Len(contexts) \in Nat \ {0}
         /\ Top(contexts) \in Contexts(Positions, Known(DOMAIN value))
<1>1. Reading /\ DOMAIN value \subseteq DOMAIN json /\ DOMAIN json \subseteq Positions
  BY DEF IInv, IsDocument
<1>2. /\ Len(frames) \in Nat \ {0} /\ Top(frames) = frames[Len(frames)]
      /\ Top(frames) \in Frames({NULL}, DOMAIN value)
      /\ \A i \in 1 .. Len(frames) : frames[i] \in Frames({NULL}, DOMAIN value)
  BY <1>1, TopTyped DEF Reading
<1>3. Len(contexts) \in Nat \ {0}
  BY <1>1, <1>2, Alone DEF Reading
<1>4. contexts # <<>>
  BY <1>3, EmptySeq
<1>5. Top(contexts) \in Contexts(Positions, Known(DOMAIN value))
  BY <1>1, <1>4, TopTyped DEF Reading
<1>6. NULL \notin DOMAIN value
  BY <1>1, NullAssumption
<1> QED
  BY <1>1, <1>2, <1>3, <1>4, <1>5, <1>6 DEF Frames

(* A stack that a document is read with is no deeper than the document.    *)
LEMMA StackBounded ==
  ASSUME NEW d, IsDocument(d), NEW fs, NEW cs, Stacked(fs, cs, d), Len(fs) \in Nat \ {0},
         fs[Len(fs)].at \in DOMAIN d
  PROVE  Len(fs) <= MaxFrames
<1>1. Len(fs[Len(fs)].at) = Len(fs) - 1
  BY DEF Stacked
<1>2. Len(fs[Len(fs)].at) < MaxFrames
  BY DEF IsDocument
<1> QED
  BY <1>1, <1>2, BoundsAssumption

(* A member of a value that is read.                                       *)
LEMMA MemberRead ==
  ASSUME IInv, phase = "deserialize", Top(frames).next <= Len(json[Top(frames).at].members)
  PROVE  LET f == Top(frames)
             name == json[f.at].members[f.next]
             at == Append(f.at, name)
         IN /\ name \in STRING /\ at \in DOMAIN json /\ at \in Positions
            /\ Front(at) = f.at /\ Len(at) = Len(f.at) + 1
            /\ json[at].kind = "marker" => json[at].ref \in Positions
<1> DEFINE f == Top(frames)
           p == f.at
           name == json[p].members[f.next]
           at == Append(p, name)
<1>1. p \in DOMAIN json /\ p \in Seq(STRING) /\ f.next \in Nat \ {0}
  BY ReadingAt DEF IInv, Positions
<1> HIDE DEF f, p
<1>2. json[p].members \in Seq(STRING)
  BY <1>1 DEF IInv, IsDocument
<1>3. f.next \in 1 .. Len(json[p].members) /\ f.next \in DOMAIN json[p].members
  BY <1>1, <1>2, LenProperties DEF f, p
<1>4. name \in STRING
  BY <1>2, <1>3, ElementOfSeq
<1>5. at \in DOMAIN json
  BY <1>1, <1>3 DEF IInv, IsDocument
<1>6. json[at].kind = "marker" => json[at].ref \in Positions
  BY <1>5 DEF IInv, IsDocument
<1> HIDE DEF name
<1>7. at \in Positions /\ Front(at) = p /\ Len(at) = Len(p) + 1
  BY <1>1, <1>4, FrontOfAppend DEF Positions
<1> QED
  BY <1>4, <1>5, <1>6, <1>7 DEF name, p, f

LEMMA DeserializeMemberStep ==
  ASSUME IInv, DeserializeMember
  PROVE  IInv'
<1> DEFINE n == Len(frames)
           f == Top(frames)
           name == json[f.at].members[f.next]
           at == Append(f.at, name)
           kind == json[f.at].kind
           entered == Enter(kind, name)
           c == Top(entered)
           V == DOMAIN value
           K == Known(V)
           fresh == [object |-> NULL, targets |-> {}, complete |-> FALSE]
<1>1. /\ phase = "deserialize" /\ f.next <= Len(json[f.at].members)
      /\ UNCHANGED <<graph, json>>
  BY DEF DeserializeMember
<1>2. /\ Reading /\ NULL \notin V /\ n \in Nat \ {0} /\ f = frames[n]
      /\ \A i \in 1 .. n : frames[i].at \in V
      /\ contexts # <<>> /\ Len(contexts) \in Nat \ {0}
  BY <1>1, ReadingAt
<1>3. /\ name \in STRING /\ at \in DOMAIN json /\ at \in Positions
      /\ Front(at) = f.at /\ Len(at) = Len(f.at) + 1
      /\ json[at].kind = "marker" => json[at].ref \in Positions
  BY <1>1, MemberRead
<1> HIDE DEF f, name, at, kind
<1>4. /\ entered \in Seq(Contexts(Positions, K)) /\ entered # <<>>
      /\ c \in Contexts(Positions, K)
      /\ kind = "custom" => Len(entered) = Len(contexts) + 1
      /\ kind # "custom" => Len(entered) = Len(contexts)
      /\ kind = "custom" \/ Len(contexts) > 1 => entered[1].location = contexts[1].location
      /\ kind # "custom" /\ Len(contexts) = 1 =>
           entered[1].location = Append(contexts[1].location, name)
  BY <1>2, <1>3, EnterTyped DEF Reading
<1>5. c.location \in Positions /\ c.map \in Maps(Positions, K)
  BY <1>4 DEF Contexts
<1>6. /\ IsDocument(json') /\ graph' \in Graphs \cup {NULL}
      /\ V \subseteq DOMAIN json /\ value \in [V -> DOMAIN json \cup {NULL}]
      /\ Len(frames) <= MaxFrames
  BY <1>1 DEF IInv
<1>7. ASSUME NEW x \in {at, NULL}, value' = With(value, at, x)
      PROVE  /\ DOMAIN value' = V \cup {at} /\ DOMAIN value' \subseteq DOMAIN json'
             /\ value' \in [DOMAIN value' -> DOMAIN json' \cup {NULL}]
  BY <1>1, <1>3, <1>6, <1>7 DEF With
<1>8. CASE /\ json[at].kind = "marker"
           /\ contexts' = LeaveRead(
                SetTop(entered, [c EXCEPT !.map = AddReference(@, json[at].ref, c.location)]), kind)
           /\ value' = With(value, at, NULL)
           /\ frames' = Advance(frames)
           /\ phase' = phase
  <2> DEFINE c2 == [c EXCEPT !.map = AddReference(@, json[at].ref, c.location)]
  <2>1. c2 \in Contexts(Positions, K) /\ c2.location = c.location
    <3>1. AddReference(c.map, json[at].ref, c.location) \in Maps(Positions, K)
      BY <1>3, <1>5, <1>8, AddReferenceTyped
    <3> QED
      BY <1>4, <3>1 DEF Contexts
  <2>2. /\ contexts' \in Seq(Contexts(Positions, K)) /\ Len(contexts') = Len(contexts)
        /\ contexts'[1].location = contexts[1].location
    <3>1. contexts' = LeaveRead(SetTop(Enter(kind, name), c2), kind)
      BY <1>8
    <3>2. contexts \in Seq(Contexts(Positions, K)) /\ c2.location = Top(Enter(kind, name)).location
      BY <1>2, <2>1 DEF Reading
    <3> HIDE DEF c2, K
    <3> QED
      BY <1>2, <1>3, <2>1, <3>1, <3>2, MarkerKeepsContexts
  <2>3. /\ frames' \in Seq(Frames({NULL}, V)) /\ frames' # <<>> /\ Len(frames') = n
        /\ \A i \in 1 .. n : frames'[i].at = frames[i].at
    BY <1>2, <1>8, AdvanceTyped DEF Reading
  <2>4. V \subseteq DOMAIN value'
    BY <1>7, <1>8
  <2>5. frames' \in Seq(Frames({NULL}, DOMAIN value'))
    BY <2>3, <2>4, FramesGrow
  <2>6. contexts' \in Seq(Contexts(Positions, Known(DOMAIN value')))
    BY <2>2, <2>4, ContextsGrow
  <2>7. Stacked(frames', contexts', json') /\ Nested(frames', json') = Nested(frames, json)
    BY <1>1, <1>2, <2>2, <2>3, StackedStay DEF Reading
  <2>8. Located(frames', contexts', json')
    BY <2>2, <2>3, <2>7, LocatedStay, <1>2 DEF Reading
  <2>9. Reading'
    BY <2>3, <2>5, <2>6, <2>7, <2>8 DEF Reading
  <2>10. phase' = "deserialize"
    BY <1>1, <1>8
  <2> QED
    BY <1>6, <1>7, <1>8, <2>3, <2>9, <2>10 DEF IInv
<1>9. CASE phase' = "threw" /\ UNCHANGED <<frames, contexts, value>>
  BY <1>1, <1>6, <1>9 DEF IInv
<1>10. CASE /\ contexts' = IF Tracked(json[at].kind)
                           THEN SetTop(entered, [c EXCEPT !.map = With(@, c.location, fresh)])
                           ELSE entered
            /\ value' = With(value, at, at)
            /\ frames' = Append(Advance(frames), Frame(NULL, at))
            /\ phase' = phase
  <2> DEFINE c2 == [c EXCEPT !.map = With(@, c.location, fresh)]
             W == V \cup {at}
  <2>1. c2 \in Contexts(Positions, K) /\ c2.location = c.location
    <3>1. fresh \in K
      BY DEF Known
    <3>2. With(c.map, c.location, fresh) \in Maps(Positions, K)
      BY <1>5, <3>1, WithTyped
    <3> QED
      BY <1>4, <3>2 DEF Contexts
  <2>2. /\ SetTop(entered, c2) \in Seq(Contexts(Positions, K))
        /\ Len(SetTop(entered, c2)) = Len(entered)
        /\ SetTop(entered, c2)[1].location = entered[1].location
    <3> HIDE DEF c2, K, entered
    <3>1. c2.location = Top(entered).location
      BY <2>1
    <3> QED
      BY <1>4, <2>1, <3>1, ContextChanged
  <2>3. /\ contexts' \in Seq(Contexts(Positions, K)) /\ Len(contexts') = Len(entered)
        /\ contexts'[1].location = entered[1].location
    BY <1>4, <1>10, <2>2
  <2>4. DOMAIN value' = W
    BY <1>7, <1>10
  <2>5. /\ frames' \in Seq(Frames({NULL}, W)) /\ frames' # <<>> /\ Len(frames') = n + 1
        /\ \A i \in 1 .. n : frames'[i].at = frames[i].at
        /\ frames'[n + 1].at = at
    <3>1. frames \in Seq(Frames({NULL}, V))
      BY <1>2 DEF Reading
    <3>2. frames \in Seq(Frames({NULL}, W))
      BY <3>1, FramesGrow
    <3> HIDE DEF W
    <3>3. at \in W /\ frames # <<>>
      BY <1>2 DEF W, Reading
    <3>4. NULL \in {NULL} /\ frames' = Called(frames, NULL, at)
      BY <1>10 DEF Called
    <3> HIDE DEF n, entered, c, V, K, fresh, c2
    <3>5. /\ frames' \in Seq(Frames({NULL}, W)) /\ frames' # <<>> /\ Len(frames') = Len(frames) + 1
          /\ \A i \in 1 .. Len(frames) : frames'[i].at = frames[i].at /\ frames'[i].node = frames[i].node
          /\ frames'[Len(frames) + 1].at = at /\ frames'[Len(frames) + 1].node = NULL
      BY <3>2, <3>3, <3>4, CallTyped
    <3> QED
      BY <3>5 DEF n
  <2>6. contexts' \in Seq(Contexts(Positions, Known(W)))
    BY <2>3, ContextsGrow
  <2>7. /\ Stacked(frames', contexts', json')
        /\ kind = "custom" => Nested(frames', json') = Nested(frames, json) \cup {n}
        /\ kind # "custom" => Nested(frames', json') = Nested(frames, json)
    <3>1. json[frames[n].at].kind = kind /\ frames[n].at = Front(at) /\ Len(at) = Len(frames[n].at) + 1
      BY <1>2, <1>3 DEF kind
    <3>2. kind = "custom" => Len(contexts') = Len(contexts) + 1
      BY <1>4, <2>3
    <3>3. kind # "custom" => Len(contexts') = Len(contexts)
      BY <1>4, <2>3
    <3>4. /\ Stacked(frames, contexts, json)
          /\ \A i \in 1 .. n : frames'[i].at = frames[i].at /\ json'[frames[i].at].kind = json[frames[i].at].kind
          /\ Len(frames'[n + 1].at) = Len(frames[n].at) + 1 /\ Front(frames'[n + 1].at) = frames[n].at
          /\ json[frames[n].at].kind = "custom" => Len(contexts') = Len(contexts) + 1
          /\ json[frames[n].at].kind # "custom" => Len(contexts') = Len(contexts)
      BY <1>1, <1>2, <2>5, <3>1, <3>2, <3>3 DEF Reading
    <3>5. n \in Nat \ {0} /\ Len(frames') = n + 1
      BY <1>2, <2>5
    <3>6. Pushed(frames, contexts, json, frames', contexts', json')
      BY <3>4, <3>5 DEF Pushed
    <3>7. /\ Stacked(frames', contexts', json')
          /\ json[frames[n].at].kind = "custom" => Nested(frames', json') = Nested(frames, json) \cup {n}
          /\ json[frames[n].at].kind # "custom" => Nested(frames', json') = Nested(frames, json)
      <4> HIDE DEF entered, c, V, K, fresh, c2, W
      <4> QED
        BY <3>4, <3>5, <3>6, StackedPush
    <3> QED
      BY <3>1, <3>7
  <2>8. Located(frames', contexts', json')
    <3>1. json[frames[n].at].kind = kind /\ at = Append(frames[n].at, name)
      BY <1>2 DEF kind, at
    <3>2. /\ kind = "custom" \/ Len(contexts) > 1 => contexts'[1].location = contexts[1].location
          /\ kind # "custom" /\ Len(contexts) = 1 =>
               contexts'[1].location = Append(contexts[1].location, name)
      BY <1>4, <2>3
    <3> HIDE DEF Nested
    <3> QED
      BY <1>1, <1>2, <2>5, <2>7, <3>1, <3>2, LocatedPush DEF Reading
  <2>9. Len(frames') <= MaxFrames
    BY <1>1, <1>2, <1>3, <1>6, <2>5, <2>7, StackBounded
  <2>10. Reading' /\ phase' = "deserialize"
    BY <1>1, <1>10, <2>4, <2>5, <2>6, <2>7, <2>8 DEF Reading
  <2> QED
    BY <1>6, <1>7, <1>10, <2>9, <2>10 DEF IInv
<1> QED
  BY <1>8, <1>9, <1>10 DEF DeserializeMember, f, name, at, kind

LEMMA DeserializeReturnStep ==
  ASSUME IInv, DeserializeReturn
  PROVE  IInv'
<1> DEFINE n == Len(frames)
           f == Top(frames)
           kind == json[frames[n - 1].at].kind
           V == DOMAIN value
           C == Contexts(Positions, Known(V))
           c == Made(Top(contexts), f.at)
           changed == SetTop(contexts, c)
<1>1. /\ phase = "deserialize" /\ n > 1 /\ UNCHANGED <<graph, phase, json, value>>
      /\ frames' = Front(frames)
      /\ contexts' = LeaveRead(changed, kind)
  BY DEF DeserializeReturn
<1>2. /\ Reading /\ NULL \notin V /\ n \in Nat \ {0} /\ f = frames[n] /\ f.at \in V
      /\ contexts # <<>> /\ Len(contexts) \in Nat \ {0} /\ Top(contexts) \in C
  BY <1>1, ReadingAt
<1>3. c \in C /\ c.location = Top(contexts).location
  <2> HIDE DEF f
  <2> QED
    BY <1>2, MadeTyped
<1>4. /\ changed \in Seq(C) /\ changed # <<>> /\ Len(changed) = Len(contexts)
      /\ changed[1].location = contexts[1].location
  <2>1. contexts \in Seq(C)
    BY <1>2 DEF Reading
  <2> HIDE DEF c
  <2> QED
    BY <1>2, <1>3, <2>1, ContextChanged
<1>5. /\ contexts' \in Seq(C)
      /\ kind = "custom" => Len(contexts') = Len(contexts) - 1
      /\ kind # "custom" => Len(contexts') = Len(contexts)
      /\ Len(contexts) > 1 => contexts'[1].location = contexts[1].location
      /\ kind # "custom" /\ Len(contexts) = 1 =>
           contexts'[1].location = Front(contexts[1].location)
  <2> DEFINE left == LeaveRead(changed, kind)
  <2> HIDE DEF changed, kind, V, c, f, n
  <2>0. changed \in Seq(C) /\ changed # <<>>
    BY <1>4
  <2>1. /\ left \in Seq(C)
        /\ kind = "custom" => Len(left) = Len(changed) - 1
        /\ kind # "custom" => Len(left) = Len(changed)
        /\ Len(changed) > 1 => left[1].location = changed[1].location
        /\ kind # "custom" /\ Len(changed) = 1 => left[1].location = Front(changed[1].location)
    BY <2>0, LeaveReadTyped, Zenon
  <2>2. contexts' = left
    BY <1>1
  <2> HIDE DEF left
  <2> QED
    BY <1>4, <2>1, <2>2
<1>6. /\ frames' \in Seq(Frames({NULL}, V)) /\ Len(frames') = n - 1
      /\ \A i \in 1 .. n - 1 : frames'[i] = frames[i]
  <2>1. frames \in Seq(Frames({NULL}, V)) /\ frames # <<>>
    BY <1>2 DEF Reading
  <2> QED
    BY <1>1, <2>1, FrontTyped
<1>7. frames' # <<>>
  BY <1>1, <1>2, <1>6, EmptySeq
<1>8. Returned(frames, contexts, json, frames', contexts')
  BY <1>5, <1>6 DEF Returned
<1>9. /\ Stacked(frames', contexts', json)
      /\ Nested(frames', json) = Nested(frames, json) \ {n - 1}
  BY <1>1, <1>2, <1>8, StackedPop DEF Reading
<1>10. Located(frames', contexts', json)
  <2> HIDE DEF Nested
  <2> QED
    BY <1>1, <1>2, <1>5, <1>8, <1>9, LocatedPop DEF Reading
<1>11. Reading'
  BY <1>1, <1>5, <1>6, <1>7, <1>9, <1>10 DEF Reading
<1>12. Len(frames') <= MaxFrames
  BY <1>1, <1>2, <1>6, BoundsAssumption DEF IInv
<1> QED
  BY <1>1, <1>11, <1>12 DEF IInv

LEMMA CompleteStep ==
  ASSUME IInv, Complete
  PROVE  IInv'
<1> DEFINE V == DOMAIN value
           K == Known(V)
           map == Made(Top(contexts), <<>>).map
           sources == {s \in DOMAIN map : map[s].complete}
           targets == UNION {map[s].targets : s \in sources}
           source(p) == CHOOSE s \in sources : p \in map[s].targets
<1>1. /\ phase = "deserialize" /\ Len(frames) = 1 /\ UNCHANGED <<graph, json>>
      /\ frames' = <<>>
      /\ \/ phase' = "done" /\ value' = [p \in V |-> IF p \in targets THEN map[source(p)].object ELSE value[p]]
         \/ phase' = "threw" /\ UNCHANGED value
  BY DEF Complete
<1>2. Len(frames') <= MaxFrames
  BY <1>1, EmptySeq, BoundsAssumption
<1>3. CASE phase' = "threw" /\ UNCHANGED value
  BY <1>1, <1>2, <1>3 DEF IInv
<1>4. CASE /\ phase' = "done"
           /\ value' = [p \in V |-> IF p \in targets THEN map[source(p)].object ELSE value[p]]
  <2>1. map \in Maps(Positions, K)
    <3>1. /\ frames[1].at \in V /\ frames[1].at \in Seq(STRING) /\ NULL \notin V
          /\ Top(contexts) \in Contexts(Positions, K)
      BY <1>1, ReadingAt DEF Positions
    <3>2. Len(frames[1].at) = 0
      BY <1>1, ReadingAt DEF Reading, Stacked
    <3>3. <<>> \in V
      BY <3>1, <3>2, EmptySeq
    <3>4. Made(Top(contexts), <<>>) \in Contexts(Positions, K)
      <4> HIDE DEF V
      <4> QED
        BY <3>1, <3>3, MadeTyped
    <3> QED
      BY <3>4 DEF Contexts
  <2>2. \A s \in DOMAIN map : map[s].object \in V \cup {NULL}
    <3> HIDE DEF map
    <3>1. \A s \in DOMAIN map : map[s] \in K
      BY <2>1 DEF Maps
    <3> QED
      BY <3>1 DEF Known
  <2>3. \A p \in targets : source(p) \in DOMAIN map
    <3> HIDE DEF map
    <3> QED
      OBVIOUS
  <2>4. V \subseteq DOMAIN json /\ value \in [V -> DOMAIN json \cup {NULL}]
    BY DEF IInv
  <2>5. DOMAIN value' = V
    BY <1>4
  <2> HIDE DEF targets, source, map
  <2>6. \A p \in V : value'[p] \in DOMAIN json \cup {NULL}
    BY <1>4, <2>2, <2>3, <2>4
  <2>7. value' \in [V -> DOMAIN json \cup {NULL}]
    BY <1>4, <2>6
  <2> HIDE DEF V
  <2>8. value' \in [DOMAIN value' -> DOMAIN json' \cup {NULL}] /\ DOMAIN value' \subseteq DOMAIN json'
    BY <1>1, <2>4, <2>5, <2>7
  <2> QED
    BY <1>1, <1>2, <1>4, <2>8 DEF IInv
<1> QED
  BY <1>1, <1>3, <1>4

------------------------------------------------------------------------------
(* Where reading starts.                                                   *)
ReadingFrom(fs, cs, v, d) ==
  /\ fs \in Seq(Frames({NULL}, DOMAIN v)) /\ fs # <<>> /\ Len(fs) <= MaxFrames
  /\ cs \in Seq(Contexts(Positions, Known(DOMAIN v)))
  /\ Stacked(fs, cs, d) /\ Located(fs, cs, d)
  /\ v \in [DOMAIN v -> DOMAIN d \cup {NULL}] /\ DOMAIN v \subseteq DOMAIN d

LEMMA FirstReading ==
  ASSUME NEW d, IsDocument(d), NEW fs, fs = <<Frame(NULL, <<>>)>>, NEW cs, cs = <<FirstRead>>,
         NEW v, v = [p \in {<<>>} |-> <<>>]
  PROVE  ReadingFrom(fs, cs, v, d)
<1> DEFINE V == {<<>>}
           m == [l \in V |-> [object |-> NULL, targets |-> {}, complete |-> FALSE]]
<1>1. <<>> \in DOMAIN d /\ <<>> \in Positions /\ Len(<<>>) = 0 /\ DOMAIN v = V
  BY EmptySeq DEF IsDocument, Positions
<1>2. fs \in Seq(Frames({NULL}, V)) /\ fs # <<>> /\ Len(fs) = 1 /\ fs[1].at = <<>>
  BY DEF Frame, Frames
<1>3. FirstRead \in Contexts(Positions, Known(V)) /\ FirstRead.location = <<>>
  <2>1. m \in [V -> Known(V)]
    BY DEF Known
  <2>2. V \in SUBSET Positions
    BY <1>1
  <2>3. m \in Maps(Positions, Known(V))
    BY <2>1, <2>2 DEF Maps
  <2> QED
    BY <1>1, <2>3 DEF FirstRead, Contexts
<1>4. cs \in Seq(Contexts(Positions, Known(V))) /\ Len(cs) = 1 /\ cs[1].location = <<>>
  <2> HIDE DEF FirstRead
  <2> QED
    BY <1>3
<1>5. Stacked(fs, cs, d)
  <2>1. Nested(fs, d) = {}
    BY <1>2 DEF Nested
  <2>2. Len(cs) = Cardinality(Nested(fs, d)) + 1
    <3>1. Cardinality(Nested(fs, d)) = 0
      BY <2>1, FS_EmptySet, Zenon
    <3> QED
      BY <1>4, <3>1
  <2>3. Len(fs[1].at) = 0
    BY <1>1, <1>2
  <2> QED
    BY <1>2, <2>2, <2>3 DEF Stacked
<1>6. Located(fs, cs, d)
  BY <1>2, <1>4 DEF Located
<1>7. Len(fs) <= MaxFrames
  BY <1>2, BoundsAssumption
<1>8. v \in [DOMAIN v -> DOMAIN d \cup {NULL}] /\ DOMAIN v \subseteq DOMAIN d
  BY <1>1
<1> QED
  BY <1>1, <1>2, <1>4, <1>5, <1>6, <1>7, <1>8 DEF ReadingFrom

LEMMA InitDeserializeHolds ==
  ASSUME NEW doc \in Documents, InitDeserialize(doc)
  PROVE  IInv
<1>1. /\ graph = NULL /\ phase = "deserialize" /\ frames = <<Frame(NULL, <<>>)>>
      /\ contexts = <<FirstRead>> /\ json = doc /\ value = [p \in {<<>>} |-> <<>>]
  BY DEF InitDeserialize
<1>2. IsDocument(json)
  BY <1>1, DocumentsAssumption
<1>3. ReadingFrom(frames, contexts, value, json)
  BY <1>1, <1>2, FirstReading
<1> QED
  BY <1>1, <1>2, <1>3 DEF IInv, Reading, ReadingFrom

------------------------------------------------------------------------------
(* The document grows by a member of the value at p.                       *)
Values == [kind : Kinds \cup {"marker"}, members : Seq(STRING), ref : Positions \cup {NULL}]

Listed(d, p, name) == [d[p] EXCEPT !.members = Append(@, name)]
Grown(d, p, name, node) == With(With(d, p, Listed(d, p, name)), Append(p, name), node)

GrownBy(d, p, name, at, node, d2) ==
  /\ IsDocument(d2) /\ DOMAIN d2 = DOMAIN d \cup {at}
  /\ at \in Positions /\ Front(at) = p /\ Len(at) = Len(p) + 1
  /\ d2[at] = node
  /\ d2[p] = Listed(d, p, name)
  /\ \A q \in DOMAIN d : q # p /\ q # at => d2[q] = d[q]
  /\ \A q \in DOMAIN d : q # at => d2[q].kind = d[q].kind

LEMMA DocumentGrows ==
  ASSUME NEW d, IsDocument(d), NEW p \in DOMAIN d, NEW name \in STRING, Len(Append(p, name)) < MaxFrames,
         NEW node \in Values, node.members = <<>>, node.kind = "marker" => node.ref \in Positions
  PROVE  GrownBy(d, p, name, Append(p, name), node, Grown(d, p, name, node))
<1> DEFINE at == Append(p, name)
           listed == Listed(d, p, name)
           d2 == Grown(d, p, name, node)
<1>1. p \in Seq(STRING) /\ p \in Positions
  BY DEF IsDocument, Positions
<1>2. /\ at \in Positions /\ Front(at) = p /\ Len(at) = Len(p) + 1 /\ at # <<>>
  BY <1>1, FrontOfAppend DEF Positions
<1>3. at # p
  <2>1. Len(p) \in Nat
    BY <1>1, LenProperties
  <2>2. Len(at) # Len(p)
    BY <1>2, <2>1
  <2> QED
    BY <2>2
<1>4. d[p] \in Values /\ d[p].members \in Seq(STRING) /\ \A q \in DOMAIN d : d[q] \in Values
  BY DEF IsDocument, Values
<1>5. /\ listed \in Values /\ listed.kind = d[p].kind /\ listed.ref = d[p].ref
      /\ listed.members = Append(d[p].members, name)
  <2>1. Append(d[p].members, name) \in Seq(STRING)
    BY <1>4, AppendProperties
  <2> QED
    BY <1>4, <2>1 DEF Listed, Values
<1>6. /\ DOMAIN d2 = DOMAIN d \cup {at} /\ d2[at] = node /\ d2[p] = listed
      /\ \A q \in DOMAIN d : q # p /\ q # at => d2[q] = d[q]
  <2> HIDE DEF at, listed
  <2> QED
    BY <1>3 DEF Grown, With, at, listed
<1>7. d2 \in [DOMAIN d2 -> Values]
  <2>1. d2 = [q \in DOMAIN d2 |-> d2[q]]
    BY DEF Grown, With
  <2> HIDE DEF d2, at, listed
  <2>2. \A q \in DOMAIN d2 : d2[q] \in Values
    BY <1>4, <1>5, <1>6
  <2> QED
    BY <2>1, <2>2
<1> HIDE DEF d2, listed
<1>8. \A q \in DOMAIN d : q # at => d2[q].kind = d[q].kind
  BY <1>5, <1>6
<1>9. Tracked(d2[<<>>].kind) /\ <<>> \in DOMAIN d2
  BY <1>2, <1>6, <1>8 DEF IsDocument
<1>10. ASSUME NEW q \in DOMAIN d2
       PROVE  /\ Len(q) < MaxFrames
              /\ d2[q].kind = "marker" => d2[q].ref \in Positions
              /\ \A i \in DOMAIN d2[q].members : Append(q, d2[q].members[i]) \in DOMAIN d2
  <2> HIDE DEF at
  <2>1. CASE q = at
    BY <1>2, <1>6, <2>1, EmptySeq
  <2>2. CASE q = p /\ q # at
    <3>1. Len(q) < MaxFrames /\ (d2[q].kind = "marker" => d2[q].ref \in Positions)
      BY <1>5, <1>6, <2>2 DEF IsDocument
    <3>2. ASSUME NEW i \in DOMAIN d2[q].members
          PROVE  Append(q, d2[q].members[i]) \in DOMAIN d2
      <4>1. d2[q].members = Append(d[p].members, name)
        BY <1>5, <1>6, <2>2
      <4>2. i \in 1 .. Len(d[p].members) + 1
        BY <1>4, <3>2, <4>1, AppendProperties, LenProperties
      <4>3. CASE i = Len(d[p].members) + 1
        <5>1. d2[q].members[i] = name
          BY <1>4, <4>1, <4>3, AppendProperties
        <5> QED
          BY <1>6, <2>2, <5>1 DEF at
      <4>4. CASE i # Len(d[p].members) + 1
        <5>1. i \in 1 .. Len(d[p].members)
          BY <1>4, <4>2, <4>4, LenProperties
        <5>2. d2[q].members[i] = d[p].members[i] /\ i \in DOMAIN d[p].members
          BY <1>4, <4>1, <5>1, AppendProperties, LenProperties
        <5> QED
          BY <1>6, <2>2, <5>2 DEF IsDocument
      <4> QED
        BY <4>3, <4>4
    <3> QED
      BY <3>1, <3>2
  <2>3. CASE q # p /\ q # at
    <3>1. q \in DOMAIN d /\ d2[q] = d[q]
      BY <1>6, <2>3
    <3> QED
      BY <1>6, <3>1 DEF IsDocument
  <2> QED
    BY <2>1, <2>2, <2>3
<1>11. DOMAIN d2 \subseteq Positions
  BY <1>2, <1>6 DEF IsDocument
<1>12. IsDocument(d2)
  BY <1>7, <1>9, <1>10, <1>11 DEF IsDocument, Values
<1> QED
  BY <1>2, <1>6, <1>8, <1>12 DEF GrownBy, d2, listed

(* Where writing stands, and the member that is next.                      *)
LEMMA WritingAt ==
  ASSUME IInv, phase = "serialize"
  PROVE  /\ Writing /\ IsGraph(graph)
         /\ Len(frames) \in Nat \ {0} /\ Top(frames) = frames[Len(frames)]
         /\ \A i \in 1 .. Len(frames) : frames[i].at \in DOMAIN json /\ frames[i].node \in Nodes
         /\ Top(frames).next \in Nat \ {0}
         /\ contexts # <<>> /\ Len(contexts) \in Nat \ {0}
         /\ Top(contexts) \in Contexts(Nodes, Positions)
<1>1. Writing /\ IsGraph(graph)
  BY GraphsAssumption DEF IInv, Writing
<1>2. /\ Len(frames) \in Nat \ {0} /\ Top(frames) = frames[Len(frames)]
      /\ Top(frames) \in Frames(Nodes, DOMAIN json)
      /\ \A i \in 1 .. Len(frames) : frames[i] \in Frames(Nodes, DOMAIN json)
  BY <1>1, TopTyped DEF Writing
<1>3. Len(contexts) \in Nat \ {0}
  BY <1>1, <1>2, Alone DEF Writing
<1>4. contexts # <<>>
  BY <1>3, EmptySeq
<1>5. Top(contexts) \in Contexts(Nodes, Positions)
  BY <1>1, <1>4, TopTyped DEF Writing
<1> QED
  BY <1>1, <1>2, <1>3, <1>4, <1>5 DEF Frames

LEMMA MemberWritten ==
  ASSUME NEW g, IsGraph(g), NEW node \in DOMAIN g.kind, NEW i \in Nat \ {0}, i <= Len(g.members[node])
  PROVE  /\ i \in 1 .. Len(g.members[node]) /\ i \in DOMAIN g.members[node]
         /\ g.members[node][i] \in [name : STRING, value : DOMAIN g.kind]
         /\ g.members[node][i].name \in STRING
         /\ g.members[node][i].value \in DOMAIN g.kind
         /\ g.kind[g.members[node][i].value] \in Kinds
         /\ g.equal[g.members[node][i].value] \in DOMAIN g.kind
<1> DEFINE M == [name : STRING, value : DOMAIN g.kind]
           ms == g.members[node]
<1>1. ms \in Seq(M)
  BY DEF IsGraph
<1>2. /\ g.kind \in [DOMAIN g.kind -> Kinds]
      /\ g.equal \in [DOMAIN g.kind -> DOMAIN g.kind]
  BY DEF IsGraph
<1>3. Len(ms) \in Nat /\ i \in 1 .. Len(ms) /\ i \in DOMAIN ms
  BY <1>1, LenProperties
<1>4. ms[i] \in M
  <2> HIDE DEF M, ms
  <2> QED
    BY <1>1, <1>3, ElementOfSeq
<1>5. ms[i].name \in STRING /\ ms[i].value \in DOMAIN g.kind
  BY <1>4
<1> QED
  BY <1>2, <1>3, <1>4, <1>5

LEMMA SerializeMemberStep ==
  ASSUME IInv, SerializeMember
  PROVE  IInv'
<1> DEFINE n == Len(frames)
           f == Top(frames)
           kind == graph.kind[f.node]
           m == graph.members[f.node][f.next]
           at == Append(f.at, m.name)
           entered == Enter(kind, m.name)
           c == Top(entered)
           equal == graph.equal[m.value]
           C == Contexts(Nodes, Positions)
           marker == Marker(c.map[equal])
           plain == Node(graph.kind[m.value])
           tracked == Tracked(graph.kind[m.value])
<1>1. /\ phase = "serialize" /\ f.next <= Len(graph.members[f.node]) /\ n < MaxFrames
      /\ UNCHANGED <<graph, value>>
      /\ \/ /\ tracked /\ equal \in DOMAIN c.map
            /\ json' = Grown(json, f.at, m.name, marker)
            /\ contexts' = LeaveWritten(entered, kind)
            /\ frames' = Advance(frames)
            /\ phase' = phase
         \/ phase' = "threw" /\ UNCHANGED <<frames, contexts, json>>
         \/ /\ tracked => equal \notin DOMAIN c.map /\ c.location \notin Range(c.map)
            /\ json' = Grown(json, f.at, m.name, plain)
            /\ contexts' = IF tracked THEN SetTop(entered, [c EXCEPT !.map = With(@, equal, c.location)])
                                      ELSE entered
            /\ frames' = Called(frames, m.value, at)
            /\ phase' = phase
  BY Zenon DEF SerializeMember, Grown, Listed, Called
<1>2. /\ Writing /\ IsGraph(graph) /\ n \in Nat \ {0} /\ f = frames[n]
      /\ \A i \in 1 .. n : frames[i].at \in DOMAIN json /\ frames[i].node \in Nodes
      /\ f.next \in Nat \ {0} /\ contexts # <<>> /\ Len(contexts) \in Nat \ {0}
  BY <1>1, WritingAt
<1>3. m.name \in STRING /\ m.value \in Nodes /\ graph.kind[m.value] \in Kinds /\ equal \in Nodes
  <2> HIDE DEF f
  <2>1. f.node \in Nodes
    BY <1>2
  <2> QED
    BY <1>1, <1>2, <2>1, MemberWritten DEF Nodes
<1>4. /\ f.at \in DOMAIN json /\ Len(f.at) = n - 1 /\ Len(f.at) + 1 < MaxFrames
      /\ json[f.at].kind = kind
      /\ \A i \in 1 .. n : Len(frames[i].at) = i - 1
  <2>1. /\ \A i \in 1 .. n : Len(frames[i].at) = i - 1
        /\ json[f.at].kind = kind /\ f.at \in DOMAIN json
    BY <1>2 DEF Writing, Stacked
  <2>2. Len(f.at) = n - 1
    BY <1>2, <2>1
  <2>3. Len(f.at) + 1 < MaxFrames
    <3>1. n \in Nat \ {0} /\ n < MaxFrames
      BY <1>1, <1>2
    <3> HIDE DEF n, f
    <3> QED
      BY <2>2, <3>1, BoundsAssumption
  <2> QED
    BY <1>2, <2>1, <2>2, <2>3
<1> HIDE DEF f, m, at, kind, equal
<1>5. /\ entered \in Seq(C) /\ entered # <<>> /\ c \in C
      /\ kind = "custom" => Len(entered) = Len(contexts) + 1
      /\ kind # "custom" => Len(entered) = Len(contexts)
  <2>1. contexts \in Seq(C)
    BY <1>2 DEF Writing
  <2> QED
    BY <1>2, <1>3, <2>1, EnterTyped
<1>6. c.location \in Positions /\ c.map \in Maps(Nodes, Positions)
  BY <1>5 DEF Contexts
<1>7. ASSUME NEW node \in {marker, plain}, json' = Grown(json, f.at, m.name, node),
             node \in Values, node.members = <<>>, node.kind = "marker" => node.ref \in Positions
      PROVE  /\ IsDocument(json') /\ DOMAIN json' = DOMAIN json \cup {at}
             /\ Front(at) = f.at /\ Len(at) = Len(f.at) + 1 /\ json'[at] = node
             /\ \A i \in 1 .. n : json'[frames[i].at].kind = json[frames[i].at].kind
             /\ DOMAIN value' \subseteq DOMAIN json'
             /\ value' \in [DOMAIN value' -> DOMAIN json' \cup {NULL}]
  <2> DEFINE d2 == Grown(json, f.at, m.name, node)
  <2>1. IsDocument(json)
    BY DEF IInv
  <2>2. /\ IsDocument(d2) /\ DOMAIN d2 = DOMAIN json \cup {at}
        /\ Front(at) = f.at /\ Len(at) = Len(f.at) + 1 /\ d2[at] = node
        /\ \A q \in DOMAIN json : q # at => d2[q].kind = json[q].kind
    <3>1. /\ f.at \in DOMAIN json /\ Len(f.at) + 1 < MaxFrames /\ m.name \in STRING
          /\ node \in Values /\ node.members = <<>> /\ (node.kind = "marker" => node.ref \in Positions)
          /\ at = Append(f.at, m.name)
      BY <1>3, <1>4, <1>7 DEF at
    <3> DEFINE p == f.at
               name == m.name
    <3>2. /\ p \in DOMAIN json /\ Len(p) + 1 < MaxFrames /\ name \in STRING
          /\ node \in Values /\ node.members = <<>> /\ (node.kind = "marker" => node.ref \in Positions)
          /\ at = Append(p, name) /\ d2 = Grown(json, p, name, node) /\ p \in Seq(STRING)
      BY <2>1, <3>1 DEF IsDocument, Positions
    <3>short. Len(Append(p, name)) < MaxFrames
      BY <3>2, AppendProperties
    <3> HIDE DEF marker, plain, n, entered, c, C, tracked, d2, p, name
    <3>3. GrownBy(json, p, name, at, node, d2)
      BY <2>1, <3>2, <3>short, DocumentGrows
    <3> QED
      BY <3>3 DEF p, GrownBy
  <2>3. \A i \in 1 .. n : frames[i].at # at
    BY <1>2, <1>4, <2>2
  <2> HIDE DEF d2, marker, plain
  <2>4. \A i \in 1 .. n : d2[frames[i].at].kind = json[frames[i].at].kind
    BY <1>2, <2>2, <2>3
  <2>5. json' = d2
    BY <1>7 DEF d2
  <2>6. value' = value /\ DOMAIN value \subseteq DOMAIN json /\ value \in [DOMAIN value -> DOMAIN json \cup {NULL}]
    BY <1>1 DEF IInv
  <2> QED
    BY <2>2, <2>4, <2>5, <2>6
<1>8. CASE /\ tracked /\ equal \in DOMAIN c.map
           /\ json' = Grown(json, f.at, m.name, marker)
           /\ contexts' = LeaveWritten(entered, kind)
           /\ frames' = Advance(frames)
           /\ phase' = phase
  <2>1. marker \in Values /\ marker.members = <<>> /\ marker.ref \in Positions
    <3>1. c.map[equal] \in Positions
      BY <1>6, <1>8 DEF Maps
    <3>2. <<>> \in Seq(STRING)
      BY EmptySeq
    <3> QED
      BY <3>1, <3>2 DEF Marker, Values
  <2>2. /\ IsDocument(json') /\ DOMAIN json' = DOMAIN json \cup {at}
        /\ \A i \in 1 .. n : json'[frames[i].at].kind = json[frames[i].at].kind
        /\ DOMAIN value' \subseteq DOMAIN json'
        /\ value' \in [DOMAIN value' -> DOMAIN json' \cup {NULL}]
    BY <1>7, <1>8, <2>1
  <2>3. contexts' \in Seq(C) /\ Len(contexts') = Len(contexts)
    <3>1. entered \in Seq(C) /\ entered # <<>> /\ contexts' = LeaveWritten(entered, kind)
      BY <1>5, <1>8
    <3> HIDE DEF entered
    <3>2. /\ contexts' \in Seq(C)
          /\ kind = "custom" => Len(contexts') = Len(entered) - 1
          /\ kind # "custom" => Len(contexts') = Len(entered)
      BY <3>1, LeaveWrittenTyped
    <3> QED
      BY <1>2, <1>5, <3>2
  <2>4. /\ frames' \in Seq(Frames(Nodes, DOMAIN json)) /\ frames' # <<>> /\ Len(frames') = n
        /\ \A i \in 1 .. n : frames'[i].at = frames[i].at /\ frames'[i].node = frames[i].node
    BY <1>2, <1>8, AdvanceTyped DEF Writing
  <2>5. frames' \in Seq(Frames(Nodes, DOMAIN json'))
    BY <2>2, <2>4, FramesGrow
  <2>6. Stacked(frames', contexts', json')
    <3>1. Stacked(frames, contexts, json)
      BY <1>2 DEF Writing
    <3> HIDE DEF entered, c, marker, plain, tracked
    <3> QED
      BY <1>2, <2>2, <2>3, <2>4, <3>1, StackedStay
  <2>7. \A i \in 1 .. n : json'[frames'[i].at].kind = graph.kind[frames'[i].node]
    BY <1>2, <2>2, <2>4 DEF Writing
  <2>8. Writing'
    BY <1>1, <1>2, <2>3, <2>4, <2>5, <2>6, <2>7 DEF Writing, Nodes
  <2> QED
    BY <1>1, <1>8, <2>2, <2>4, <2>8 DEF IInv
<1>9. CASE phase' = "threw" /\ UNCHANGED <<frames, contexts, json>>
  BY <1>1, <1>9 DEF IInv
<1>10. CASE /\ json' = Grown(json, f.at, m.name, plain)
            /\ contexts' = IF tracked THEN SetTop(entered, [c EXCEPT !.map = With(@, equal, c.location)])
                                      ELSE entered
            /\ frames' = Called(frames, m.value, at)
            /\ phase' = phase
  <2> DEFINE c2 == [c EXCEPT !.map = With(@, equal, c.location)]
  <2>1. plain \in Values /\ plain.members = <<>> /\ plain.kind # "marker" /\ plain.kind = graph.kind[m.value]
    <3>1. <<>> \in Seq(STRING)
      BY EmptySeq
    <3> QED
      BY <1>3, <3>1 DEF Node, Values, Kinds
  <2>2. /\ IsDocument(json') /\ DOMAIN json' = DOMAIN json \cup {at}
        /\ Front(at) = f.at /\ Len(at) = Len(f.at) + 1 /\ json'[at] = plain
        /\ \A i \in 1 .. n : json'[frames[i].at].kind = json[frames[i].at].kind
        /\ DOMAIN value' \subseteq DOMAIN json'
        /\ value' \in [DOMAIN value' -> DOMAIN json' \cup {NULL}]
    BY <1>7, <1>10, <2>1
  <2>3. contexts' \in Seq(C) /\ Len(contexts') = Len(entered)
    <3>1. c2 \in C /\ c2.location = c.location
      <4>1. With(c.map, equal, c.location) \in Maps(Nodes, Positions)
        BY <1>3, <1>6, WithTyped
      <4> QED
        BY <1>5, <4>1 DEF Contexts
    <3>2. SetTop(entered, c2) \in Seq(C) /\ Len(SetTop(entered, c2)) = Len(entered)
      <4> HIDE DEF c2, entered
      <4>1. c2.location = Top(entered).location
        BY <3>1
      <4> QED
        BY <1>5, <3>1, <4>1, ContextChanged
    <3> QED
      BY <1>5, <1>10, <3>2
  <2>4. frames \in Seq(Frames(Nodes, DOMAIN json')) /\ frames # <<>> /\ at \in DOMAIN json'
    BY <1>2, <2>2, FramesGrow DEF Writing
  <2>5. /\ frames' \in Seq(Frames(Nodes, DOMAIN json')) /\ frames' # <<>> /\ Len(frames') = Len(frames) + 1
        /\ \A i \in 1 .. Len(frames) : frames'[i].at = frames[i].at /\ frames'[i].node = frames[i].node
        /\ frames'[Len(frames) + 1].at = at /\ frames'[Len(frames) + 1].node = m.value
    <3>1. frames' = Called(frames, m.value, at) /\ m.value \in Nodes
      BY <1>3, <1>10
    <3> HIDE DEF n, entered, c, plain, marker, tracked
    <3> QED
      BY <2>4, <3>1, CallTyped
  <2>6. Pushed(frames, contexts, json, frames', contexts', json')
    BY <1>2, <1>4, <1>5, <2>2, <2>3, <2>5 DEF Pushed
  <2>7. Stacked(frames', contexts', json')
    <3> HIDE DEF entered, c, plain, marker, tracked
    <3> QED
      BY <1>2, <2>6, StackedPush DEF Writing
  <2>8. \A i \in 1 .. n : json'[frames'[i].at].kind = graph.kind[frames'[i].node]
    BY <1>2, <2>2, <2>5 DEF Writing
  <2>9. json'[frames'[n + 1].at].kind = graph.kind[frames'[n + 1].node]
    BY <2>1, <2>2, <2>5
  <2>10. \A i \in 1 .. Len(frames') : json'[frames'[i].at].kind = graph.kind[frames'[i].node]
    <3> HIDE DEF plain, marker
    <3> QED
      BY <1>2, <2>5, <2>8, <2>9
  <2>11. Writing'
    BY <1>1, <1>2, <2>3, <2>5, <2>7, <2>10 DEF Writing, Nodes
  <2>12. Len(frames') <= MaxFrames
    BY <1>1, <1>2, <2>5, BoundsAssumption
  <2> QED
    BY <1>1, <1>10, <2>2, <2>11, <2>12 DEF IInv
<1> QED
  BY <1>1, <1>8, <1>9, <1>10

LEMMA SerializeReturnStep ==
  ASSUME IInv, SerializeReturn
  PROVE  IInv'
<1> DEFINE n == Len(frames)
           kind == graph.kind[frames[n - 1].node]
           C == Contexts(Nodes, Positions)
<1>1. /\ phase = "serialize" /\ UNCHANGED <<graph, json>>
      /\ \/ /\ n > 1 /\ frames' = Front(frames)
            /\ contexts' = LeaveWritten(contexts, kind)
            /\ UNCHANGED <<phase, value>>
         \/ /\ phase' = "deserialize" /\ frames' = <<Frame(NULL, <<>>)>>
            /\ contexts' = <<FirstRead>> /\ value' = [p \in {<<>>} |-> <<>>]
  BY DEF SerializeReturn
<1>2. /\ Writing /\ n \in Nat \ {0} /\ contexts # <<>> /\ Len(contexts) \in Nat \ {0}
  BY <1>1, WritingAt
<1>3. CASE /\ n > 1 /\ frames' = Front(frames)
           /\ contexts' = LeaveWritten(contexts, kind)
           /\ UNCHANGED <<phase, value>>
  <2>1. /\ contexts' \in Seq(C)
        /\ kind = "custom" => Len(contexts') = Len(contexts) - 1
        /\ kind # "custom" => Len(contexts') = Len(contexts)
    <3>1. contexts \in Seq(C)
      BY <1>2 DEF Writing
    <3> HIDE DEF kind
    <3> QED
      BY <1>2, <1>3, <3>1, LeaveWrittenTyped
  <2>2. /\ frames' \in Seq(Frames(Nodes, DOMAIN json)) /\ Len(frames') = n - 1
        /\ \A i \in 1 .. n - 1 : frames'[i] = frames[i]
    <3>1. frames \in Seq(Frames(Nodes, DOMAIN json)) /\ frames # <<>>
      BY <1>2 DEF Writing
    <3> QED
      BY <1>3, <3>1, FrontTyped
  <2>3. frames' # <<>>
    BY <1>2, <1>3, <2>2, EmptySeq
  <2>4. json[frames[n - 1].at].kind = kind
    <3>1. n - 1 \in 1 .. n
      BY <1>2, <1>3
    <3> HIDE DEF n
    <3> QED
      BY <1>2, <3>1 DEF Writing, n
  <2>5. Returned(frames, contexts, json, frames', contexts')
    BY <2>1, <2>2, <2>4 DEF Returned
  <2>6. Stacked(frames', contexts', json)
    BY <1>2, <1>3, <2>5, StackedPop DEF Writing
  <2>7. \A i \in 1 .. Len(frames') : json[frames'[i].at].kind = graph.kind[frames'[i].node]
    <3>1. \A i \in 1 .. n - 1 : json[frames[i].at].kind = graph.kind[frames[i].node]
      BY <1>2 DEF Writing
    <3> QED
      BY <2>2, <3>1
  <2>8. Writing'
    BY <1>1, <1>2, <2>1, <2>2, <2>3, <2>6, <2>7 DEF Writing, Nodes
  <2>9. Len(frames') <= MaxFrames
    BY <1>2, <1>3, <2>2, BoundsAssumption DEF IInv
  <2> QED
    BY <1>1, <1>3, <2>8, <2>9 DEF IInv
<1>4. CASE /\ phase' = "deserialize" /\ frames' = <<Frame(NULL, <<>>)>>
           /\ contexts' = <<FirstRead>> /\ value' = [p \in {<<>>} |-> <<>>]
  <2>1. IsDocument(json')
    BY <1>1 DEF IInv
  <2>2. ReadingFrom(frames', contexts', value', json')
    BY <1>4, <2>1, FirstReading
  <2>3. Reading'
    BY <2>2 DEF ReadingFrom, Reading
  <2> QED
    BY <1>1, <1>4, <2>1, <2>2, <2>3 DEF IInv, ReadingFrom
<1> QED
  BY <1>1, <1>3, <1>4

LEMMA InitSerializeHolds ==
  ASSUME NEW g \in Graphs, InitSerialize(g)
  PROVE  IInv
<1> DEFINE e == g.equal[g.root]
           m == [k \in {e} |-> <<>>]
<1>1. /\ graph = g /\ phase = "serialize" /\ frames = <<Frame(g.root, <<>>)>>
      /\ contexts = <<[NewContext EXCEPT !.map = m]>>
      /\ json = [p \in {<<>>} |-> Node(g.kind[g.root])] /\ value = Nothing
  BY DEF InitSerialize
<1>2. /\ IsGraph(g) /\ g.root \in Nodes /\ e \in Nodes /\ g.kind[g.root] \in Kinds
      /\ Tracked(g.kind[g.root])
  <2>1. IsGraph(g) /\ Nodes = DOMAIN g.kind
    BY <1>1, GraphsAssumption DEF Nodes
  <2>2. /\ g.root \in DOMAIN g.kind /\ Tracked(g.kind[g.root])
        /\ g.kind \in [DOMAIN g.kind -> Kinds] /\ g.equal \in [DOMAIN g.kind -> DOMAIN g.kind]
    BY <2>1 DEF IsGraph
  <2>3. g.kind[g.root] \in Kinds /\ g.equal[g.root] \in DOMAIN g.kind
    BY <2>2
  <2> QED
    BY <2>1, <2>2, <2>3
<1>3. <<>> \in Positions /\ <<>> \in Seq(STRING) /\ Len(<<>>) = 0
  BY EmptySeq DEF Positions
<1>4. DOMAIN json = {<<>>} /\ json[<<>>] = Node(g.kind[g.root])
  BY <1>1
<1>5. IsDocument(json)
  <2>1. /\ json[<<>>].kind = g.kind[g.root] /\ json[<<>>].members = <<>> /\ json[<<>>].ref = NULL
        /\ json[<<>>] \in Values
    BY <1>2, <1>3, <1>4 DEF Node, Values
  <2>2. json \in [DOMAIN json -> Values]
    BY <1>1, <1>4, <2>1
  <2>3. json[<<>>].kind # "marker" /\ DOMAIN json[<<>>].members = {}
    BY <1>2, <2>1, EmptySeq DEF Kinds
  <2> QED
    BY <1>2, <1>3, <1>4, <2>1, <2>2, <2>3, BoundsAssumption DEF IsDocument, Values
<1>6. frames \in Seq(Frames(Nodes, DOMAIN json)) /\ frames # <<>> /\ Len(frames) = 1
      /\ frames[1].at = <<>> /\ frames[1].node = g.root
  BY <1>1, <1>2, <1>4 DEF Frame, Frames
<1>7. contexts \in Seq(Contexts(Nodes, Positions)) /\ Len(contexts) = 1
  <2>1. m \in Maps(Nodes, Positions)
    <3>1. m \in [{e} -> Positions] /\ {e} \in SUBSET Nodes
      BY <1>2, <1>3
    <3> QED
      BY <3>1 DEF Maps
  <2>2. [NewContext EXCEPT !.map = m] \in Contexts(Nodes, Positions)
    <3> HIDE DEF m
    <3> QED
      BY <1>3, <2>1 DEF NewContext, Contexts
  <2> QED
    BY <1>1, <2>2
<1>8. Stacked(frames, contexts, json)
  <2>1. Nested(frames, json) = {}
    BY <1>6 DEF Nested
  <2>2. Len(contexts) = Cardinality(Nested(frames, json)) + 1
    <3>1. Cardinality(Nested(frames, json)) = 0
      BY <2>1, FS_EmptySet, Zenon
    <3> QED
      BY <1>7, <3>1
  <2>3. Len(frames[1].at) = 0
    BY <1>3, <1>6
  <2> QED
    BY <1>6, <2>2, <2>3 DEF Stacked
<1>9. json[frames[1].at].kind = graph.kind[frames[1].node]
  BY <1>1, <1>4, <1>6 DEF Node
<1>10. Writing
  BY <1>1, <1>6, <1>7, <1>8, <1>9 DEF Writing
<1>11. DOMAIN value \subseteq DOMAIN json /\ value \in [DOMAIN value -> DOMAIN json \cup {NULL}]
  BY <1>1 DEF Nothing
<1>12. Len(frames) <= MaxFrames
  BY <1>6, BoundsAssumption
<1> QED
  BY <1>1, <1>5, <1>10, <1>11, <1>12 DEF IInv

------------------------------------------------------------------------------
(* The invariant holds, and with it what the runs check on small graphs.   *)
THEOREM Invariant == Spec => []IInv
<1>1. Init => IInv
  BY InitSerializeHolds, InitDeserializeHolds DEF Init
<1>2. IInv /\ [Next]_vars => IInv'
  <2> SUFFICES ASSUME IInv, [Next]_vars PROVE IInv'
    OBVIOUS
  <2>1. CASE SerializeMember
    BY <2>1, SerializeMemberStep
  <2>2. CASE SerializeReturn
    BY <2>2, SerializeReturnStep
  <2>3. CASE DeserializeMember
    BY <2>3, DeserializeMemberStep
  <2>4. CASE DeserializeReturn
    BY <2>4, DeserializeReturnStep
  <2>5. CASE Complete
    BY <2>5, CompleteStep
  <2>6. CASE UNCHANGED vars
    BY <2>6 DEF vars, IInv, Writing, Reading, Nodes
  <2> QED
    BY <2>1, <2>2, <2>3, <2>4, <2>5, <2>6 DEF Next
<1> QED
  BY <1>1, <1>2, PTL DEF Spec

(* In every reachable state the document, what was read of it, the calls   *)
(* and the contexts fit together: JsonSerializer never runs out of         *)
(* contexts, and what SerializationReferenceCache holds of an object is    *)
(* complete exactly when there is one.                                     *)
THEOREM TypeCorrect == Spec => []TypeOK
<1>1. IInv => TypeOK
  <2> SUFFICES ASSUME IInv PROVE TypeOK
    OBVIOUS
  <2>1. phase = "serialize" => contexts # <<>> /\ frames # <<>>
    BY WritingAt DEF Writing
  <2>2. phase = "deserialize" => contexts # <<>> /\ frames # <<>>
    BY ReadingAt DEF Reading
  <2>3. ASSUME phase = "deserialize", NEW i \in DOMAIN contexts, NEW known \in Range(contexts[i].map)
        PROVE  /\ known.object \in DOMAIN value \cup {NULL}
               /\ known.complete <=> known.object # NULL
    <3>1. contexts \in Seq(Contexts(Positions, Known(DOMAIN value)))
      BY <2>3, ReadingAt DEF Reading
    <3>2. contexts[i] \in Contexts(Positions, Known(DOMAIN value))
      BY <3>1, ElementOfSeq, LenProperties
    <3>3. contexts[i].map \in Maps(Positions, Known(DOMAIN value))
      BY <3>2 DEF Contexts
    <3>4. known \in Known(DOMAIN value)
      BY <3>3, <2>3 DEF Maps, Range
    <3> QED
      BY <3>4 DEF Known
  <2>4. \A p \in DOMAIN json : json[p].kind \in Kinds \cup {"marker"}
    BY DEF IInv, IsDocument
  <2> QED
    BY <2>1, <2>2, <2>3, <2>4 DEF TypeOK, IInv
<1> QED
  BY <1>1, Invariant, PTL

(* AutoSerializer, the list serializers and DictionarySerializer push and  *)
(* pop CurrentLocation in pairs while they read: in the outermost context  *)
(* it is where the value being read stands in the document, for every      *)
(* document and every nesting.                                             *)
THEOREM LocationsPaired == Spec => []LocationIsPosition
<1>1. IInv => LocationIsPosition
  <2> SUFFICES ASSUME IInv, phase = "deserialize", Len(contexts) = 1
               PROVE contexts[1].location = Top(frames).at
    BY DEF LocationIsPosition
  <2>1. /\ Reading /\ Len(frames) \in Nat \ {0} /\ Top(frames) = frames[Len(frames)]
    BY ReadingAt
  <2>2. Nested(frames, json) = {}
    BY <2>1, Alone DEF Reading
  <2> HIDE DEF Nested
  <2> QED
    BY <2>1, <2>2 DEF Reading, Located
<1> QED
  BY <1>1, Invariant, PTL

------------------------------------------------------------------------------
(* Markers. The path p leads from the root of g to n.                      *)
Leads(g, p, n) ==
  \E f \in [0 .. Len(p) -> DOMAIN g.kind] :
    /\ f[0] = g.root /\ f[Len(p)] = n
    /\ \A i \in 1 .. Len(p) : \E j \in DOMAIN g.members[f[i - 1]] :
         g.members[f[i - 1]][j].name = p[i] /\ g.members[f[i - 1]][j].value = f[i]

(* At l an object is written, one of those for which equal gives e.        *)
Stands(g, d, l, e) ==
  /\ l \in DOMAIN d /\ d[l].kind = "object"
  /\ \E n \in DOMAIN g.kind : Leads(g, l, n) /\ g.equal[n] = e

(* Every position is in another, and markers point to what is equal.       *)
Pointed(g, d) ==
  /\ \A p \in DOMAIN d : p # <<>> => Front(p) \in DOMAIN d
  /\ \A p \in DOMAIN d : d[p].kind = "marker" =>
       \E n \in DOMAIN g.kind : Leads(g, p, n) /\ Stands(g, d, d[p].ref, g.equal[n])

(* The members written of the value in a frame are those before its next.  *)
WrittenBefore(g, d, f) ==
  \A name \in STRING : Append(f.at, name) \in DOMAIN d =>
    \E j \in 1 .. f.next - 1 : g.members[f.node][j].name = name

Placed ==
  /\ \A i \in 1 .. Len(frames) : /\ Leads(graph, frames[i].at, frames[i].node)
                                 /\ WrittenBefore(graph, json, frames[i])
  /\ Top(contexts).location = Top(frames).at
  /\ \A e \in DOMAIN Top(contexts).map : Stands(graph, json, Top(contexts).map[e], e)

Simple == graph # NULL /\ Range(graph.kind) \subseteq {"object", "list"}

MarkersInv ==
  Simple => /\ phase \in {"serialize", "deserialize"} => Pointed(graph, json)
            /\ phase = "serialize" => Placed

(* The root is where the empty path leads; a member is where a path leads  *)
(* that has its name at the end.                                           *)
LEMMA LeadsFrom ==
  ASSUME NEW g, IsGraph(g)
  PROVE  Leads(g, <<>>, g.root)
<1> DEFINE f == [i \in 0 .. 0 |-> g.root]
<1>1. Len(<<>>) = 0
  BY EmptySeq
<1>2. g.root \in DOMAIN g.kind
  BY DEF IsGraph
<1>3. f \in [0 .. 0 -> DOMAIN g.kind] /\ f[0] = g.root
  BY <1>2
<1> DEFINE k == Len(<<>>)
<1>4. k = 0
  BY <1>1
<1> HIDE DEF f, k
<1>5. f \in [0 .. k -> DOMAIN g.kind] /\ f[0] = g.root /\ f[k] = g.root /\ 1 .. k = {}
  BY <1>3, <1>4
<1> QED
  BY <1>5 DEF Leads, k

LEMMA LeadsOn ==
  ASSUME NEW g, IsGraph(g), NEW p \in Positions, NEW n \in DOMAIN g.kind, Leads(g, p, n),
         NEW j \in DOMAIN g.members[n], NEW name, name = g.members[n][j].name, name \in STRING,
         NEW v, v = g.members[n][j].value, v \in DOMAIN g.kind
  PROVE  Leads(g, Append(p, name), v)
<1> DEFINE k == Len(p)
           q == Append(p, name)
<1>1. PICK f \in [0 .. k -> DOMAIN g.kind] :
        /\ f[0] = g.root /\ f[k] = n
        /\ \A i \in 1 .. k : \E h \in DOMAIN g.members[f[i - 1]] :
             g.members[f[i - 1]][h].name = p[i] /\ g.members[f[i - 1]][h].value = f[i]
  BY DEF Leads
<1>2. k \in Nat /\ Len(q) = k + 1 /\ (\A i \in 1 .. k : q[i] = p[i]) /\ q[k + 1] = name
  BY FrontOfAppend, LenProperties DEF Positions
<1> DEFINE f2 == [i \in 0 .. k + 1 |-> IF i = k + 1 THEN v ELSE f[i]]
<1> HIDE DEF k, q
<1>3. f2 \in [0 .. k + 1 -> DOMAIN g.kind]
  BY <1>1, <1>2
<1>4. f2[0] = g.root /\ f2[k + 1] = v /\ \A i \in 0 .. k : f2[i] = f[i]
  BY <1>1, <1>2
<1> HIDE DEF f2
<1>5. ASSUME NEW i \in 1 .. k + 1
      PROVE  \E h \in DOMAIN g.members[f2[i - 1]] :
               g.members[f2[i - 1]][h].name = q[i] /\ g.members[f2[i - 1]][h].value = f2[i]
  <2>1. CASE i = k + 1
    <3>1. f2[i - 1] = n /\ q[i] = name /\ f2[i] = v
      BY <1>1, <1>2, <1>4, <2>1
    <3> QED
      BY <3>1
  <2>2. CASE i # k + 1
    <3>1. i \in 1 .. k /\ i - 1 \in 0 .. k /\ i \in 0 .. k
      BY <1>2, <2>2
    <3>2. f2[i - 1] = f[i - 1] /\ f2[i] = f[i] /\ q[i] = p[i]
      BY <1>2, <1>4, <3>1
    <3> QED
      BY <1>1, <3>1, <3>2
  <2> QED
    BY <2>1, <2>2
<1> DEFINE N == Len(q)
<1>6. N = k + 1
  BY <1>2
<1> HIDE DEF N
<1>7. /\ f2 \in [0 .. N -> DOMAIN g.kind] /\ f2[0] = g.root /\ f2[N] = v
      /\ \A i \in 1 .. N : \E h \in DOMAIN g.members[f2[i - 1]] :
           g.members[f2[i - 1]][h].name = q[i] /\ g.members[f2[i - 1]][h].value = f2[i]
  BY <1>3, <1>4, <1>5, <1>6
<1>8. Leads(g, q, v)
  BY <1>7 DEF Leads, N
<1> QED
  BY <1>8 DEF q

(* A path leads to one object only, the one that Origin gives.             *)
LEMMA OriginFound ==
  ASSUME IsGraph(graph), NULL \notin Nodes, NEW p \in Positions, NEW n \in Nodes, Leads(graph, p, n)
  PROVE  Origin(p) = n
<1> DEFINE k == Len(p)
           Step(i, v) == IF v = NULL THEN NULL ELSE GraphStep(v, p[i])
           Body(g) == [i \in 0 .. k |-> IF i = 0 THEN graph.root ELSE Step(i, g[i - 1])]
           reached == CHOOSE g : g = Body(g)
<1>1. PICK f \in [0 .. k -> Nodes] :
        /\ f[0] = graph.root /\ f[k] = n
        /\ \A i \in 1 .. k : \E h \in DOMAIN graph.members[f[i - 1]] :
             graph.members[f[i - 1]][h].name = p[i] /\ graph.members[f[i - 1]][h].value = f[i]
  BY DEF Leads, Nodes
<1>2. Origin(p) = reached[k]
  BY Zenon DEF Origin, Walk
<1>3. k \in Nat
  BY LenProperties DEF Positions
<1>4. ASSUME NEW i \in 1 .. k PROVE f[i] = Step(i, f[i - 1])
  <2>1. i - 1 \in 0 .. k /\ f[i - 1] \in Nodes /\ f[i - 1] # NULL
    BY <1>1, <1>3
  <2> DEFINE node == f[i - 1]
             ms == graph.members[node]
             named == {h \in DOMAIN ms : ms[h].name = p[i]}
  <2>2. PICK h \in DOMAIN ms : ms[h].name = p[i] /\ ms[h].value = f[i]
    BY <1>1
  <2>3. \A x \in named : x = h
    BY <2>1, <2>2 DEF IsGraph, Nodes
  <2>4. named # {} /\ (CHOOSE x \in named : TRUE) = h
    BY <2>2, <2>3
  <2>5. GraphStep(node, p[i]) = ms[CHOOSE x \in named : TRUE].value
    BY <2>4 DEF GraphStep
  <2> QED
    BY <2>1, <2>2, <2>4, <2>5
<1> HIDE DEF k, Step, Body, reached
<1>5. f = Body(f)
  BY <1>1, <1>3, <1>4 DEF Body
<1>6. reached = Body(reached)
  BY <1>5, Zenon DEF reached
<1>7. reached[0] = graph.root /\ \A i \in 1 .. k : reached[i] = Step(i, reached[i - 1])
  BY <1>3, <1>6 DEF Body
<1>8. 0 .. k \subseteq {i \in 0 .. k : reached[i] = f[i]}
  <2> DEFINE Z == {i \in 0 .. k : reached[i] = f[i]}
  <2>1. 0 \in Z
    BY <1>1, <1>3, <1>7
  <2>2. \A i \in 1 .. k : i - 1 \in Z => i \in Z
    BY <1>4, <1>7
  <2> HIDE DEF Z
  <2>3. 0 .. k \subseteq Z
    BY <1>3, <2>1, <2>2, Upwards
  <2> QED
    BY <2>3 DEF Z
<1> QED
  BY <1>1, <1>2, <1>3, <1>8

------------------------------------------------------------------------------
(* What a step of writing leaves as it was.                                *)
LEMMA StandsStill ==
  ASSUME NEW g, NEW d, NEW d2, NEW at, DOMAIN d2 = DOMAIN d \cup {at}, at \notin DOMAIN d,
         \A q \in DOMAIN d : q # at => d2[q].kind = d[q].kind,
         NEW l, NEW e, Stands(g, d, l, e)
  PROVE  Stands(g, d2, l, e)
BY DEF Stands

LEMMA PointedGrows ==
  ASSUME NEW g, NEW d, IsDocument(d), Pointed(g, d), NEW p \in DOMAIN d, NEW name, NEW at, NEW node, NEW d2,
         GrownBy(d, p, name, at, node, d2), at \notin DOMAIN d,
         node.kind = "marker" =>
           \E n \in DOMAIN g.kind : Leads(g, at, n) /\ Stands(g, d, node.ref, g.equal[n])
  PROVE  Pointed(g, d2)
<1>1. /\ DOMAIN d2 = DOMAIN d \cup {at} /\ Front(at) = p /\ d2[at] = node
      /\ d2[p] = Listed(d, p, name)
      /\ \A q \in DOMAIN d : q # p /\ q # at => d2[q] = d[q]
      /\ \A q \in DOMAIN d : q # at => d2[q].kind = d[q].kind
  BY DEF GrownBy
<1>2. d2[p].kind = d[p].kind /\ d2[p].ref = d[p].ref
  <2>1. d[p] \in [kind : Kinds \cup {"marker"}, members : Seq(STRING), ref : Positions \cup {NULL}]
    BY DEF IsDocument
  <2> QED
    BY <1>1, <2>1 DEF Listed
<1>3. \A q \in DOMAIN d2 : q # <<>> => Front(q) \in DOMAIN d2
  BY <1>1 DEF Pointed
<1>4. ASSUME NEW q \in DOMAIN d2, d2[q].kind = "marker"
      PROVE  \E n \in DOMAIN g.kind : Leads(g, q, n) /\ Stands(g, d2, d2[q].ref, g.equal[n])
  <2>1. \A l, e : Stands(g, d, l, e) => Stands(g, d2, l, e)
    BY <1>1, StandsStill
  <2>2. CASE q = at
    BY <1>1, <1>4, <2>1, <2>2
  <2>3. CASE q # at
    <3>1. q \in DOMAIN d /\ d[q].kind = "marker" /\ d2[q].ref = d[q].ref
      BY <1>1, <1>2, <1>4, <2>3
    <3>2. \E n \in DOMAIN g.kind : Leads(g, q, n) /\ Stands(g, d, d[q].ref, g.equal[n])
      BY <3>1 DEF Pointed
    <3> QED
      BY <2>1, <3>1, <3>2
  <2> QED
    BY <2>2, <2>3
<1> QED
  BY <1>3, <1>4 DEF Pointed

(* The innermost context, when no context is nested.                       *)
LEMMA Entered ==
  ASSUME NEW K, NEW R, contexts \in Seq(Contexts(K, R)), contexts # <<>>,
         NEW kind \in {"object", "list"}, NEW name \in STRING
  PROVE  LET entered == Enter(kind, name)
         IN /\ entered \in Seq(Contexts(K, R)) /\ entered # <<>> /\ Len(entered) = Len(contexts)
            /\ Top(entered).location = Append(Top(contexts).location, name)
            /\ Top(entered).map = Top(contexts).map
<1> DEFINE c == [Top(contexts) EXCEPT !.location = Append(@, name)]
           C == Contexts(K, R)
<1>1. Top(contexts) \in C
  BY TopTyped
<1>2. c \in C /\ c.location = Append(Top(contexts).location, name) /\ c.map = Top(contexts).map
  <2>1. Append(Top(contexts).location, name) \in Positions
    BY <1>1, FrontOfAppend DEF Contexts, Positions
  <2> QED
    BY <1>1, <2>1 DEF Contexts
<1>3. Enter(kind, name) = SetTop(contexts, c)
  BY DEF Enter
<1> HIDE DEF c, C
<1>4. /\ SetTop(contexts, c) \in Seq(C) /\ Len(SetTop(contexts, c)) = Len(contexts)
      /\ Top(SetTop(contexts, c)) = c /\ SetTop(contexts, c) # <<>>
  BY <1>2, SetTopTyped DEF C
<1> QED
  BY <1>2, <1>3, <1>4 DEF C

LEMMA Left ==
  ASSUME NEW K, NEW R, NEW cs \in Seq(Contexts(K, R)), cs # <<>>, NEW kind \in {"object", "list"}
  PROVE  LET left == LeaveWritten(cs, kind)
         IN /\ Len(left) = Len(cs)
            /\ Top(left).location = Front(Top(cs).location)
            /\ Top(left).map = Top(cs).map
<1> DEFINE c == [Top(cs) EXCEPT !.location = Front(@)]
           C == Contexts(K, R)
<1>1. Top(cs) \in C
  BY TopTyped
<1>2. c \in C /\ c.location = Front(Top(cs).location) /\ c.map = Top(cs).map
  <2>1. Front(Top(cs).location) \in Positions
    BY <1>1, FrontTyped DEF Contexts, Positions
  <2> QED
    BY <1>1, <2>1 DEF Contexts
<1>3. LeaveWritten(cs, kind) = SetTop(cs, c)
  BY DEF LeaveWritten
<1> HIDE DEF c, C
<1>4. Len(SetTop(cs, c)) = Len(cs) /\ Top(SetTop(cs, c)) = c
  BY <1>2, SetTopTyped DEF C
<1> QED
  BY <1>2, <1>3, <1>4

LEMMA AdvanceNext ==
  ASSUME NEW N, NEW X, NEW fs \in Seq(Frames(N, X)), fs # <<>>
  PROVE  /\ \A i \in 1 .. Len(fs) - 1 : Advance(fs)[i] = fs[i]
         /\ Advance(fs)[Len(fs)].next = fs[Len(fs)].next + 1
<1> DEFINE F == Frames(N, X)
           f == [Top(fs) EXCEPT !.next = @ + 1]
<1>1. Len(fs) \in Nat \ {0} /\ Top(fs) \in F /\ Top(fs) = fs[Len(fs)]
  BY TopTyped
<1>2. f \in F /\ f.next = fs[Len(fs)].next + 1
  BY <1>1 DEF Frames
<1> HIDE DEF F, f
<1>3. \A i \in 1 .. Len(fs) : SetTop(fs, f)[i] = IF i = Len(fs) THEN f ELSE fs[i]
  BY <1>2, SetTopTyped DEF F
<1> DEFINE n == Len(fs)
<1>4. n \in Nat \ {0} /\ \A i \in 1 .. n : SetTop(fs, f)[i] = IF i = n THEN f ELSE fs[i]
  BY <1>1, <1>3
<1> HIDE DEF n
<1>5. (\A i \in 1 .. n - 1 : SetTop(fs, f)[i] = fs[i]) /\ SetTop(fs, f)[n] = f
  BY <1>4
<1> QED
  BY <1>2, <1>5 DEF Advance, f, n

LEMMA CallNext ==
  ASSUME NEW N, NEW X, NEW fs \in Seq(Frames(N, X)), fs # <<>>, NEW node \in N, NEW at \in X
  PROVE  LET called == Called(fs, node, at)
         IN /\ \A i \in 1 .. Len(fs) - 1 : called[i] = fs[i]
            /\ called[Len(fs)].next = fs[Len(fs)].next + 1
            /\ called[Len(fs) + 1].next = 1
<1> DEFINE a == Advance(fs)
           e == Frame(node, at)
           n == Len(fs)
           called == Append(a, e)
<1>1. e \in Frames(N, X) /\ e.next = 1
  BY DEF Frame, Frames
<1>2. /\ a \in Seq(Frames(N, X)) /\ Len(a) = n /\ n \in Nat \ {0}
      /\ \A i \in 1 .. n - 1 : a[i] = fs[i]
      /\ a[n].next = fs[n].next + 1
  BY AdvanceTyped, AdvanceNext, TopTyped
<1> HIDE DEF a, e, n
<1>3. /\ \A i \in 1 .. n : called[i] = a[i]
      /\ called[n + 1] = e
  BY <1>1, <1>2, FrontOfAppend
<1> HIDE DEF called
<1>4. /\ \A i \in 1 .. n - 1 : called[i] = fs[i]
      /\ called[n].next = fs[n].next + 1
      /\ called[n + 1].next = 1
  BY <1>1, <1>2, <1>3
<1> QED
  BY <1>4 DEF called, a, e, n, Called

LEMMA MarkersMemberStep ==
  ASSUME IInv, MarkersInv, Simple, SerializeMember, phase' = "serialize"
  PROVE  Pointed(graph', json') /\ Placed'
<1> DEFINE n == Len(frames)
           f == Top(frames)
           kind == graph.kind[f.node]
           m == graph.members[f.node][f.next]
           at == Append(f.at, m.name)
           entered == Enter(kind, m.name)
           c == Top(entered)
           equal == graph.equal[m.value]
           C == Contexts(Nodes, Positions)
           marker == Marker(c.map[equal])
           plain == Node(graph.kind[m.value])
           tracked == Tracked(graph.kind[m.value])
<1>1. /\ phase = "serialize" /\ f.next <= Len(graph.members[f.node]) /\ n < MaxFrames /\ graph' = graph
      /\ \/ /\ tracked /\ equal \in DOMAIN c.map
            /\ json' = Grown(json, f.at, m.name, marker)
            /\ contexts' = LeaveWritten(entered, kind)
            /\ frames' = Advance(frames)
         \/ /\ json' = Grown(json, f.at, m.name, plain)
            /\ contexts' = IF tracked THEN SetTop(entered, [c EXCEPT !.map = With(@, equal, c.location)])
                                      ELSE entered
            /\ frames' = Called(frames, m.value, at)
  BY Zenon DEF SerializeMember, Grown, Listed, Called
<1>2. /\ Writing /\ IsGraph(graph) /\ n \in Nat \ {0} /\ f = frames[n]
      /\ \A i \in 1 .. n : frames[i].at \in DOMAIN json /\ frames[i].node \in Nodes
      /\ f.next \in Nat \ {0} /\ contexts # <<>>
  BY <1>1, WritingAt
<1>3. /\ f.node \in Nodes /\ f.next \in DOMAIN graph.members[f.node]
      /\ m.name \in STRING /\ m.value \in Nodes /\ graph.kind[m.value] \in Kinds /\ equal \in Nodes
  <2> HIDE DEF f
  <2>1. f.node \in Nodes
    BY <1>2
  <2> QED
    BY <1>1, <1>2, <2>1, MemberWritten DEF Nodes
<1>4. /\ f.at \in DOMAIN json /\ f.at \in Positions /\ Len(f.at) = n - 1 /\ Len(f.at) + 1 < MaxFrames
      /\ \A i \in 1 .. n : Len(frames[i].at) = i - 1 /\ frames[i].at \in Positions
  <2>1. /\ \A i \in 1 .. n : Len(frames[i].at) = i - 1
        /\ f.at \in DOMAIN json /\ DOMAIN json \subseteq Positions
    BY <1>2 DEF Writing, Stacked, IInv, IsDocument
  <2>2. Len(f.at) = n - 1
    BY <1>2, <2>1
  <2>3. Len(f.at) + 1 < MaxFrames
    <3>1. n \in Nat \ {0} /\ n < MaxFrames
      BY <1>1, <1>2
    <3> HIDE DEF n, f
    <3> QED
      BY <2>2, <3>1, BoundsAssumption
  <2> QED
    BY <1>2, <2>1, <2>2, <2>3
<1>5. /\ \A i \in 1 .. n : /\ Leads(graph, frames[i].at, frames[i].node)
                           /\ WrittenBefore(graph, json, frames[i])
      /\ Top(contexts).location = f.at
      /\ \A e \in DOMAIN Top(contexts).map : Stands(graph, json, Top(contexts).map[e], e)
      /\ Pointed(graph, json)
  BY <1>1 DEF MarkersInv, Placed
<1>6. \A k \in Nodes : graph.kind[k] \in {"object", "list"}
  BY DEF Simple, Range, Nodes
<1>7. Leads(graph, at, m.value)
  <2>1. Leads(graph, f.at, f.node)
    BY <1>2, <1>5
  <2> DEFINE p == f.at
             k == f.node
             j == f.next
             name == m.name
             v == m.value
  <2>2. /\ p \in Positions /\ k \in DOMAIN graph.kind /\ Leads(graph, p, k) /\ j \in DOMAIN graph.members[k]
        /\ name = graph.members[k][j].name /\ name \in STRING
        /\ v = graph.members[k][j].value /\ v \in DOMAIN graph.kind
    BY <1>3, <1>4, <2>1 DEF Nodes
  <2>3. at = Append(p, name)
    OBVIOUS
  <2> HIDE DEF p, k, j, name, v, at
  <2>4. Leads(graph, at, v)
    BY <1>2, <2>2, <2>3, LeadsOn
  <2> QED
    BY <2>4 DEF v
<1>8. at \notin DOMAIN json
  <2> SUFFICES ASSUME at \in DOMAIN json PROVE FALSE
    OBVIOUS
  <2>1. WrittenBefore(graph, json, f)
    BY <1>2, <1>5
  <2>2. PICK j \in 1 .. f.next - 1 : graph.members[f.node][j].name = m.name
    BY <1>3, <2>1 DEF WrittenBefore
  <2> DEFINE ms == graph.members[f.node]
             k == f.next
  <2>3. ms \in Seq([name : STRING, value : DOMAIN graph.kind])
    BY <1>2, <1>3 DEF IsGraph, Nodes
  <2>4. k \in DOMAIN ms /\ DOMAIN ms = 1 .. Len(ms) /\ Len(ms) \in Nat
    BY <1>3, <2>3, LenProperties
  <2>5. \A a, b \in DOMAIN ms : ms[a].name = ms[b].name => a = b
    BY <1>2, <1>3 DEF IsGraph, Nodes
  <2>6. j \in 1 .. k - 1 /\ ms[j].name = ms[k].name
    BY <2>2
  <2> HIDE DEF ms, k
  <2>7. j \in DOMAIN ms /\ j # k
    BY <2>4, <2>6
  <2> QED
    BY <2>4, <2>5, <2>6, <2>7
<1> HIDE DEF f, m, at, kind, equal
<1>9. kind \in {"object", "list"} /\ (tracked => graph.kind[m.value] = "object")
  BY <1>3, <1>6 DEF kind, Tracked
<1>10. /\ entered \in Seq(C) /\ entered # <<>> /\ c \in C
       /\ c.location = at /\ c.map = Top(contexts).map
  <2>1. contexts \in Seq(C)
    BY <1>2 DEF Writing
  <2>2. /\ entered \in Seq(C) /\ entered # <<>>
        /\ c.location = Append(Top(contexts).location, m.name) /\ c.map = Top(contexts).map
    BY <1>2, <1>3, <1>9, <2>1, Entered
  <2>3. c \in C
    <3> HIDE DEF entered
    <3> QED
      BY <2>2, TopTyped
  <2> QED
    BY <1>5, <2>2, <2>3 DEF at
<1>11. ASSUME NEW node \in {marker, plain}, json' = Grown(json, f.at, m.name, node),
              node \in Values, node.members = <<>>,
              node.kind = "marker" =>
                node.ref \in Positions /\ Stands(graph, json, node.ref, graph.equal[m.value])
       PROVE  /\ Pointed(graph, json') /\ DOMAIN json' = DOMAIN json \cup {at} /\ json'[at] = node
              /\ \A l, e : Stands(graph, json, l, e) => Stands(graph, json', l, e)
  <2> DEFINE p == f.at
             name == m.name
             d2 == Grown(json, p, name, node)
  <2>1. /\ IsDocument(json) /\ p \in DOMAIN json /\ name \in STRING /\ at = Append(p, name) /\ p \in Seq(STRING)
        /\ Len(p) + 1 < MaxFrames
    BY <1>3, <1>4 DEF IInv, at, Positions
  <2>2. node.kind = "marker" => \E k \in DOMAIN graph.kind : Leads(graph, at, k) /\ Stands(graph, json, node.ref, graph.equal[k])
    BY <1>3, <1>7, <1>11 DEF Nodes
  <2>3. /\ node \in Values /\ node.members = <<>> /\ (node.kind = "marker" => node.ref \in Positions)
        /\ json' = d2
    BY <1>11
  <2> HIDE DEF marker, plain, n, entered, c, C, tracked, d2, p, name
  <2>4. Len(Append(p, name)) < MaxFrames
    BY <2>1, AppendProperties
  <2>5. GrownBy(json, p, name, at, node, d2)
    BY <2>1, <2>3, <2>4, DocumentGrows DEF d2
  <2>6. Pointed(graph, d2)
    BY <1>5, <1>8, <2>1, <2>2, <2>5, PointedGrows
  <2>7. /\ DOMAIN d2 = DOMAIN json \cup {at} /\ d2[at] = node
        /\ \A q \in DOMAIN json : q # at => d2[q].kind = json[q].kind
    BY <2>5 DEF GrownBy
  <2>8. \A l, e : Stands(graph, json, l, e) => Stands(graph, d2, l, e)
    BY <1>8, <2>7, StandsStill
  <2> QED
    BY <2>3, <2>6, <2>7, <2>8
(* What has been written of the values whose members are being written.   *)
<1>12. ASSUME DOMAIN json' = DOMAIN json \cup {at}, NEW g2, NEW k \in 1 .. n,
              g2.at = frames[k].at, g2.node = frames[k].node,
              k # n => g2.next = frames[k].next, k = n => g2.next = frames[k].next + 1
       PROVE  WrittenBefore(graph, json', g2)
  <2> SUFFICES ASSUME NEW name \in STRING, Append(g2.at, name) \in DOMAIN json'
               PROVE  \E j \in 1 .. g2.next - 1 : graph.members[g2.node][j].name = name
    BY DEF WrittenBefore
  <2>1. frames[k].next \in Nat \ {0}
    <3>1. frames \in Seq(Frames(Nodes, DOMAIN json)) /\ frames # <<>>
      BY <1>2 DEF Writing
    <3>2. frames[k] \in Frames(Nodes, DOMAIN json)
      BY <3>1, ElementOfSeq
    <3> QED
      BY <3>2 DEF Frames
  <2>2. CASE Append(g2.at, name) \in DOMAIN json
    <3>1. PICK j \in 1 .. frames[k].next - 1 : graph.members[frames[k].node][j].name = name
      BY <1>5, <1>12, <2>2 DEF WrittenBefore
    <3>2. j \in 1 .. g2.next - 1
      BY <1>12, <2>1
    <3> QED
      BY <1>12, <3>1, <3>2
  <2>3. CASE Append(g2.at, name) = at
    <3>1. Front(Append(g2.at, name)) = g2.at /\ Len(Append(g2.at, name)) = Len(g2.at) + 1
          /\ Append(g2.at, name)[Len(g2.at) + 1] = name
      BY <1>4, <1>12, FrontOfAppend DEF Positions
    <3>2. Front(at) = f.at /\ at[Len(f.at) + 1] = m.name
      BY <1>3, <1>4, FrontOfAppend DEF Positions, at
    <3>3. g2.at = f.at /\ name = m.name
      BY <2>3, <3>1, <3>2
    <3>4. k = n
      <4>1. k - 1 = n - 1
        BY <1>4, <1>12, <3>3
      <4> QED
        BY <1>2, <4>1
    <3>5. f.next \in 1 .. g2.next - 1 /\ g2.node = f.node
      BY <1>2, <1>12, <2>1, <3>4
    <3> QED
      BY <3>3, <3>5 DEF m
  <2> QED
    BY <1>12, <2>2, <2>3
<1>13. CASE /\ tracked /\ equal \in DOMAIN c.map
            /\ json' = Grown(json, f.at, m.name, marker)
            /\ contexts' = LeaveWritten(entered, kind)
            /\ frames' = Advance(frames)
  <2>1. /\ marker \in Values /\ marker.members = <<>> /\ marker.ref = c.map[equal] /\ marker.kind = "marker"
        /\ marker.ref \in Positions /\ Stands(graph, json, marker.ref, equal)
    <3>1. c.map[equal] \in Positions
      BY <1>10, <1>13 DEF Contexts, Maps
    <3>2. <<>> \in Seq(STRING)
      BY EmptySeq
    <3>3. Stands(graph, json, c.map[equal], equal)
      BY <1>5, <1>10, <1>13
    <3> QED
      BY <3>1, <3>2, <3>3 DEF Marker, Values
  <2>2. /\ Pointed(graph, json') /\ DOMAIN json' = DOMAIN json \cup {at}
        /\ \A l, e : Stands(graph, json, l, e) => Stands(graph, json', l, e)
    BY <1>11, <1>13, <2>1 DEF equal
  <2>3. /\ frames' # <<>> /\ Len(frames') = n /\ frames' \in Seq(Frames(Nodes, DOMAIN json))
        /\ \A i \in 1 .. n : frames'[i].at = frames[i].at /\ frames'[i].node = frames[i].node
        /\ \A i \in 1 .. n - 1 : frames'[i] = frames[i]
        /\ frames'[n].next = frames[n].next + 1
    <3>1. frames \in Seq(Frames(Nodes, DOMAIN json)) /\ frames # <<>>
      BY <1>2 DEF Writing
    <3>2. frames' = Advance(frames)
      BY <1>13
    <3> HIDE DEF entered, c, C, plain, marker, tracked
    <3> QED
      BY <3>1, <3>2, AdvanceTyped, AdvanceNext
  <2>4. ASSUME NEW i \in 1 .. n
        PROVE  /\ Leads(graph, frames'[i].at, frames'[i].node)
               /\ WrittenBefore(graph, json', frames'[i])
    <3>1. i # n => i \in 1 .. n - 1
      BY <1>2
    <3>2. i # n => frames'[i].next = frames[i].next
      BY <2>3, <3>1
    <3> QED
      BY <1>5, <1>12, <2>2, <2>3, <3>2
  <2>5. Top(contexts').location = f.at /\ Top(contexts').map = c.map
    <3>1. Front(at) = f.at
      BY <1>3, <1>4, FrontOfAppend DEF Positions, at
    <3>2. entered \in Seq(C) /\ entered # <<>> /\ Top(entered).location = at
      BY <1>10
    <3> HIDE DEF entered
    <3> QED
      BY <1>9, <1>13, <3>1, <3>2, Left
  <2>6. Top(frames').at = f.at
    BY <1>2, <2>3 DEF Top
  <2>7. \A e \in DOMAIN Top(contexts').map : Stands(graph, json', Top(contexts').map[e], e)
    BY <1>5, <1>10, <2>2, <2>5
  <2> QED
    BY <1>1, <2>2, <2>3, <2>4, <2>5, <2>6, <2>7 DEF Placed
<1>14. CASE /\ json' = Grown(json, f.at, m.name, plain)
            /\ contexts' = IF tracked THEN SetTop(entered, [c EXCEPT !.map = With(@, equal, c.location)])
                                      ELSE entered
            /\ frames' = Called(frames, m.value, at)
  <2> DEFINE c2 == [c EXCEPT !.map = With(@, equal, c.location)]
  <2>1. plain \in Values /\ plain.members = <<>> /\ plain.kind # "marker" /\ plain.kind = graph.kind[m.value]
    <3>1. <<>> \in Seq(STRING)
      BY EmptySeq
    <3> QED
      BY <1>3, <3>1 DEF Node, Values, Kinds
  <2>2. /\ Pointed(graph, json') /\ DOMAIN json' = DOMAIN json \cup {at} /\ json'[at] = plain
        /\ \A l, e : Stands(graph, json, l, e) => Stands(graph, json', l, e)
    BY <1>11, <1>14, <2>1
  <2>3. frames \in Seq(Frames(Nodes, DOMAIN json')) /\ frames # <<>> /\ at \in DOMAIN json'
    BY <1>2, <2>2, FramesGrow DEF Writing
  <2>4. /\ frames' # <<>> /\ Len(frames') = n + 1
        /\ \A i \in 1 .. n : frames'[i].at = frames[i].at /\ frames'[i].node = frames[i].node
        /\ \A i \in 1 .. n - 1 : frames'[i] = frames[i]
        /\ frames'[n].next = frames[n].next + 1
        /\ frames'[n + 1].at = at /\ frames'[n + 1].node = m.value
    <3>1. frames' = Called(frames, m.value, at) /\ m.value \in Nodes
      BY <1>3, <1>14
    <3> HIDE DEF entered, c, plain, marker, tracked
    <3> QED
      BY <2>3, <3>1, CallTyped, CallNext
  <2>5. ASSUME NEW i \in 1 .. n
        PROVE  /\ Leads(graph, frames'[i].at, frames'[i].node)
               /\ WrittenBefore(graph, json', frames'[i])
    <3>1. i # n => i \in 1 .. n - 1
      BY <1>2
    <3>2. i # n => frames'[i].next = frames[i].next
      BY <2>4, <3>1
    <3> QED
      BY <1>5, <1>12, <2>2, <2>4, <3>2
  <2>6. /\ Leads(graph, frames'[n + 1].at, frames'[n + 1].node)
        /\ WrittenBefore(graph, json', frames'[n + 1])
    <3>1. ASSUME NEW name \in STRING PROVE Append(at, name) \notin DOMAIN json'
      <4>1. at \in Seq(STRING)
        BY <1>3, <1>4, FrontOfAppend DEF Positions, at
      <4>2. Append(at, name) # <<>> /\ Front(Append(at, name)) = at /\ Append(at, name) # at
        BY <4>1, FrontOfAppend, LenProperties
      <4> QED
        BY <1>5, <1>8, <2>2, <4>2 DEF Pointed
    <3> QED
      BY <1>7, <2>4, <3>1 DEF WrittenBefore
  <2>7. Top(frames').at = at
    BY <1>2, <2>4 DEF Top
  <2>8. Stands(graph, json', at, equal) \/ ~ tracked
    <3>1. m.value \in DOMAIN graph.kind
      BY <1>3 DEF Nodes
    <3> QED
      BY <1>7, <1>9, <2>1, <2>2, <3>1 DEF Stands, equal
  <2>9. CASE tracked
    <3>1. /\ c2 \in C /\ c2.location = at
          /\ \A e \in DOMAIN c2.map : e # equal => e \in DOMAIN c.map /\ c2.map[e] = c.map[e]
          /\ c2.map[equal] = at
      <4>1. With(c.map, equal, c.location) \in Maps(Nodes, Positions)
        BY <1>3, <1>10, WithTyped DEF Contexts
      <4>2. c2 \in C /\ c2.map = With(c.map, equal, c.location) /\ c2.location = at
        BY <1>10, <4>1 DEF Contexts
      <4> HIDE DEF c2, c, C, entered
      <4>3. /\ \A e \in DOMAIN c2.map : e # equal => e \in DOMAIN c.map /\ c2.map[e] = c.map[e]
            /\ c2.map[equal] = at
        BY <1>10, <4>2 DEF With
      <4> QED
        BY <4>2, <4>3
    <3>2. Top(contexts') = c2
      <4>1. contexts' = SetTop(entered, c2)
        BY <1>14, <2>9
      <4> HIDE DEF c2, entered
      <4> QED
        BY <1>10, <3>1, <4>1, SetTopTyped
    <3> HIDE DEF c2, c, C, entered
    <3>3. \A e \in DOMAIN c2.map : Stands(graph, json', c2.map[e], e)
      BY <1>5, <1>10, <2>2, <2>8, <2>9, <3>1
    <3> QED
      BY <1>1, <2>2, <2>4, <2>5, <2>6, <2>7, <3>1, <3>2, <3>3, <1>2 DEF Placed
  <2>10. CASE ~ tracked
    <3>1. contexts' = entered /\ Top(contexts') = c
      BY <1>14, <2>10
    <3> HIDE DEF c, C, entered
    <3>2. \A e \in DOMAIN c.map : Stands(graph, json', c.map[e], e)
      BY <1>5, <1>10, <2>2
    <3> QED
      BY <1>1, <2>2, <2>4, <2>5, <2>6, <2>7, <3>1, <3>2, <1>2, <1>10 DEF Placed
  <2> QED
    BY <2>9, <2>10
<1> QED
  BY <1>1, <1>13, <1>14

LEMMA MarkersReturnStep ==
  ASSUME IInv, MarkersInv, Simple, SerializeReturn
  PROVE  Pointed(graph', json') /\ (phase' = "serialize" => Placed')
<1> DEFINE n == Len(frames)
           kind == graph.kind[frames[n - 1].node]
           C == Contexts(Nodes, Positions)
<1>1. /\ phase = "serialize" /\ UNCHANGED <<graph, json>>
      /\ \/ /\ n > 1 /\ frames' = Front(frames)
            /\ contexts' = LeaveWritten(contexts, kind)
         \/ phase' = "deserialize"
  BY DEF SerializeReturn
<1>2. /\ Writing /\ n \in Nat \ {0} /\ Top(frames) = frames[n] /\ contexts # <<>>
      /\ \A i \in 1 .. n : frames[i].node \in Nodes
  BY <1>1, WritingAt
<1>3. /\ \A i \in 1 .. n : /\ Leads(graph, frames[i].at, frames[i].node)
                           /\ WrittenBefore(graph, json, frames[i])
      /\ Top(contexts).location = Top(frames).at
      /\ \A e \in DOMAIN Top(contexts).map : Stands(graph, json, Top(contexts).map[e], e)
      /\ Pointed(graph, json)
  BY <1>1 DEF MarkersInv, Placed
<1>4. CASE n > 1 /\ frames' = Front(frames) /\ contexts' = LeaveWritten(contexts, kind)
  <2>1. n - 1 \in 1 .. n /\ n - 1 \in Nat \ {0} /\ n - 1 + 1 = n
    BY <1>2, <1>4
  <2>2. /\ Len(frames') = n - 1
        /\ \A i \in 1 .. n - 1 : frames'[i] = frames[i]
    <3>1. frames \in Seq(Frames(Nodes, DOMAIN json)) /\ frames # <<>>
      BY <1>2 DEF Writing
    <3> QED
      BY <1>4, <3>1, FrontTyped
  <2>3. kind \in {"object", "list"}
    BY <1>2, <2>1 DEF Simple, Range, Nodes
  <2>4. Top(contexts').location = Front(Top(contexts).location) /\ Top(contexts').map = Top(contexts).map
    <3>1. contexts \in Seq(C)
      BY <1>2 DEF Writing
    <3> HIDE DEF kind
    <3> QED
      BY <1>2, <1>4, <2>3, <3>1, Left
  <2>5. Front(Top(frames).at) = frames[n - 1].at
    <3>1. \A i \in 1 .. n - 1 : frames[i].at = Front(frames[i + 1].at)
      BY <1>2 DEF Writing, Stacked
    <3>2. n - 1 \in 1 .. n - 1
      BY <2>1
    <3>3. frames[n - 1].at = Front(frames[n - 1 + 1].at)
      BY <3>1, <3>2
    <3> QED
      BY <1>2, <2>1, <3>3
  <2>6. Top(frames').at = frames[n - 1].at
    BY <2>1, <2>2 DEF Top
  <2>7. \A i \in 1 .. n - 1 : i \in 1 .. n
    BY <1>2
  <2> QED
    BY <1>1, <1>3, <2>2, <2>4, <2>5, <2>6, <2>7 DEF Placed
<1>5. CASE phase' = "deserialize"
  BY <1>1, <1>3, <1>5
<1> QED
  BY <1>1, <1>4, <1>5

LEMMA MarkersInit ==
  ASSUME Init, IInv, Simple
  PROVE  Pointed(graph, json) /\ Placed
<1>1. PICK g \in Graphs : InitSerialize(g)
  BY DEF Init, InitDeserialize, Simple
<1> DEFINE m == [k \in {g.equal[g.root]} |-> <<>>]
<1>2. /\ graph = g /\ frames = <<Frame(g.root, <<>>)>>
      /\ contexts = <<[NewContext EXCEPT !.map = m]>>
      /\ json = [p \in {<<>>} |-> Node(g.kind[g.root])]
  BY <1>1 DEF InitSerialize
<1>3. IsGraph(graph) /\ graph.root \in DOMAIN graph.kind /\ graph.kind[graph.root] = "object"
  <2>1. IsGraph(graph)
    BY <1>2, GraphsAssumption
  <2>2. graph.kind[graph.root] \in {"object", "list"} /\ Tracked(graph.kind[graph.root])
    BY <2>1 DEF IsGraph, Simple, Range
  <2> QED
    BY <2>1, <2>2 DEF IsGraph, Tracked
<1>4. /\ Leads(graph, <<>>, graph.root)
      /\ DOMAIN json = {<<>>} /\ json[<<>>].kind = "object"
  BY <1>2, <1>3, LeadsFrom DEF Node
<1>5. Stands(graph, json, <<>>, graph.equal[graph.root])
  BY <1>3, <1>4 DEF Stands
<1>6. Pointed(graph, json)
  BY <1>4 DEF Pointed
<1>7. /\ Len(frames) = 1 /\ frames[1].at = <<>> /\ frames[1].node = graph.root /\ Top(frames) = frames[1]
  BY <1>2 DEF Frame, Top
<1>8. Top(contexts).location = <<>> /\ Top(contexts).map = m
  <2> HIDE DEF m
  <2> QED
    BY <1>2 DEF NewContext, Top
<1>9. ASSUME NEW e \in DOMAIN Top(contexts).map PROVE Stands(graph, json, Top(contexts).map[e], e)
  BY <1>2, <1>5, <1>8
<1>10. WrittenBefore(graph, json, frames[1])
  <2>1. ASSUME NEW name \in STRING PROVE Append(<<>>, name) # <<>>
    BY FrontOfAppend, EmptySeq
  <2> QED
    BY <1>4, <1>7, <2>1 DEF WrittenBefore
<1> QED
  BY <1>4, <1>6, <1>7, <1>8, <1>9, <1>10 DEF Placed

LEMMA MarkersHold == Spec => []MarkersInv
<1>1. Init /\ IInv => MarkersInv
  BY MarkersInit DEF MarkersInv
<1>2. IInv /\ MarkersInv /\ [Next]_vars => MarkersInv'
  <2> SUFFICES ASSUME IInv, MarkersInv, [Next]_vars, Simple'
               PROVE  /\ phase' \in {"serialize", "deserialize"} => Pointed(graph', json')
                      /\ phase' = "serialize" => Placed'
    BY DEF MarkersInv
  <2>1. graph' = graph /\ Simple
    BY DEF Next, vars, SerializeMember, SerializeReturn, DeserializeMember, DeserializeReturn, Complete, Simple
  <2>2. CASE SerializeMember
    <3>1. phase' \in {"serialize", "threw"}
      BY <2>2, Zenon DEF SerializeMember
    <3> QED
      BY <2>1, <2>2, <3>1, MarkersMemberStep
  <2>3. CASE SerializeReturn
    BY <2>1, <2>3, MarkersReturnStep
  <2>4. CASE DeserializeMember \/ DeserializeReturn \/ Complete
    <3>1. phase = "deserialize" /\ phase' # "serialize" /\ json' = json
      BY <2>4 DEF DeserializeMember, DeserializeReturn, Complete
    <3> QED
      BY <2>1, <3>1 DEF MarkersInv
  <2>5. CASE UNCHANGED vars
    BY <2>1, <2>5 DEF vars, MarkersInv, Placed, Pointed, Stands, WrittenBefore
  <2> QED
    BY <2>2, <2>3, <2>4, <2>5 DEF Next
<1> QED
  BY <1>1, <1>2, Invariant, PTL DEF Spec

(* In a graph of classes and lists only, of any size and with any cycles,  *)
(* every marker that ReferencingSerializer writes has the pointer of an    *)
(* object that is in the JSON, the one it stands for or one that equals    *)
(* it: the SerializationMap has no location that was left meanwhile.       *)
THEOREM MarkersCorrect == Spec => []MarkersPointHome
<1>1. IInv /\ MarkersInv => MarkersPointHome
  <2> SUFFICES ASSUME IInv, MarkersInv, graph # NULL, phase = "deserialize",
                      Range(graph.kind) \subseteq {"object", "list"},
                      NEW p \in DOMAIN json, json[p].kind = "marker"
               PROVE  /\ json[p].ref \in DOMAIN json /\ json[json[p].ref].kind = "object"
                      /\ graph.equal[Origin(json[p].ref)] = graph.equal[Origin(p)]
    BY DEF MarkersPointHome
  <2>1. IsGraph(graph) /\ NULL \notin Nodes /\ DOMAIN json \subseteq Positions
    BY GraphsAssumption DEF IInv, Nodes, IsDocument
  <2>2. PICK n \in Nodes : Leads(graph, p, n) /\ Stands(graph, json, json[p].ref, graph.equal[n])
    BY DEF MarkersInv, Simple, Pointed, Nodes
  <2>3. PICK k \in Nodes : Leads(graph, json[p].ref, k) /\ graph.equal[k] = graph.equal[n]
    BY <2>2 DEF Stands, Nodes
  <2>4. json[p].ref \in DOMAIN json /\ json[json[p].ref].kind = "object"
    BY <2>2 DEF Stands
  <2>5. Origin(p) = n /\ Origin(json[p].ref) = k
    BY <2>1, <2>2, <2>3, <2>4, OriginFound
  <2> QED
    BY <2>3, <2>4, <2>5
<1> QED
  BY <1>1, Invariant, MarkersHold, PTL

------------------------------------------------------------------------------
(* Writing and reading back. The position q is on the way to p.            *)
Above(q, p) == Len(q) < Len(p) /\ \A i \in 1 .. Len(q) : q[i] = p[i]

(* X has what is visited before p: what is on the way to p, and of that    *)
(* the members before the one that leads to p; and with everything else    *)
(* also the members of that.                                               *)
Passed(d, X, p) ==
  /\ \A a \in DOMAIN d : Above(a, p) =>
       /\ a \in X
       /\ \A i, j \in DOMAIN d[a].members :
            i < j /\ d[a].members[j] = p[Len(a) + 1] => Append(a, d[a].members[i]) \in X
  /\ \A a \in X : ~ Above(a, p) => \A i \in DOMAIN d[a].members : Append(a, d[a].members[i]) \in X

(* Markers point to what is visited before them.                           *)
Backward(d) ==
  \A p \in DOMAIN d : d[p].kind = "marker" =>
    \A X \in SUBSET DOMAIN d : Passed(d, X, p) => d[p].ref \in X

(* Every position is that of a member, and a member has one position.      *)
Tree(d) ==
  \A p \in DOMAIN d :
    /\ p # <<>> => /\ Front(p) \in DOMAIN d
                   /\ \E i \in DOMAIN d[Front(p)].members : d[Front(p)].members[i] = p[Len(p)]
    /\ d[p].kind = "marker" => d[p].members = <<>>
    /\ \A i, j \in DOMAIN d[p].members : d[p].members[i] = d[p].members[j] => i = j

(* A stack of calls at these positions, each within the one around it.     *)
Stack(fs) ==
  /\ Len(fs) \in Nat \ {0}
  /\ \A i \in 1 .. Len(fs) : fs[i].at \in Positions /\ Len(fs[i].at) = i - 1
  /\ \A i \in 1 .. Len(fs) - 1 : fs[i].at = Front(fs[i + 1].at)

OnStack(fs, q) == \E i \in 1 .. Len(fs) : fs[i].at = q

LEMMA LastOfPosition ==
  ASSUME NEW q \in Positions, q # <<>>
  PROVE  /\ Len(q) \in Nat \ {0} /\ Front(q) \in Positions /\ Len(Front(q)) = Len(q) - 1
         /\ q[Len(q)] \in STRING /\ q = Append(Front(q), q[Len(q)])
         /\ \A i \in 1 .. Len(q) - 1 : Front(q)[i] = q[i]
<1> DEFINE n == Len(q)
           p == Front(q)
           name == q[n]
<1>1. q \in Seq(STRING) /\ n \in Nat \ {0} /\ name \in STRING
  BY TopTyped DEF Positions
<1>2. p \in Seq(STRING) /\ Len(p) = n - 1 /\ \A i \in 1 .. n - 1 : p[i] = q[i]
  BY FrontTyped DEF Positions
<1> HIDE DEF p, name, n
<1>3. /\ Append(p, name) \in Seq(STRING) /\ Len(Append(p, name)) = Len(p) + 1
      /\ \A i \in 1 .. Len(p) : Append(p, name)[i] = p[i]
      /\ Append(p, name)[Len(p) + 1] = name
  <2>1. p \in Seq(STRING) /\ name \in STRING
    BY <1>1, <1>2
  <2> QED
    BY <2>1, FrontOfAppend, Zenon
<1>4. Len(Append(p, name)) = n /\ \A i \in 1 .. n : Append(p, name)[i] = q[i]
  BY <1>1, <1>2, <1>3 DEF name
<1>5. q = Append(p, name)
  BY <1>1, <1>3, <1>4, SeqEqual DEF n
<1> QED
  BY <1>1, <1>2, <1>5 DEF n, p, name, Positions

(* The positions of the calls are those on the way to the next member.     *)
LeadsTo(fs, name, p) ==
  /\ p \in Positions /\ Len(p) = Len(fs) /\ p[Len(fs)] = name
  /\ \A i \in 1 .. Len(fs) : Above(fs[i].at, p)
  /\ \A i \in 1 .. Len(fs) - 1 : fs[i + 1].at[i] = p[i]
  /\ \A a \in Positions : Above(a, p) => Len(a) + 1 \in 1 .. Len(fs) /\ a = fs[Len(a) + 1].at

LEMMA OnTheWay ==
  ASSUME NEW fs, Stack(fs), NEW name \in STRING, NEW p, p = Append(fs[Len(fs)].at, name)
  PROVE  LeadsTo(fs, name, p)
<1> DEFINE n == Len(fs)
<1>1. /\ n \in Nat \ {0}
      /\ \A i \in 1 .. n : fs[i].at \in Positions /\ Len(fs[i].at) = i - 1
      /\ \A i \in 1 .. n - 1 : fs[i].at = Front(fs[i + 1].at)
  BY DEF Stack
<1> HIDE DEF n
<1>2. p = Append(fs[n].at, name) /\ fs[n].at \in Seq(STRING) /\ Len(fs[n].at) = n - 1
  BY <1>1 DEF n, Positions
<1>3. /\ p \in Seq(STRING) /\ Len(p) = n /\ p[n] = name
      /\ \A k \in 1 .. n - 1 : fs[n].at[k] = p[k]
  BY <1>1, <1>2, FrontOfAppend
<1> DEFINE Meets(i) == \A k \in 1 .. Len(fs[i].at) : fs[i].at[k] = p[k]
           Z == {m \in 0 .. n - 1 : Meets(n - m)}
<1>4. 0 \in Z
  <2>1. n - 0 = n /\ 0 \in 0 .. n - 1 /\ Meets(n)
    BY <1>1, <1>2, <1>3
  <2> HIDE DEF Meets
  <2> QED
    BY <2>1
<1>5. ASSUME NEW i \in 1 .. n - 1, Meets(i + 1) PROVE Meets(i)
  <2> DEFINE j == i + 1
  <2>1. j \in 1 .. n /\ j - 1 = i /\ i \in 1 .. n /\ fs[i].at = Front(fs[j].at) /\ i # 0
    BY <1>1
  <2>2. Meets(j)
    BY <1>5
  <2> HIDE DEF j
  <2>3. fs[j].at \in Positions /\ Len(fs[j].at) = i /\ Len(fs[i].at) = i - 1
    BY <1>1, <2>1
  <2>4. fs[j].at # <<>>
    BY <2>1, <2>3, EmptySeq
  <2>5. \A k \in 1 .. i - 1 : fs[i].at[k] = fs[j].at[k]
    BY <2>1, <2>3, <2>4, LastOfPosition
  <2>6. \A k \in 1 .. i - 1 : k \in 1 .. i
    OBVIOUS
  <2> QED
    BY <2>2, <2>3, <2>5, <2>6
<1>6. 0 .. n - 1 \subseteq Z
  <2> HIDE DEF Meets
  <2>1. ASSUME NEW m \in 1 .. n - 1, m - 1 \in Z PROVE m \in Z
    <3>1. n - m \in 1 .. n - 1 /\ n - (m - 1) = n - m + 1 /\ m \in 0 .. n - 1
      BY <1>1
    <3>2. Meets(n - (m - 1))
      BY <2>1
    <3>3. Meets(n - m + 1)
      BY <3>1, <3>2
    <3>4. Meets(n - m)
      BY <1>5, <3>1, <3>3
    <3> QED
      BY <3>1, <3>4
  <2> HIDE DEF Z
  <2>2. n - 1 \in Nat
    BY <1>1
  <2> QED
    BY <1>4, <2>1, <2>2, Upwards
<1> HIDE DEF Meets
<1>7. ASSUME NEW i \in 1 .. n PROVE Meets(i)
  <2>1. n - i \in 0 .. n - 1 /\ n - (n - i) = i
    BY <1>1
  <2>2. n - i \in Z
    BY <1>6, <2>1
  <2>3. Meets(n - (n - i))
    BY <2>2
  <2> QED
    BY <2>1, <2>3
<1> HIDE DEF Z
<1>8. ASSUME NEW i \in 1 .. n PROVE Above(fs[i].at, p)
  <2>1. Len(fs[i].at) = i - 1 /\ i - 1 < n
    BY <1>1
  <2>2. \A k \in 1 .. Len(fs[i].at) : fs[i].at[k] = p[k]
    BY <1>7 DEF Meets
  <2> QED
    BY <1>3, <2>1, <2>2 DEF Above
<1>9. ASSUME NEW i \in 1 .. n - 1 PROVE fs[i + 1].at[i] = p[i]
  <2> DEFINE j == i + 1
  <2>1. j \in 1 .. n /\ j - 1 = i
    BY <1>1
  <2> HIDE DEF j
  <2>2. \A k \in 1 .. Len(fs[j].at) : fs[j].at[k] = p[k]
    BY <1>7, <2>1 DEF Meets
  <2>3. Len(fs[j].at) = i
    BY <1>1, <2>1
  <2>4. fs[j].at[i] = p[i]
    <3>1. i \in 1 .. i
      BY <1>1
    <3> QED
      BY <2>2, <2>3, <3>1
  <2> QED
    BY <2>4 DEF j
<1>10. ASSUME NEW a \in Positions, Above(a, p) PROVE Len(a) + 1 \in 1 .. n /\ a = fs[Len(a) + 1].at
  <2>1. Len(a) \in Nat /\ Len(a) < n /\ \A k \in 1 .. Len(a) : a[k] = p[k]
    BY <1>3, <1>10, LenProperties DEF Above, Positions
  <2> DEFINE i == Len(a) + 1
  <2>2. i \in 1 .. n /\ Len(a) = i - 1
    BY <1>1, <2>1
  <2>3. fs[i].at \in Positions /\ Len(fs[i].at) = Len(a)
    BY <1>1, <2>2
  <2>4. \A k \in 1 .. Len(a) : fs[i].at[k] = a[k]
    <3>1. \A k \in 1 .. Len(fs[i].at) : fs[i].at[k] = p[k]
      BY <1>7, <2>2 DEF Meets
    <3> HIDE DEF i
    <3> QED
      BY <2>1, <2>3, <3>1
  <2>5. a = fs[i].at
    <3> HIDE DEF i
    <3> QED
      BY <2>3, <2>4, SeqEqual DEF Positions
  <2> QED
    BY <2>2, <2>5
<1> QED
  BY <1>3, <1>8, <1>9, <1>10 DEF n, Positions, LeadsTo

(* A call within another goes on with the last of the members before it.   *)
Branches(fs, d) ==
  \A i \in 1 .. Len(fs) - 1 :
    d[fs[i].at].members # <<>> /\ Top(d[fs[i].at].members) = fs[i + 1].at[i]

(* The last member of the value that is written is at p, and empty.        *)
LastIs(d, fs, name, p) ==
  /\ IsDocument(d) /\ Tree(d) /\ Stack(fs) /\ Branches(fs, d)
  /\ \A i \in 1 .. Len(fs) : fs[i].at \in DOMAIN d
  /\ p \in DOMAIN d /\ p = Append(fs[Len(fs)].at, name) /\ d[p].members = <<>>
  /\ Top(d[fs[Len(fs)].at].members) = name

(* Then everything else was visited before.                                *)
LEMMA PassedHasAll ==
  ASSUME NEW d, NEW fs, NEW name \in STRING, NEW p, LastIs(d, fs, name, p),
         NEW X, Passed(d, X, p), NEW q \in DOMAIN d, q # p
  PROVE  q \in X
<1> DEFINE n == Len(fs)
<1>0. /\ n \in Nat \ {0}
      /\ \A i \in 1 .. n : fs[i].at \in Positions /\ Len(fs[i].at) = i - 1
      /\ \A i \in 1 .. n - 1 : fs[i].at = Front(fs[i + 1].at)
  BY DEF Stack, LastIs
<1>1. /\ p[n] = name
      /\ \A i \in 1 .. n : Above(fs[i].at, p)
      /\ \A i \in 1 .. n - 1 : fs[i + 1].at[i] = p[i]
      /\ \A a \in Positions : Above(a, p) => Len(a) + 1 \in 1 .. n /\ a = fs[Len(a) + 1].at
  <2>1. LeadsTo(fs, name, p)
    BY OnTheWay DEF LastIs
  <2> QED
    BY <2>1 DEF LeadsTo
<1>2. DOMAIN d \subseteq Positions /\ \A a \in DOMAIN d : d[a].members \in Seq(STRING)
  BY DEF IsDocument, LastIs
<1>11. DOMAIN d[p].members = {}
  BY DEF LastIs
<1>3. /\ p = Append(fs[n].at, name)
      /\ Top(d[fs[n].at].members) = name
      /\ \A i \in 1 .. n - 1 : Top(d[fs[i].at].members) = fs[i + 1].at[i]
      /\ \A i \in 1 .. n : fs[i].at \in DOMAIN d
  BY DEF Branches, LastIs
<1>12. Tree(d)
  BY DEF LastIs
<1> HIDE DEF n
<1>4. ASSUME NEW x \in DOMAIN d, x # p, x # <<>>, Front(x) \in X
      PROVE  x \in X
  <2> DEFINE a == Front(x)
             ms == d[a].members
  <2>1. a \in DOMAIN d /\ \E j \in DOMAIN ms : ms[j] = x[Len(x)]
    BY <1>4, <1>12 DEF Tree
  <2>2. PICK j \in DOMAIN ms : ms[j] = x[Len(x)]
    BY <2>1
  <2>3. x = Append(a, ms[j])
    BY <1>2, <1>4, <2>2, LastOfPosition
  <2>4. ms \in Seq(STRING) /\ j \in 1 .. Len(ms) /\ Len(ms) \in Nat
    BY <1>2, <2>1, <2>2, LenProperties
  <2> HIDE DEF a, ms
  <2>5. CASE ~ Above(a, p)
    BY <1>4, <2>2, <2>3, <2>5 DEF Passed, a, ms
  <2>6. CASE Above(a, p)
    <3> DEFINE i == Len(a) + 1
    <3>1. i \in 1 .. n /\ a = fs[i].at
      BY <1>1, <1>2, <2>1, <2>6
    <3> HIDE DEF i
    <3>2. ms[Len(ms)] = p[i]
      <4>1. CASE i = n
        BY <1>1, <1>3, <3>1, <4>1 DEF Top, ms
      <4>2. CASE i # n
        <5>1. i \in 1 .. n - 1
          BY <1>0, <3>1, <4>2
        <5> QED
          BY <1>1, <1>3, <3>1, <5>1 DEF Top, ms
      <4> QED
        BY <4>1, <4>2
    <3>3. CASE j = Len(ms)
      <4>1. x = Append(fs[i].at, p[i])
        BY <2>3, <3>1, <3>2, <3>3
      <4>2. i # n
        BY <1>1, <1>3, <1>4, <4>1
      <4>3. i \in 1 .. n - 1 /\ i + 1 \in 1 .. n /\ i + 1 - 1 = i /\ i # 0
        <5>1. n \in Nat \ {0} /\ i \in 1 .. n
          BY <1>0, <3>1
        <5> QED
          BY <4>2, <5>1
      <4> DEFINE b == fs[i + 1].at
      <4>4. /\ b \in Positions /\ Len(b) = i /\ b[i] = p[i] /\ Front(b) = fs[i].at
            /\ Above(b, p) /\ b \in DOMAIN d
        <5> DEFINE k == i + 1
        <5>1. k \in 1 .. n /\ k - 1 = i
          BY <4>3
        <5>2. fs[k].at[i] = p[i] /\ fs[i].at = Front(fs[k].at)
          BY <1>0, <1>1, <4>3
        <5> HIDE DEF k
        <5>3. fs[k].at \in Positions /\ Len(fs[k].at) = i /\ Above(fs[k].at, p) /\ fs[k].at \in DOMAIN d
          BY <1>0, <1>1, <1>3, <5>1
        <5> QED
          BY <5>2, <5>3 DEF k
      <4> HIDE DEF b
      <4>5. b # <<>>
        BY <4>3, <4>4, EmptySeq
      <4>6. b = Append(fs[i].at, p[i])
        BY <4>4, <4>5, LastOfPosition
      <4> QED
        BY <4>1, <4>4, <4>6 DEF Passed
    <3>4. CASE j # Len(ms)
      <4>1. j < Len(ms) /\ Len(ms) \in DOMAIN ms
        BY <2>4, <3>4, LenProperties
      <4>2. ms[Len(ms)] = p[Len(a) + 1]
        BY <3>2 DEF i
      <4> QED
        BY <2>1, <2>2, <2>3, <2>6, <4>1, <4>2 DEF Passed, ms
    <3> QED
      BY <3>3, <3>4
  <2> QED
    BY <2>5, <2>6
<1>5. <<>> \in X
  <2> DEFINE k == 1
  <2>0. k \in 1 .. n /\ k - 1 = 0
    BY <1>0
  <2> HIDE DEF k
  <2>1. Above(fs[k].at, p) /\ fs[k].at \in DOMAIN d /\ Len(fs[k].at) = 0 /\ fs[k].at \in Seq(STRING)
    BY <1>0, <1>1, <1>3, <2>0 DEF Positions
  <2> QED
    BY <2>1, EmptySeq DEF Passed
<1> DEFINE Z == {k \in 0 .. Len(q) : \A x \in DOMAIN d : x # p /\ Len(x) = k => x \in X}
<1>6. Len(q) \in Nat /\ \A x \in DOMAIN d : Len(x) = 0 => x = <<>>
  BY <1>2, LenProperties, EmptySeq DEF Positions
<1>7. 0 \in Z
  BY <1>5, <1>6
<1>8. ASSUME NEW k \in 1 .. Len(q), k - 1 \in Z PROVE k \in Z
  <2> SUFFICES ASSUME NEW x \in DOMAIN d, x # p, Len(x) = k PROVE x \in X
    BY <1>6
  <2>1. x # <<>>
    BY <1>6, EmptySeq
  <2>2. Front(x) \in DOMAIN d /\ Len(Front(x)) = k - 1
    BY <1>2, <1>12, <2>1, LastOfPosition DEF Tree
  <2>3. Front(x) # p
    BY <1>11, <1>12, <2>1 DEF Tree
  <2>4. Front(x) \in X
    BY <1>8, <2>2, <2>3
  <2> QED
    BY <1>4, <2>1, <2>4
<1>9. 0 .. Len(q) \subseteq Z
  <2> HIDE DEF Z
  <2> QED
    BY <1>6, <1>7, <1>8, Upwards
<1>10. Len(q) \in 0 .. Len(q)
  BY <1>6
<1> QED
  BY <1>9, <1>10

(* A document with one member more: what was there keeps its members.      *)
Longer(d, p, name, at, node, d2) ==
  /\ DOMAIN d2 = DOMAIN d \cup {at} /\ at \notin DOMAIN d /\ at # p /\ d2[at] = node
  /\ \A q \in DOMAIN d : /\ d2[q].kind = d[q].kind /\ d2[q].ref = d[q].ref
                         /\ q # p => d2[q].members = d[q].members
                         /\ \A i \in DOMAIN d[q].members :
                              i \in DOMAIN d2[q].members /\ d2[q].members[i] = d[q].members[i]
  /\ \A i \in DOMAIN d2[p].members :
       i \in DOMAIN d[p].members \/ i = Len(d[p].members) + 1
  /\ Len(d[p].members) + 1 \in DOMAIN d2[p].members
  /\ d2[p].members[Len(d[p].members) + 1] = name
  /\ d2[p].members \in Seq(STRING) /\ Len(d2[p].members) = Len(d[p].members) + 1

LEMMA GrownIsLonger ==
  ASSUME NEW d, IsDocument(d), NEW p \in DOMAIN d, NEW name \in STRING, NEW at, NEW node, NEW d2,
         GrownBy(d, p, name, at, node, d2), at \notin DOMAIN d
  PROVE  Longer(d, p, name, at, node, d2)
<1> DEFINE ms == d[p].members
           ms2 == d2[p].members
<1>1. /\ DOMAIN d2 = DOMAIN d \cup {at} /\ d2[at] = node
      /\ d2[p] = Listed(d, p, name)
      /\ \A q \in DOMAIN d : q # p /\ q # at => d2[q] = d[q]
  BY DEF GrownBy
<1>2. d[p] \in Values /\ ms \in Seq(STRING)
  BY DEF IsDocument, Values
<1>3. d2[p].kind = d[p].kind /\ d2[p].ref = d[p].ref /\ ms2 = Append(ms, name)
  BY <1>1, <1>2 DEF Listed, Values
<1> HIDE DEF ms, ms2
<1>4. /\ ms2 \in Seq(STRING) /\ Len(ms2) = Len(ms) + 1 /\ Len(ms) \in Nat
      /\ \A i \in 1 .. Len(ms) : ms2[i] = ms[i]
      /\ ms2[Len(ms) + 1] = name
      /\ DOMAIN ms = 1 .. Len(ms) /\ DOMAIN ms2 = 1 .. Len(ms2)
  BY <1>2, <1>3, FrontOfAppend, LenProperties
<1>5. /\ \A i \in DOMAIN ms : i \in DOMAIN ms2 /\ ms2[i] = ms[i]
      /\ \A i \in DOMAIN ms2 : i \in DOMAIN ms \/ i = Len(ms) + 1
      /\ Len(ms) + 1 \in DOMAIN ms2
  BY <1>4
<1>6. \A q \in DOMAIN d : q # p => d2[q] = d[q]
  BY <1>1
<1>7. ASSUME NEW q \in DOMAIN d
      PROVE  /\ d2[q].kind = d[q].kind /\ d2[q].ref = d[q].ref
             /\ q # p => d2[q].members = d[q].members
             /\ \A i \in DOMAIN d[q].members :
                  i \in DOMAIN d2[q].members /\ d2[q].members[i] = d[q].members[i]
  BY <1>3, <1>5, <1>6 DEF ms, ms2
<1> QED
  BY <1>1, <1>4, <1>5, <1>7 DEF Longer, ms, ms2

LEMMA BackwardGrows ==
  ASSUME NEW d, IsDocument(d), Backward(d), NEW p \in DOMAIN d, NEW name \in STRING, NEW at, NEW node, NEW d2,
         Longer(d, p, name, at, node, d2),
         node.kind = "marker" => \A X \in SUBSET DOMAIN d2 : Passed(d2, X, at) => node.ref \in X
  PROVE  Backward(d2)
<1>1. /\ DOMAIN d2 = DOMAIN d \cup {at} /\ at \notin DOMAIN d /\ d2[at] = node
      /\ \A q \in DOMAIN d : /\ d2[q].kind = d[q].kind /\ d2[q].ref = d[q].ref
                             /\ \A i \in DOMAIN d[q].members :
                                  i \in DOMAIN d2[q].members /\ d2[q].members[i] = d[q].members[i]
  BY DEF Longer
<1>2. \A q \in DOMAIN d : \A i \in DOMAIN d[q].members : Append(q, d[q].members[i]) \in DOMAIN d
  BY DEF IsDocument
<1> SUFFICES ASSUME NEW q \in DOMAIN d2, d2[q].kind = "marker", NEW X \in SUBSET DOMAIN d2, Passed(d2, X, q)
             PROVE  d2[q].ref \in X
  BY DEF Backward
<1>3. CASE q = at
  BY <1>1, <1>3
<1>4. CASE q # at
  <2> DEFINE Y == X \cap DOMAIN d
  <2>1. q \in DOMAIN d /\ d[q].kind = "marker" /\ d[q].ref = d2[q].ref
    BY <1>1, <1>4
  <2>2. ASSUME NEW a \in DOMAIN d, Above(a, q)
        PROVE  /\ a \in Y
               /\ \A i, j \in DOMAIN d[a].members :
                    i < j /\ d[a].members[j] = q[Len(a) + 1] => Append(a, d[a].members[i]) \in Y
    <3>1. a \in X
      BY <1>1, <2>2 DEF Passed
    <3>2. ASSUME NEW i \in DOMAIN d[a].members, NEW j \in DOMAIN d[a].members,
                 i < j, d[a].members[j] = q[Len(a) + 1]
          PROVE  Append(a, d[a].members[i]) \in Y
      <4>1. i \in DOMAIN d2[a].members /\ j \in DOMAIN d2[a].members
            /\ d2[a].members[i] = d[a].members[i] /\ d2[a].members[j] = d[a].members[j]
        BY <1>1, <3>2
      <4>2. Append(a, d2[a].members[i]) \in X
        BY <1>1, <2>2, <3>2, <4>1 DEF Passed
      <4> QED
        BY <1>2, <3>2, <4>1, <4>2
    <3> QED
      BY <3>1, <3>2
  <2>3. ASSUME NEW a \in Y, ~ Above(a, q), NEW i \in DOMAIN d[a].members
        PROVE  Append(a, d[a].members[i]) \in Y
    <3>1. i \in DOMAIN d2[a].members /\ d2[a].members[i] = d[a].members[i]
      BY <1>1, <2>3
    <3>2. Append(a, d2[a].members[i]) \in X
      BY <2>3, <3>1 DEF Passed
    <3> QED
      BY <1>2, <2>3, <3>1, <3>2
  <2> HIDE DEF Y
  <2>4. Passed(d, Y, q)
    BY <2>2, <2>3 DEF Passed
  <2>5. d[q].ref \in Y
    BY <2>1, <2>4 DEF Backward, Y
  <2> QED
    BY <2>1, <2>5 DEF Y
<1> QED
  BY <1>3, <1>4

LEMMA TreeGrows ==
  ASSUME NEW d, IsDocument(d), Tree(d), NEW p \in DOMAIN d, NEW name \in STRING, NEW at, at = Append(p, name),
         NEW node, NEW d2, Longer(d, p, name, at, node, d2), node.members = <<>>, d[p].kind # "marker"
  PROVE  Tree(d2)
<1>1. /\ DOMAIN d2 = DOMAIN d \cup {at} /\ at \notin DOMAIN d /\ d2[at] = node
      /\ \A q \in DOMAIN d : /\ d2[q].kind = d[q].kind
                             /\ q # p => d2[q].members = d[q].members
                             /\ \A i \in DOMAIN d[q].members :
                                  i \in DOMAIN d2[q].members /\ d2[q].members[i] = d[q].members[i]
      /\ \A i \in DOMAIN d2[p].members : i \in DOMAIN d[p].members \/ i = Len(d[p].members) + 1
      /\ Len(d[p].members) + 1 \in DOMAIN d2[p].members
      /\ d2[p].members[Len(d[p].members) + 1] = name
  BY DEF Longer
<1>2. p \in Seq(STRING)
  BY DEF IsDocument, Positions
<1>3. at # <<>> /\ Front(at) = p /\ at[Len(at)] = name
  <2>1. Append(p, name)[Len(p) + 1] = name /\ Len(Append(p, name)) = Len(p) + 1
        /\ Front(Append(p, name)) = p /\ Append(p, name) # <<>>
    BY <1>2, FrontOfAppend
  <2> QED
    BY <2>1
<1>4. \A i \in DOMAIN d[p].members : d[p].members[i] # name
  BY <1>1 DEF IsDocument
<1>5. DOMAIN node.members = {}
  OBVIOUS
<1> SUFFICES ASSUME NEW q \in DOMAIN d2
             PROVE  /\ q # <<>> => /\ Front(q) \in DOMAIN d2
                                   /\ \E i \in DOMAIN d2[Front(q)].members : d2[Front(q)].members[i] = q[Len(q)]
                    /\ d2[q].kind = "marker" => d2[q].members = <<>>
                    /\ \A i, j \in DOMAIN d2[q].members : d2[q].members[i] = d2[q].members[j] => i = j
  BY DEF Tree
<1>6. CASE q = at
  BY <1>1, <1>3, <1>5, <1>6
<1>7. CASE q # at
  <2>1. q \in DOMAIN d
    BY <1>1, <1>7
  <2>2. /\ q # <<>> => Front(q) \in DOMAIN d /\ \E i \in DOMAIN d[Front(q)].members : d[Front(q)].members[i] = q[Len(q)]
        /\ d[q].kind = "marker" => d[q].members = <<>>
        /\ \A i, j \in DOMAIN d[q].members : d[q].members[i] = d[q].members[j] => i = j
    BY <2>1 DEF Tree
  <2>3. q # <<>> => Front(q) \in DOMAIN d2 /\ \E i \in DOMAIN d2[Front(q)].members : d2[Front(q)].members[i] = q[Len(q)]
    BY <1>1, <2>2
  <2>4. CASE q # p
    BY <1>1, <2>1, <2>2, <2>3, <2>4
  <2>5. CASE q = p
    <3>1. ASSUME NEW i \in DOMAIN d2[p].members, NEW j \in DOMAIN d2[p].members,
                 d2[p].members[i] = d2[p].members[j]
          PROVE  i = j
      <4>1. CASE i \in DOMAIN d[p].members /\ j \in DOMAIN d[p].members
        BY <1>1, <2>2, <2>5, <3>1, <4>1
      <4>2. CASE i \notin DOMAIN d[p].members
        BY <1>1, <1>4, <3>1, <4>2
      <4>3. CASE j \notin DOMAIN d[p].members
        BY <1>1, <1>4, <3>1, <4>3
      <4> QED
        BY <4>1, <4>2, <4>3
    <3> QED
      BY <1>1, <2>3, <2>5, <3>1
  <2> QED
    BY <2>4, <2>5
<1> QED
  BY <1>6, <1>7

------------------------------------------------------------------------------
(* A step of writing with no context nested: the value v of the next       *)
(* member, of that name, is written at a new position as node.             *)
Visits(name, v, at, node) ==
  LET n == Len(frames)
      f == Top(frames)
      map == Top(contexts).map
      e == graph.equal[v]
  IN /\ f.next \in DOMAIN graph.members[f.node]
     /\ graph.members[f.node][f.next].name = name /\ graph.members[f.node][f.next].value = v
     /\ at = Append(f.at, name) /\ Leads(graph, at, v) /\ graph.kind[v] \in {"object", "list"}
     /\ Longer(json, f.at, name, at, node, json')
     /\ graph' = graph /\ phase' = "serialize"
     /\ \A i \in 1 .. n - 1 : frames'[i] = frames[i]
     /\ frames'[n].at = f.at /\ frames'[n].node = f.node /\ frames'[n].next = f.next + 1
     /\ \/ /\ graph.kind[v] = "object" /\ e \in DOMAIN map
           /\ node = Marker(map[e]) /\ Len(frames') = n /\ Top(contexts').map = map
        \/ /\ graph.kind[v] = "object" => e \notin DOMAIN map
           /\ node = Node(graph.kind[v]) /\ Len(frames') = n + 1
           /\ frames'[n + 1].at = at /\ frames'[n + 1].node = v /\ frames'[n + 1].next = 1
           /\ Top(contexts').map = IF graph.kind[v] = "object" THEN With(map, e, at) ELSE map

LEMMA MemberVisited ==
  ASSUME IInv, MarkersInv, Simple, SerializeMember
  PROVE  \E name \in STRING, v \in Nodes, at \in Positions, node \in Values : Visits(name, v, at, node)
<1> DEFINE n == Len(frames)
           f == Top(frames)
           kind == graph.kind[f.node]
           m == graph.members[f.node][f.next]
           at == Append(f.at, m.name)
           entered == Enter(kind, m.name)
           c == Top(entered)
           equal == graph.equal[m.value]
           C == Contexts(Nodes, Positions)
           map == Top(contexts).map
           marker == Marker(c.map[equal])
           plain == Node(graph.kind[m.value])
           tracked == Tracked(graph.kind[m.value])
<1>1. /\ phase = "serialize" /\ f.next <= Len(graph.members[f.node]) /\ n < MaxFrames /\ graph' = graph
      /\ \/ /\ tracked /\ equal \in DOMAIN c.map
            /\ json' = Grown(json, f.at, m.name, marker)
            /\ contexts' = LeaveWritten(entered, kind)
            /\ frames' = Advance(frames)
            /\ phase' = phase
         \/ c.location \in Range(c.map)
         \/ /\ tracked => equal \notin DOMAIN c.map
            /\ json' = Grown(json, f.at, m.name, plain)
            /\ contexts' = IF tracked THEN SetTop(entered, [c EXCEPT !.map = With(@, equal, c.location)])
                                      ELSE entered
            /\ frames' = Called(frames, m.value, at)
            /\ phase' = phase
  BY Zenon DEF SerializeMember, Grown, Listed, Called
<1>2. /\ Writing /\ IsGraph(graph) /\ n \in Nat \ {0} /\ f = frames[n]
      /\ \A i \in 1 .. n : frames[i].at \in DOMAIN json /\ frames[i].node \in Nodes
      /\ f.next \in Nat \ {0} /\ contexts # <<>>
  BY <1>1, WritingAt
<1>3. /\ f.node \in Nodes /\ f.next \in DOMAIN graph.members[f.node]
      /\ m.name \in STRING /\ m.value \in Nodes /\ graph.kind[m.value] \in Kinds /\ equal \in Nodes
  <2> HIDE DEF f
  <2>1. f.node \in Nodes
    BY <1>2
  <2> QED
    BY <1>1, <1>2, <2>1, MemberWritten DEF Nodes
<1>4. f.at \in DOMAIN json /\ f.at \in Positions /\ Len(f.at) + 1 < MaxFrames
  <2>1. /\ \A i \in 1 .. n : Len(frames[i].at) = i - 1
        /\ f.at \in DOMAIN json /\ DOMAIN json \subseteq Positions
    <3>1. Stacked(frames, contexts, json) /\ IsDocument(json)
      BY <1>2 DEF Writing, IInv
    <3>2. f.at \in DOMAIN json
      <4> HIDE DEF n, f
      <4>1. n \in 1 .. n
        BY <1>2
      <4> QED
        BY <1>2, <4>1
    <3> QED
      BY <3>1, <3>2 DEF Stacked, IsDocument
  <2>2. Len(f.at) = n - 1
    BY <1>2, <2>1
  <2>3. Len(f.at) + 1 < MaxFrames
    <3>1. n \in Nat \ {0} /\ n < MaxFrames
      BY <1>1, <1>2
    <3> HIDE DEF n, f
    <3> QED
      BY <2>2, <3>1, BoundsAssumption
  <2> QED
    BY <1>2, <2>1, <2>2, <2>3
<1>5. /\ Leads(graph, f.at, f.node) /\ WrittenBefore(graph, json, f)
      /\ Top(contexts).location = f.at
      /\ \A e \in DOMAIN map : Stands(graph, json, map[e], e)
  <2>1. Placed
    BY <1>1 DEF MarkersInv
  <2>2. n \in 1 .. n
    BY <1>2
  <2> HIDE DEF n
  <2>3. Leads(graph, frames[n].at, frames[n].node) /\ WrittenBefore(graph, json, frames[n])
    BY <2>1, <2>2 DEF Placed, n
  <2> QED
    BY <1>2, <2>1, <2>3 DEF Placed
<1>6. \A k \in Nodes : graph.kind[k] \in {"object", "list"}
  BY DEF Simple, Range, Nodes
<1>7. Leads(graph, at, m.value)
  <2> DEFINE p == f.at
             k == f.node
             j == f.next
             name == m.name
             v == m.value
  <2>2. /\ p \in Positions /\ k \in DOMAIN graph.kind /\ Leads(graph, p, k) /\ j \in DOMAIN graph.members[k]
        /\ name = graph.members[k][j].name /\ name \in STRING
        /\ v = graph.members[k][j].value /\ v \in DOMAIN graph.kind
    BY <1>3, <1>4, <1>5 DEF Nodes
  <2>3. at = Append(p, name)
    OBVIOUS
  <2> HIDE DEF p, k, j, name, v, at
  <2>4. Leads(graph, at, v)
    BY <1>2, <2>2, <2>3, LeadsOn
  <2> QED
    BY <2>4 DEF v
<1>8. at \notin DOMAIN json
  <2> SUFFICES ASSUME at \in DOMAIN json PROVE FALSE
    OBVIOUS
  <2>2. PICK j \in 1 .. f.next - 1 : graph.members[f.node][j].name = m.name
    BY <1>3, <1>5 DEF WrittenBefore
  <2> DEFINE ms == graph.members[f.node]
             k == f.next
  <2>3. ms \in Seq([name : STRING, value : DOMAIN graph.kind])
    BY <1>2, <1>3 DEF IsGraph, Nodes
  <2>4. k \in DOMAIN ms /\ DOMAIN ms = 1 .. Len(ms) /\ Len(ms) \in Nat
    BY <1>3, <2>3, LenProperties
  <2>5. \A a, b \in DOMAIN ms : ms[a].name = ms[b].name => a = b
    BY <1>2, <1>3 DEF IsGraph, Nodes
  <2>6. j \in 1 .. k - 1 /\ ms[j].name = ms[k].name
    BY <2>2
  <2> HIDE DEF ms, k
  <2>7. j \in DOMAIN ms /\ j # k
    BY <2>4, <2>6
  <2> QED
    BY <2>4, <2>5, <2>6, <2>7
<1> HIDE DEF f, m, at, kind, equal
<1>9. kind \in {"object", "list"} /\ (tracked <=> graph.kind[m.value] = "object")
  BY <1>3, <1>6 DEF kind, Tracked
<1>10. /\ entered \in Seq(C) /\ entered # <<>> /\ c \in C
       /\ c.location = at /\ c.map = map
  <2>1. contexts \in Seq(C)
    BY <1>2 DEF Writing
  <2>2. /\ entered \in Seq(C) /\ entered # <<>>
        /\ c.location = Append(Top(contexts).location, m.name) /\ c.map = Top(contexts).map
    BY <1>2, <1>3, <1>9, <2>1, Entered
  <2>3. c \in C
    <3> HIDE DEF entered
    <3> QED
      BY <2>2, TopTyped
  <2> QED
    BY <1>5, <2>2, <2>3 DEF at
<1>11. c.location \notin Range(c.map)
  BY <1>5, <1>8, <1>10 DEF Range, Stands
<1>12. at \in Positions /\ Front(at) = f.at
  BY <1>3, <1>4, FrontOfAppend DEF at, Positions
<1>13. ASSUME NEW node \in Values, json' = Grown(json, f.at, m.name, node), node.members = <<>>,
              node.kind = "marker" => node.ref \in Positions
       PROVE  Longer(json, f.at, m.name, at, node, json')
  <2> DEFINE p == f.at
             name == m.name
             d2 == Grown(json, p, name, node)
  <2>1. /\ IsDocument(json) /\ p \in DOMAIN json /\ name \in STRING /\ at = Append(p, name) /\ p \in Seq(STRING)
        /\ Len(p) + 1 < MaxFrames
    BY <1>3, <1>4 DEF IInv, at, Positions
  <2> HIDE DEF marker, plain, n, entered, c, C, tracked, d2, p, name, map
  <2>2. Len(Append(p, name)) < MaxFrames
    BY <2>1, AppendProperties
  <2>3. GrownBy(json, p, name, at, node, d2)
    BY <1>13, <2>1, <2>2, DocumentGrows DEF d2
  <2>4. Longer(json, p, name, at, node, d2)
    BY <1>8, <2>1, <2>3, GrownIsLonger
  <2> QED
    BY <1>13, <2>4 DEF d2, p, name
<1>14. CASE /\ tracked /\ equal \in DOMAIN c.map
            /\ json' = Grown(json, f.at, m.name, marker)
            /\ contexts' = LeaveWritten(entered, kind)
            /\ frames' = Advance(frames)
            /\ phase' = phase
  <2>1. /\ marker \in Values /\ marker.members = <<>> /\ marker.ref \in Positions
    <3>1. c.map[equal] \in Positions
      BY <1>10, <1>14 DEF Contexts, Maps
    <3>2. <<>> \in Seq(STRING)
      BY EmptySeq
    <3> QED
      BY <3>1, <3>2 DEF Marker, Values
  <2>2. Longer(json, f.at, m.name, at, marker, json')
    <3> HIDE DEF marker
    <3> QED
      BY <1>13, <1>14, <2>1
  <2>3. /\ Len(frames') = n
        /\ \A i \in 1 .. n : frames'[i].at = frames[i].at /\ frames'[i].node = frames[i].node
        /\ \A i \in 1 .. n - 1 : frames'[i] = frames[i]
        /\ frames'[n].next = frames[n].next + 1
    <3>1. frames \in Seq(Frames(Nodes, DOMAIN json)) /\ frames # <<>>
      BY <1>2 DEF Writing
    <3>2. frames' = Advance(frames)
      BY <1>14
    <3> HIDE DEF entered, c, C, plain, marker, tracked, map
    <3> QED
      BY <3>1, <3>2, AdvanceTyped, AdvanceNext
  <2>4. Top(contexts').map = map
    <3>1. entered \in Seq(C) /\ entered # <<>> /\ Top(entered).map = map
      BY <1>10
    <3> HIDE DEF entered, map
    <3> QED
      BY <1>9, <1>14, <3>1, Left
  <2>5. frames'[n].at = f.at /\ frames'[n].node = f.node /\ frames'[n].next = f.next + 1
    BY <1>2, <2>3
  <2> HIDE DEF entered, c, C, plain, tracked, map
  <2>6. graph.kind[m.value] = "object" /\ equal \in DOMAIN map /\ marker = Marker(map[equal])
    BY <1>9, <1>10, <1>14
  <2> HIDE DEF marker, n
  <2>7. Visits(m.name, m.value, at, marker)
    BY <1>1, <1>3, <1>7, <1>14, <2>2, <2>3, <2>4, <2>5, <2>6 DEF Visits, f, m, at, equal, n, map
  <2> QED
    BY <1>3, <1>12, <2>1, <2>7
<1>15. CASE /\ tracked => equal \notin DOMAIN c.map
            /\ json' = Grown(json, f.at, m.name, plain)
            /\ contexts' = IF tracked THEN SetTop(entered, [c EXCEPT !.map = With(@, equal, c.location)])
                                      ELSE entered
            /\ frames' = Called(frames, m.value, at)
            /\ phase' = phase
  <2> DEFINE c2 == [c EXCEPT !.map = With(@, equal, c.location)]
  <2>1. plain \in Values /\ plain.members = <<>> /\ plain.kind # "marker"
    <3>1. <<>> \in Seq(STRING)
      BY EmptySeq
    <3> QED
      BY <1>3, <3>1 DEF Node, Values, Kinds
  <2>2. Longer(json, f.at, m.name, at, plain, json')
    <3> HIDE DEF plain
    <3> QED
      BY <1>13, <1>15, <2>1
  <2>3. frames \in Seq(Frames(Nodes, DOMAIN json')) /\ frames # <<>> /\ at \in DOMAIN json'
    BY <1>2, <2>2, FramesGrow DEF Writing, Longer
  <2>4. /\ Len(frames') = n + 1
        /\ \A i \in 1 .. n : frames'[i].at = frames[i].at /\ frames'[i].node = frames[i].node
        /\ \A i \in 1 .. n - 1 : frames'[i] = frames[i]
        /\ frames'[n].next = frames[n].next + 1
        /\ frames'[n + 1].at = at /\ frames'[n + 1].node = m.value /\ frames'[n + 1].next = 1
    <3>1. frames' = Called(frames, m.value, at) /\ m.value \in Nodes
      BY <1>3, <1>15
    <3> HIDE DEF entered, c, plain, marker, tracked, map
    <3> QED
      BY <2>3, <3>1, CallTyped, CallNext
  <2>5. Top(contexts').map = IF graph.kind[m.value] = "object" THEN With(map, equal, at) ELSE map
    <3>1. CASE tracked
      <4>1. With(c.map, equal, c.location) \in Maps(Nodes, Positions)
        BY <1>3, <1>10, WithTyped DEF Contexts
      <4>2. c2 \in C /\ c2.map = With(c.map, equal, c.location)
        BY <1>10, <4>1 DEF Contexts
      <4>3. contexts' = SetTop(entered, c2)
        BY <1>15, <3>1
      <4> HIDE DEF c2, entered, c
      <4>4. Top(contexts') = c2
        BY <1>10, <4>2, <4>3, SetTopTyped
      <4> QED
        BY <1>9, <1>10, <3>1, <4>2, <4>4
    <3>2. CASE ~ tracked
      BY <1>9, <1>10, <1>15, <3>2
    <3> QED
      BY <3>1, <3>2
  <2>6. frames'[n].at = f.at /\ frames'[n].node = f.node /\ frames'[n].next = f.next + 1
    BY <1>2, <2>4
  <2>7. graph.kind[m.value] = "object" => equal \notin DOMAIN map
    BY <1>9, <1>10, <1>15
  <2>8. graph.kind[m.value] \in {"object", "list"}
    BY <1>3, <1>6
  <2> HIDE DEF entered, c, C, plain, tracked, map, n
  <2>9. Visits(m.name, m.value, at, plain)
    BY <1>1, <1>3, <1>7, <1>15, <2>2, <2>4, <2>5, <2>6, <2>7, <2>8
       DEF Visits, f, m, at, equal, n, map, plain
  <2> QED
    BY <1>3, <1>12, <2>1, <2>9
<1> QED
  BY <1>1, <1>11, <1>14, <1>15

(* The value at p has the first len members of the object m.               *)
Copied(g, d, p, m, len) ==
  /\ len \in Nat /\ len <= Len(g.members[m])
  /\ Len(d[p].members) = len
  /\ \A j \in 1 .. len : d[p].members[j] = g.members[m][j].name

(* It has all of the object that the path leads to.                        *)
Whole(g, d, q) ==
  \E m \in DOMAIN g.kind :
    Leads(g, q, m) /\ d[q].kind = g.kind[m] /\ Copied(g, d, q, m, Len(g.members[m]))

(* An object is written where the map says that one equal to it is.        *)
Mapped(g, d, map, q) ==
  \E m \in DOMAIN g.kind : Leads(g, q, m) /\ g.equal[m] \in DOMAIN map /\ map[g.equal[m]] = q

Copying ==
  /\ Tree(json) /\ Backward(json) /\ Branches(frames, json)
  /\ \A i \in 1 .. Len(frames) : Copied(graph, json, frames[i].at, frames[i].node, frames[i].next - 1)
  /\ \A q \in DOMAIN json : json[q].kind # "marker" /\ ~ OnStack(frames, q) => Whole(graph, json, q)
  /\ \A q \in DOMAIN json : json[q].kind = "object" => Mapped(graph, json, Top(contexts).map, q)

LEMMA LeadsToOne ==
  ASSUME IsGraph(graph), NULL \notin Nodes, NEW p \in Positions,
         NEW n \in Nodes, Leads(graph, p, n), NEW m \in Nodes, Leads(graph, p, m)
  PROVE  n = m
<1>1. Origin(p) = n
  BY OriginFound
<1>2. Origin(p) = m
  BY OriginFound
<1> QED
  BY <1>1, <1>2

LEMMA WritingStack ==
  ASSUME IInv, phase = "serialize"
  PROVE  Stack(frames)
<1>1. /\ Stacked(frames, contexts, json) /\ Len(frames) \in Nat \ {0} /\ DOMAIN json \subseteq Positions
      /\ \A i \in 1 .. Len(frames) : frames[i].at \in DOMAIN json
  BY WritingAt DEF Writing, IInv, IsDocument
<1> QED
  BY <1>1 DEF Stacked, Stack

LEMMA CopyingMemberStep ==
  ASSUME IInv, MarkersInv, Simple, Copying, SerializeMember
  PROVE  Copying' /\ phase' = "serialize"
<1>1. PICK name \in STRING, v \in Nodes, at \in Positions, node \in Values : Visits(name, v, at, node)
  BY MemberVisited
<1> DEFINE n == Len(frames)
           f == Top(frames)
           p == f.at
           map == Top(contexts).map
           e == graph.equal[v]
<1>2. phase = "serialize"
  BY DEF SerializeMember
<1>3. /\ Writing /\ IsGraph(graph) /\ n \in Nat \ {0} /\ f = frames[n]
      /\ \A i \in 1 .. n : frames[i].at \in DOMAIN json /\ frames[i].node \in Nodes
      /\ f.next \in Nat \ {0}
  BY <1>2, WritingAt
<1>4. Stack(frames) /\ \A i \in 1 .. n : Len(frames[i].at) = i - 1
  BY <1>2, WritingStack DEF Stack
<1>5. /\ f.next \in DOMAIN graph.members[f.node]
      /\ graph.members[f.node][f.next].name = name
      /\ at = Append(p, name) /\ Leads(graph, at, v) /\ graph.kind[v] \in {"object", "list"}
      /\ graph' = graph /\ phase' = "serialize"
      /\ Longer(json, p, name, at, node, json')
  BY <1>1 DEF Visits
<1>6. /\ \A i \in 1 .. n - 1 : frames'[i] = frames[i]
      /\ frames'[n].at = p /\ frames'[n].node = f.node /\ frames'[n].next = f.next + 1
      /\ \/ /\ graph.kind[v] = "object" /\ e \in DOMAIN map
            /\ node = Marker(map[e]) /\ Len(frames') = n /\ Top(contexts').map = map
         \/ /\ graph.kind[v] = "object" => e \notin DOMAIN map
            /\ node = Node(graph.kind[v]) /\ Len(frames') = n + 1
            /\ frames'[n + 1].at = at /\ frames'[n + 1].node = v /\ frames'[n + 1].next = 1
            /\ Top(contexts').map = IF graph.kind[v] = "object" THEN With(map, e, at) ELSE map
  BY <1>1 DEF Visits
<1>7. /\ DOMAIN json' = DOMAIN json \cup {at} /\ at \notin DOMAIN json /\ at # p /\ json'[at] = node
      /\ \A q \in DOMAIN json : /\ json'[q].kind = json[q].kind /\ json'[q].ref = json[q].ref
                                /\ q # p => json'[q].members = json[q].members
      /\ \A i \in DOMAIN json[p].members :
           i \in DOMAIN json'[p].members /\ json'[p].members[i] = json[p].members[i]
      /\ json'[p].members[Len(json[p].members) + 1] = name
      /\ json'[p].members \in Seq(STRING) /\ Len(json'[p].members) = Len(json[p].members) + 1
  <2>1. p \in DOMAIN json
    <3> HIDE DEF n, f
    <3>1. n \in 1 .. n
      BY <1>3
    <3> QED
      BY <1>3, <3>1 DEF f
  <2> QED
    BY <1>5, <2>1 DEF Longer
<1>8. node.members = <<>> /\ (node.kind = "marker" => node.ref = map[e] /\ e \in DOMAIN map)
      /\ (node.kind = "object" => e \notin DOMAIN map /\ Len(frames') = n + 1)
  BY <1>5, <1>6 DEF Marker, Node
<1>9. /\ IsDocument(json) /\ DOMAIN json \subseteq Positions /\ p \in DOMAIN json /\ p \in Seq(STRING)
      /\ Len(p) = n - 1 /\ json[p].kind # "marker" /\ f.node \in Nodes
  <2>1. IsDocument(json) /\ DOMAIN json \subseteq Positions
    BY DEF IInv, IsDocument
  <2>2. json[frames[n].at].kind = graph.kind[frames[n].node] /\ n \in 1 .. n
    BY <1>3 DEF Writing
  <2>3. graph.kind[f.node] \in Kinds
    BY <1>3 DEF IsGraph, Nodes
  <2>4. f.at \in DOMAIN json /\ f.node \in Nodes /\ Len(f.at) = n - 1
    <3> HIDE DEF n, f
    <3> QED
      BY <1>3, <1>4, <2>2
  <2> QED
    BY <1>3, <2>1, <2>2, <2>3, <2>4 DEF Kinds, Positions
<1>10. /\ Tree(json) /\ Backward(json) /\ Branches(frames, json)
       /\ \A i \in 1 .. n : Copied(graph, json, frames[i].at, frames[i].node, frames[i].next - 1)
       /\ \A q \in DOMAIN json : json[q].kind # "marker" /\ ~ OnStack(frames, q) => Whole(graph, json, q)
       /\ \A q \in DOMAIN json : json[q].kind = "object" => Mapped(graph, json, map, q)
  BY DEF Copying
<1> HIDE DEF f, map, e
<1>11. Tree(json')
  <2> HIDE DEF n
  <2> QED
    BY <1>5, <1>8, <1>9, <1>10, TreeGrows
<1>12. \A i \in 1 .. n : frames'[i].at = frames[i].at /\ frames'[i].node = frames[i].node
  <2> HIDE DEF n
  <2> SUFFICES ASSUME NEW i \in 1 .. n
               PROVE  frames'[i].at = frames[i].at /\ frames'[i].node = frames[i].node
    OBVIOUS
  <2>1. CASE i = n
    BY <1>3, <1>6, <2>1 DEF p
  <2>2. CASE i # n
    <3>1. i \in 1 .. n - 1
      BY <1>3, <2>2
    <3> QED
      BY <1>6, <3>1
  <2> QED
    BY <2>1, <2>2
<1>13. Top(json'[p].members) = name /\ json'[p].members # <<>>
  <2> DEFINE ms == json'[p].members
  <2>1. ms \in Seq(STRING) /\ Len(ms) = Len(json[p].members) + 1 /\ ms[Len(json[p].members) + 1] = name
    BY <1>7
  <2>2. Len(json[p].members) \in Nat
    BY <1>9, LenProperties DEF IsDocument
  <2> HIDE DEF ms
  <2>3. ms[Len(ms)] = name /\ ms # <<>>
    BY <2>1, <2>2, EmptySeq
  <2> QED
    BY <2>3 DEF ms, Top
<1>14. ASSUME NEW i \in 1 .. n - 1
       PROVE  json'[frames[i].at].members = json[frames[i].at].members
  <2> HIDE DEF n, p
  <2>1. i \in 1 .. n /\ i # n
    BY <1>3
  <2>2. frames[i].at \in DOMAIN json /\ Len(frames[i].at) = i - 1 /\ i - 1 # n - 1
    BY <1>3, <1>4, <2>1
  <2>3. frames[i].at # p
    BY <1>9, <2>2
  <2> QED
    BY <1>7, <2>2, <2>3
<1>15. Branches(frames, json')
  BY <1>10, <1>14 DEF Branches
<1>16. Backward(json')
  <2>1. ASSUME node.kind = "marker", NEW X \in SUBSET DOMAIN json', Passed(json', X, at)
        PROVE  node.ref \in X
    <3>1. IsDocument(json')
      BY SerializeMemberStep DEF IInv
    <3>2. Stands(graph, json, map[e], e)
      BY <1>2, <1>8, <2>1 DEF MarkersInv, Placed, map
    <3>3. map[e] \in DOMAIN json' /\ map[e] # at
      BY <1>7, <3>2 DEF Stands
    <3>4. \A i \in 1 .. Len(frames) : frames[i].at \in DOMAIN json'
      BY <1>3, <1>7
    <3>5. /\ at \in DOMAIN json' /\ at = Append(frames[Len(frames)].at, name)
          /\ json'[at].members = <<>> /\ Top(json'[frames[Len(frames)].at].members) = name
      BY <1>3, <1>5, <1>7, <1>8, <1>13 DEF p
    <3>6. map[e] \in X
      <4> DEFINE d2 == json'
                 q == map[e]
      <4>1. LastIs(d2, frames, name, at) /\ Passed(d2, X, at) /\ q \in DOMAIN d2 /\ q # at
        BY <1>4, <1>11, <1>15, <2>1, <3>1, <3>3, <3>4, <3>5 DEF LastIs
      <4> HIDE DEF n, p, d2, q
      <4>2. q \in X
        BY <4>1, PassedHasAll
      <4> QED
        BY <4>2 DEF q
    <3> QED
      BY <1>8, <2>1, <3>6
  <2> HIDE DEF n, p
  <2> QED
    BY <1>5, <1>9, <1>10, <2>1, BackwardGrows
<1>17. ASSUME NEW i \in 1 .. n
       PROVE  Copied(graph, json', frames'[i].at, frames'[i].node, frames'[i].next - 1)
  <2>1. CASE i # n
    <3>1. i \in 1 .. n - 1
      BY <1>3, <2>1
    <3>2. frames'[i] = frames[i] /\ json'[frames[i].at].members = json[frames[i].at].members
      BY <1>6, <1>14, <3>1
    <3> QED
      BY <1>10, <3>2 DEF Copied
  <2>2. CASE i = n
    <3> DEFINE k == f.next - 1
               ms == json[p].members
               ms2 == json'[p].members
               gs == graph.members[f.node]
    <3>1. Copied(graph, json, p, f.node, k)
      BY <1>3, <1>10, <2>2 DEF p
    <3>2. /\ Len(ms) = k /\ k \in Nat /\ f.next = k + 1
          /\ \A j \in 1 .. k : ms[j] = gs[j].name
      BY <1>3, <3>1 DEF Copied
    <3>3. /\ Len(ms2) = k + 1 /\ ms2[k + 1] = gs[k + 1].name
          /\ \A j \in 1 .. k : ms2[j] = ms[j]
      <4>1. DOMAIN ms = 1 .. Len(ms)
        BY <1>9, LenProperties DEF IsDocument
      <4> HIDE DEF k, p
      <4> QED
        BY <1>5, <1>7, <3>2, <4>1
    <3>4. f.next \in 1 .. Len(gs) /\ Len(gs) \in Nat
      <4>1. gs \in Seq([name : STRING, value : DOMAIN graph.kind])
        BY <1>3, <1>9 DEF IsGraph, Nodes
      <4> QED
        BY <1>5, <4>1, LenProperties
    <3> HIDE DEF k, ms, gs, ms2
    <3>5. \A j \in 1 .. k + 1 : ms2[j] = gs[j].name
      <4> SUFFICES ASSUME NEW j \in 1 .. k + 1 PROVE ms2[j] = gs[j].name
        OBVIOUS
      <4>1. CASE j = k + 1
        BY <3>3, <4>1
      <4>2. CASE j # k + 1
        <5>1. j \in 1 .. k
          BY <3>2, <4>2
        <5> QED
          BY <3>2, <3>3, <5>1
      <4> QED
        BY <4>1, <4>2
    <3>6. frames'[n].next - 1 = k + 1 /\ k + 1 \in Nat /\ k + 1 <= Len(gs)
      BY <1>6, <3>2, <3>4
    <3>7. Copied(graph, json', p, f.node, k + 1)
      BY <3>3, <3>5, <3>6 DEF Copied, ms2, gs
    <3> QED
      BY <1>6, <2>2, <3>6, <3>7
  <2> QED
    BY <2>1, <2>2
<1>18. ASSUME NEW q \in DOMAIN json, q # p, Whole(graph, json, q)
       PROVE  Whole(graph, json', q)
  BY <1>7, <1>18 DEF Whole, Copied
<1>19. OnStack(frames, p)
  <2>1. n \in 1 .. n
    BY <1>3
  <2> QED
    BY <1>3, <2>1 DEF OnStack, p
<1>20. ASSUME NEW q \in DOMAIN json, json[q].kind # "marker", ~ OnStack(frames, q)
       PROVE  Whole(graph, json', q)
  BY <1>10, <1>18, <1>19, <1>20
<1>21. CASE /\ graph.kind[v] = "object" /\ e \in DOMAIN map
            /\ node = Marker(map[e]) /\ Len(frames') = n /\ Top(contexts').map = map
  <2>1. Branches(frames', json')
    <3> SUFFICES ASSUME NEW i \in 1 .. n - 1
                 PROVE  /\ json'[frames'[i].at].members # <<>>
                        /\ Top(json'[frames'[i].at].members) = frames'[i + 1].at[i]
      BY <1>21 DEF Branches
    <3>1. i \in 1 .. n /\ i + 1 \in 1 .. n
      BY <1>3
    <3>2. frames'[i].at = frames[i].at /\ frames'[i + 1].at = frames[i + 1].at
      BY <1>12, <3>1
    <3> QED
      BY <1>15, <3>2 DEF Branches
  <2>2. ASSUME NEW q \in DOMAIN json', json'[q].kind # "marker", ~ OnStack(frames', q)
        PROVE  Whole(graph, json', q)
    <3>1. q # at
      BY <1>7, <1>21, <2>2 DEF Marker
    <3>2. q \in DOMAIN json /\ json[q].kind # "marker"
      BY <1>7, <2>2, <3>1
    <3>3. ~ OnStack(frames, q)
      BY <1>12, <1>21, <2>2 DEF OnStack
    <3> QED
      BY <1>20, <3>2, <3>3
  <2>3. ASSUME NEW q \in DOMAIN json', json'[q].kind = "object"
        PROVE  Mapped(graph, json', Top(contexts').map, q)
    <3>1. q \in DOMAIN json /\ json[q].kind = "object"
      BY <1>7, <1>21, <2>3 DEF Marker
    <3> QED
      BY <1>10, <1>21, <3>1 DEF Mapped
  <2> QED
    BY <1>5, <1>11, <1>16, <1>17, <1>21, <2>1, <2>2, <2>3 DEF Copying
<1>22. CASE /\ graph.kind[v] = "object" => e \notin DOMAIN map
            /\ node = Node(graph.kind[v]) /\ Len(frames') = n + 1
            /\ frames'[n + 1].at = at /\ frames'[n + 1].node = v /\ frames'[n + 1].next = 1
            /\ Top(contexts').map = IF graph.kind[v] = "object" THEN With(map, e, at) ELSE map
  <2>1. Branches(frames', json')
    <3> SUFFICES ASSUME NEW i \in 1 .. n
                 PROVE  /\ json'[frames'[i].at].members # <<>>
                        /\ Top(json'[frames'[i].at].members) = frames'[i + 1].at[i]
      BY <1>3, <1>22 DEF Branches
    <3>1. CASE i = n
      <4>1. at[n] = name
        <5>1. Append(p, name)[Len(p) + 1] = name
          BY <1>9, FrontOfAppend
        <5>2. Len(p) + 1 = n
          BY <1>3, <1>9
        <5> QED
          BY <1>5, <5>1, <5>2
      <4>2. frames'[i].at = p
        BY <1>6, <3>1
      <4> QED
        BY <1>13, <1>22, <3>1, <4>1, <4>2
    <3>2. CASE i # n
      <4>1. i \in 1 .. n - 1 /\ i + 1 \in 1 .. n
        BY <1>3, <3>2
      <4>2. frames'[i].at = frames[i].at /\ frames'[i + 1].at = frames[i + 1].at
        BY <1>12, <4>1
      <4> QED
        BY <1>15, <4>1, <4>2 DEF Branches
    <3> QED
      BY <3>1, <3>2
  <2>2. ASSUME NEW i \in 1 .. n + 1
        PROVE  Copied(graph, json', frames'[i].at, frames'[i].node, frames'[i].next - 1)
    <3>1. CASE i = n + 1
      <4>1. json'[at].members = <<>> /\ frames'[i].next - 1 = 0 /\ frames'[i].at = at /\ frames'[i].node = v
        BY <1>7, <1>8, <1>22, <3>1
      <4>2. Len(<<>>) = 0 /\ Len(graph.members[v]) \in Nat
        BY <1>3, EmptySeq, LenProperties DEF IsGraph, Nodes
      <4>3. Copied(graph, json', at, v, 0)
        BY <4>1, <4>2 DEF Copied
      <4> QED
        BY <4>1, <4>3
    <3>2. CASE i # n + 1
      <4>1. i \in 1 .. n
        BY <1>3, <3>2
      <4> QED
        BY <1>17, <4>1
    <3> QED
      BY <3>1, <3>2
  <2>3. ASSUME NEW q \in DOMAIN json', json'[q].kind # "marker", ~ OnStack(frames', q)
        PROVE  Whole(graph, json', q)
    <3>1. q # at
      <4>1. n + 1 \in 1 .. n + 1
        BY <1>3
      <4> QED
        BY <1>22, <2>3, <4>1 DEF OnStack
    <3>2. q \in DOMAIN json /\ json[q].kind # "marker"
      BY <1>7, <2>3, <3>1
    <3>3. ~ OnStack(frames, q)
      <4> SUFFICES ASSUME NEW i \in 1 .. n, frames[i].at = q PROVE FALSE
        BY DEF OnStack
      <4>1. i \in 1 .. n + 1 /\ frames'[i].at = q
        BY <1>3, <1>12
      <4> QED
        BY <1>22, <2>3, <4>1 DEF OnStack
    <3> QED
      BY <1>20, <3>2, <3>3
  <2>4. ASSUME NEW q \in DOMAIN json', json'[q].kind = "object"
        PROVE  Mapped(graph, json', Top(contexts').map, q)
    <3>1. CASE q = at
      <4>1. graph.kind[v] = "object"
        BY <1>7, <1>22, <2>4, <3>1 DEF Node
      <4>2. e \in DOMAIN Top(contexts').map /\ Top(contexts').map[e] = at
        BY <1>22, <4>1 DEF With
      <4> QED
        BY <1>5, <3>1, <4>2 DEF Mapped, e, Nodes
    <3>2. CASE q # at
      <4>1. q \in DOMAIN json /\ json[q].kind = "object"
        BY <1>7, <2>4, <3>2
      <4>2. PICK m \in DOMAIN graph.kind : Leads(graph, q, m) /\ graph.equal[m] \in DOMAIN map /\ map[graph.equal[m]] = q
        BY <1>10, <4>1 DEF Mapped
      <4>3. graph.equal[m] \in DOMAIN Top(contexts').map /\ Top(contexts').map[graph.equal[m]] = q
        BY <1>22, <4>2 DEF With
      <4> QED
        BY <4>2, <4>3 DEF Mapped
    <3> QED
      BY <3>1, <3>2
  <2> QED
    BY <1>5, <1>11, <1>16, <1>22, <2>1, <2>2, <2>3, <2>4 DEF Copying
<1> QED
  BY <1>5, <1>6, <1>21, <1>22

(* Two positions of objects that lead to what is equal are one.            *)
Single(g, d) ==
  \A q1, q2 \in DOMAIN d : \A m1, m2 \in DOMAIN g.kind :
    d[q1].kind = "object" /\ d[q2].kind = "object" /\ Leads(g, q1, m1) /\ Leads(g, q2, m2)
      /\ g.equal[m1] = g.equal[m2] => q1 = q2

(* What has been written when everything has.                              *)
Text(g, d) ==
  /\ Tree(d) /\ Backward(d) /\ Single(g, d)
  /\ \A q \in DOMAIN d : d[q].kind # "marker" => Whole(g, d, q)

LEMMA CopyingReturnStep ==
  ASSUME IInv, MarkersInv, Simple, Copying, SerializeReturn
  PROVE  /\ phase' = "serialize" => Copying'
         /\ phase' = "deserialize" => Text(graph', json')
         /\ phase' \in {"serialize", "deserialize"}
<1> DEFINE n == Len(frames)
           kind == graph.kind[frames[n - 1].node]
           C == Contexts(Nodes, Positions)
           f == frames[n]
<1>1. /\ phase = "serialize" /\ UNCHANGED <<graph, json>> /\ f.next > Len(graph.members[f.node])
      /\ \/ /\ n > 1 /\ frames' = Front(frames)
            /\ contexts' = LeaveWritten(contexts, kind) /\ phase' = phase
         \/ n = 1 /\ phase' = "deserialize"
  BY DEF SerializeReturn, Top
<1>2. /\ Writing /\ n \in Nat \ {0} /\ contexts # <<>> /\ IsGraph(graph)
      /\ \A i \in 1 .. n : frames[i].at \in DOMAIN json /\ frames[i].node \in Nodes
  BY <1>1, WritingAt
<1>3. /\ Tree(json) /\ Backward(json) /\ Branches(frames, json)
      /\ \A i \in 1 .. n : Copied(graph, json, frames[i].at, frames[i].node, frames[i].next - 1)
      /\ \A q \in DOMAIN json : json[q].kind # "marker" /\ ~ OnStack(frames, q) => Whole(graph, json, q)
      /\ \A q \in DOMAIN json : json[q].kind = "object" => Mapped(graph, json, Top(contexts).map, q)
  BY DEF Copying
<1>4. Whole(graph, json, f.at)
  <2> HIDE DEF f
  <2>1. n \in 1 .. n
    BY <1>2
  <2>2. Leads(graph, f.at, f.node)
    BY <1>1, <2>1 DEF MarkersInv, Placed, f
  <2>3. json[f.at].kind = graph.kind[f.node] /\ f.node \in DOMAIN graph.kind
    BY <1>2, <2>1 DEF Writing, f, Nodes
  <2>4. Copied(graph, json, f.at, f.node, f.next - 1)
    BY <1>3, <2>1 DEF f
  <2>5. Len(graph.members[f.node]) \in Nat /\ f.next \in Nat
    <3>1. Len(graph.members[f.node]) \in Nat
      BY <1>2, <2>3, LenProperties DEF IsGraph
    <3>2. f \in Frames(Nodes, DOMAIN json)
      BY <1>2, <2>1, ElementOfSeq DEF Writing, f
    <3> QED
      BY <3>1, <3>2 DEF Frames
  <2>6. f.next - 1 <= Len(graph.members[f.node])
    BY <2>4 DEF Copied
  <2>7. f.next - 1 = Len(graph.members[f.node])
    BY <1>1, <2>5, <2>6
  <2> QED
    BY <2>2, <2>3, <2>4, <2>7 DEF Whole
<1>5. CASE n > 1 /\ frames' = Front(frames) /\ contexts' = LeaveWritten(contexts, kind) /\ phase' = phase
  <2>1. /\ Len(frames') = n - 1
        /\ \A i \in 1 .. n - 1 : frames'[i] = frames[i]
    <3>1. frames \in Seq(Frames(Nodes, DOMAIN json)) /\ frames # <<>>
      BY <1>2 DEF Writing
    <3> QED
      BY <1>5, <3>1, FrontTyped
  <2>2. Top(contexts').map = Top(contexts).map
    <3>1. contexts \in Seq(C)
      BY <1>2 DEF Writing
    <3>2. n - 1 \in 1 .. n
      BY <1>2, <1>5
    <3>3. kind \in {"object", "list"}
      BY <1>2, <3>2 DEF Simple, Range, Nodes
    <3> HIDE DEF kind
    <3> QED
      BY <1>2, <1>5, <3>1, <3>3, Left
  <2>3. \A i \in 1 .. n - 1 : i \in 1 .. n
    BY <1>2
  <2>4. Branches(frames', json)
    <3> SUFFICES ASSUME NEW i \in 1 .. n - 1 - 1
                 PROVE  /\ json[frames'[i].at].members # <<>>
                        /\ Top(json[frames'[i].at].members) = frames'[i + 1].at[i]
      BY <2>1 DEF Branches
    <3>1. i \in 1 .. n - 1 /\ i + 1 \in 1 .. n - 1
      BY <1>2
    <3> QED
      BY <1>3, <2>1, <3>1 DEF Branches
  <2>5. ASSUME NEW q \in DOMAIN json, json[q].kind # "marker", ~ OnStack(frames', q)
        PROVE  Whole(graph, json, q)
    <3>1. CASE q = f.at
      BY <1>4, <3>1
    <3>2. CASE q # f.at
      <4>1. ASSUME NEW i \in 1 .. n, frames[i].at = q PROVE FALSE
        <5>1. i # n
          BY <3>2, <4>1
        <5>2. i \in 1 .. n - 1
          BY <1>2, <5>1
        <5> QED
          BY <2>1, <2>5, <4>1, <5>2 DEF OnStack
      <4>2. ~ OnStack(frames, q)
        BY <4>1 DEF OnStack
      <4> QED
        BY <1>3, <2>5, <4>2
    <3> QED
      BY <3>1, <3>2
  <2>6. \A i \in 1 .. n - 1 : Copied(graph, json, frames'[i].at, frames'[i].node, frames'[i].next - 1)
    BY <1>3, <2>1, <2>3
  <2>7. \A q \in DOMAIN json : json[q].kind = "object" => Mapped(graph, json, Top(contexts').map, q)
    BY <1>3, <2>2
  <2>8. Copying'
    BY <1>1, <1>3, <2>1, <2>4, <2>5, <2>6, <2>7 DEF Copying
  <2> QED
    BY <1>1, <1>5, <2>8
<1>6. CASE n = 1 /\ phase' = "deserialize"
  <2>1. ASSUME NEW q \in DOMAIN json, json[q].kind # "marker" PROVE Whole(graph, json, q)
    <3>1. CASE OnStack(frames, q)
      <4>1. q = f.at
        BY <1>6, <3>1 DEF OnStack
      <4> QED
        BY <1>4, <4>1
    <3>2. CASE ~ OnStack(frames, q)
      BY <1>3, <2>1, <3>2
    <3> QED
      BY <3>1, <3>2
  <2>2. NULL \notin Nodes /\ DOMAIN json \subseteq Positions
    BY <1>2, GraphsAssumption DEF Writing, IInv, IsDocument, Nodes
  <2>3. ASSUME NEW q \in DOMAIN json, json[q].kind = "object", NEW m \in DOMAIN graph.kind, Leads(graph, q, m)
        PROVE  Top(contexts).map[graph.equal[m]] = q
    <3>1. PICK k \in DOMAIN graph.kind :
            Leads(graph, q, k) /\ Top(contexts).map[graph.equal[k]] = q
      BY <1>3, <2>3 DEF Mapped
    <3>2. k = m
      BY <1>2, <2>2, <2>3, <3>1, LeadsToOne DEF Nodes
    <3> QED
      BY <3>1, <3>2
  <2>4. Single(graph, json)
    <3> SUFFICES ASSUME NEW q1 \in DOMAIN json, NEW q2 \in DOMAIN json,
                        NEW m1 \in DOMAIN graph.kind, NEW m2 \in DOMAIN graph.kind,
                        json[q1].kind = "object", json[q2].kind = "object",
                        Leads(graph, q1, m1), Leads(graph, q2, m2), graph.equal[m1] = graph.equal[m2]
                 PROVE  q1 = q2
      BY DEF Single
    <3>1. Top(contexts).map[graph.equal[m1]] = q1
      BY <2>3
    <3>2. Top(contexts).map[graph.equal[m2]] = q2
      BY <2>3
    <3> QED
      BY <3>1, <3>2
  <2>5. Text(graph, json)
    BY <1>3, <2>1, <2>4 DEF Text
  <2> QED
    BY <1>1, <1>6, <2>5
<1> QED
  BY <1>1, <1>5, <1>6

LEMMA CopyingInit ==
  ASSUME Init, IInv, Simple
  PROVE  Copying /\ phase = "serialize"
<1>1. PICK g \in Graphs : InitSerialize(g)
  BY DEF Init, InitDeserialize, Simple
<1> DEFINE m == [k \in {g.equal[g.root]} |-> <<>>]
<1>2. /\ graph = g /\ frames = <<Frame(g.root, <<>>)>> /\ phase = "serialize"
      /\ contexts = <<[NewContext EXCEPT !.map = m]>>
      /\ json = [p \in {<<>>} |-> Node(g.kind[g.root])]
  BY <1>1 DEF InitSerialize
<1>3. IsGraph(graph) /\ graph.root \in DOMAIN graph.kind /\ graph.kind[graph.root] \in Kinds
  <2>1. IsGraph(graph)
    BY <1>2, GraphsAssumption
  <2> QED
    BY <2>1 DEF IsGraph
<1>4. /\ DOMAIN json = {<<>>} /\ json[<<>>].kind # "marker" /\ json[<<>>].members = <<>>
      /\ DOMAIN <<>> = {} /\ Len(<<>>) = 0
  BY <1>2, <1>3 DEF Node, Kinds
<1>5. Leads(graph, <<>>, graph.root)
  BY <1>3, LeadsFrom
<1>6. Len(frames) = 1 /\ frames[1].at = <<>> /\ frames[1].node = graph.root /\ frames[1].next = 1
  BY <1>2 DEF Frame
<1>7. Top(contexts).map = m
  <2> HIDE DEF m
  <2> QED
    BY <1>2 DEF NewContext, Top
<1>8. Tree(json) /\ Backward(json) /\ Branches(frames, json)
  BY <1>4, <1>6 DEF Tree, Backward, Branches
<1>9. Copied(graph, json, <<>>, graph.root, 0)
  <2>1. Len(graph.members[graph.root]) \in Nat
    BY <1>3, LenProperties DEF IsGraph
  <2> QED
    BY <1>4, <2>1 DEF Copied
<1>10. \A i \in 1 .. Len(frames) : Copied(graph, json, frames[i].at, frames[i].node, frames[i].next - 1)
  BY <1>6, <1>9
<1>11. Mapped(graph, json, Top(contexts).map, <<>>)
  BY <1>2, <1>3, <1>5, <1>7 DEF Mapped
<1>12. OnStack(frames, <<>>)
  BY <1>6 DEF OnStack
<1> QED
  BY <1>2, <1>4, <1>8, <1>10, <1>11, <1>12 DEF Copying

------------------------------------------------------------------------------
(* What reading has noted of V: of every marker that it is to be set to    *)
(* the object it names, which has been met, and of the objects whose calls *)
(* have returned that they are there.                                      *)
Noted(d, V, fs, map) ==
  /\ DOMAIN map \subseteq V
  /\ \A s \in DOMAIN map :
       /\ map[s].object \in {s, NULL}
       /\ \A p \in map[s].targets : p \in V /\ d[p].kind = "marker" /\ d[p].ref = s
  /\ \A p \in V : d[p].kind = "marker" => d[p].ref \in DOMAIN map /\ p \in map[d[p].ref].targets
  /\ \A p \in V : d[p].kind = "object" => p \in DOMAIN map /\ (~ OnStack(fs, p) => map[p].complete)

(* What has been read are the members before the next of each call, and    *)
(* all that is in them.                                                    *)
ReadBefore(d, V, fs) ==
  /\ \A p \in V : p # <<>> => Front(p) \in V
  /\ \A i \in 1 .. Len(fs) : \A j \in DOMAIN d[fs[i].at].members :
       Append(fs[i].at, d[fs[i].at].members[j]) \in V <=> j < fs[i].next
  /\ \A i \in 1 .. Len(fs) - 1 :
       /\ fs[i].next - 1 \in DOMAIN d[fs[i].at].members
       /\ d[fs[i].at].members[fs[i].next - 1] = fs[i + 1].at[i]
  /\ \A q \in V : ~ OnStack(fs, q) =>
       \A j \in DOMAIN d[q].members : Append(q, d[q].members[j]) \in V

Noting ==
  /\ \A p \in DOMAIN value : value[p] = IF json[p].kind = "marker" THEN NULL ELSE p
  /\ \A i \in 1 .. Len(frames) : json[frames[i].at].kind # "marker"
  /\ ReadBefore(json, DOMAIN value, frames)
  /\ Noted(json, DOMAIN value, frames, Top(contexts).map)

LEMMA TextKinds ==
  ASSUME Simple, IInv, Text(graph, json), NEW q \in DOMAIN json
  PROVE  json[q].kind \in {"object", "list", "marker"}
<1>1. CASE json[q].kind = "marker"
  BY <1>1
<1>2. CASE json[q].kind # "marker"
  <2>1. PICK m \in DOMAIN graph.kind : json[q].kind = graph.kind[m]
    BY <1>2 DEF Text, Whole
  <2> QED
    BY <2>1 DEF Simple, Range
<1> QED
  BY <1>1, <1>2

(* Reading such a text nests no context, and pushes where it is.           *)
ReadsAlone ==
  /\ Stack(frames) /\ Len(contexts) = 1 /\ contexts # <<>>
  /\ contexts \in Seq(Contexts(Positions, Known(DOMAIN value)))
  /\ Top(contexts).location = frames[Len(frames)].at
  /\ \A i \in 1 .. Len(frames) : frames[i].at \in DOMAIN value /\ frames[i].next \in Nat \ {0}

LEMMA ReadingAlone ==
  ASSUME Simple, IInv, Text(graph, json), phase = "deserialize"
  PROVE  ReadsAlone
<1>1. /\ Reading /\ Len(frames) \in Nat \ {0}
      /\ \A i \in 1 .. Len(frames) : frames[i].at \in DOMAIN value /\ frames[i].at \in Positions
      /\ contexts # <<>> /\ DOMAIN value \subseteq DOMAIN json
  BY ReadingAt DEF IInv
<1>2. Nested(frames, json) = {}
  <2> SUFFICES ASSUME NEW i \in 1 .. Len(frames) - 1, json[frames[i].at].kind = "custom" PROVE FALSE
    BY DEF Nested
  <2>1. frames[i].at \in DOMAIN json
    BY <1>1
  <2> QED
    BY <2>1, TextKinds
<1>3. Len(contexts) = 1
  <2>1. Len(contexts) = Cardinality(Nested(frames, json)) + 1
    BY <1>1 DEF Reading, Stacked
  <2>2. Cardinality(Nested(frames, json)) = 0
    BY <1>2, FS_EmptySet, Zenon
  <2> QED
    BY <2>1, <2>2
<1>4. contexts[1].location = frames[Len(frames)].at
  <2> HIDE DEF Nested
  <2> QED
    BY <1>1, <1>2 DEF Reading, Located
<1>5. Stack(frames)
  BY <1>1 DEF Reading, Stacked, Stack
<1>6. \A i \in 1 .. Len(frames) : frames[i].next \in Nat \ {0}
  <2>1. \A i \in 1 .. Len(frames) : frames[i] \in Frames({NULL}, DOMAIN value)
    BY <1>1, ElementOfSeq DEF Reading
  <2> QED
    BY <2>1 DEF Frames
<1> QED
  BY <1>1, <1>3, <1>4, <1>5, <1>6 DEF Reading, ReadsAlone, Top

LEMMA LeftReading ==
  ASSUME NEW K, NEW R, NEW cs \in Seq(Contexts(K, R)), cs # <<>>, NEW kind \in {"object", "list"}
  PROVE  Top(LeaveRead(cs, kind)).map = Top(cs).map
<1>1. LeaveRead(cs, kind) = LeaveWritten(cs, kind)
  BY DEF LeaveRead, LeaveWritten
<1> QED
  BY <1>1, Left

(* What is on the way to the next member, before it, or in something that  *)
(* has been read has been read.                                            *)
LEMMA NextPassed ==
  ASSUME NEW d, IsDocument(d), Tree(d), NEW V, NEW fs, Stack(fs), ReadBefore(d, V, fs),
         \A i \in 1 .. Len(fs) : fs[i].at \in V /\ fs[i].next \in Nat \ {0},
         NEW name \in STRING, NEW p, p = Append(fs[Len(fs)].at, name),
         fs[Len(fs)].next \in DOMAIN d[fs[Len(fs)].at].members,
         d[fs[Len(fs)].at].members[fs[Len(fs)].next] = name
  PROVE  Passed(d, V, p)
<1> DEFINE n == Len(fs)
<1>1. n \in Nat \ {0} /\ \A i \in 1 .. n : fs[i].at \in V /\ fs[i].next \in Nat \ {0}
  BY DEF Stack
<1>2. LeadsTo(fs, name, p)
  BY OnTheWay
<1>3. /\ p[n] = name
      /\ \A i \in 1 .. n : Above(fs[i].at, p)
      /\ \A i \in 1 .. n - 1 : fs[i + 1].at[i] = p[i]
      /\ \A a \in Positions : Above(a, p) => Len(a) + 1 \in 1 .. n /\ a = fs[Len(a) + 1].at
  BY <1>2 DEF LeadsTo
<1>4. /\ \A i \in 1 .. n : \A j \in DOMAIN d[fs[i].at].members :
           Append(fs[i].at, d[fs[i].at].members[j]) \in V <=> j < fs[i].next
      /\ \A i \in 1 .. n - 1 :
           /\ fs[i].next - 1 \in DOMAIN d[fs[i].at].members
           /\ d[fs[i].at].members[fs[i].next - 1] = fs[i + 1].at[i]
      /\ \A q \in V : ~ OnStack(fs, q) =>
           \A j \in DOMAIN d[q].members : Append(q, d[q].members[j]) \in V
  BY DEF ReadBefore
<1>5. fs[n].next \in DOMAIN d[fs[n].at].members /\ d[fs[n].at].members[fs[n].next] = name
  OBVIOUS
<1>6. DOMAIN d \subseteq Positions /\ \A a \in DOMAIN d : d[a].members \in Seq(STRING)
  BY DEF IsDocument
<1> HIDE DEF n
<1>7. ASSUME NEW a \in DOMAIN d, Above(a, p)
      PROVE  /\ a \in V
             /\ \A i, j \in DOMAIN d[a].members :
                  i < j /\ d[a].members[j] = p[Len(a) + 1] => Append(a, d[a].members[i]) \in V
  <2> DEFINE k == Len(a) + 1
             ms == d[a].members
  <2>1. k \in 1 .. n /\ a = fs[k].at
    BY <1>3, <1>6, <1>7
  <2>2. a \in V
    BY <1>1, <2>1
  <2> HIDE DEF k, ms
  <2>3. ASSUME NEW i \in DOMAIN ms, NEW j \in DOMAIN ms, i < j, ms[j] = p[k]
        PROVE  Append(a, ms[i]) \in V
    <3>1. \A x, y \in DOMAIN ms : ms[x] = ms[y] => x = y
      BY <1>7 DEF Tree, ms
    <3>2. i \in Nat /\ j \in Nat /\ fs[k].next \in Nat
      BY <1>1, <1>6, <2>1, <2>3, LenProperties DEF ms
    <3>3. j <= fs[k].next
      <4>1. CASE k = n
        <5>1. j = fs[k].next
          <6> DEFINE nx == fs[n].next
          <6>1. nx \in DOMAIN ms /\ ms[nx] = name
            BY <1>5, <2>1, <4>1 DEF ms
          <6>2. ms[j] = name
            BY <1>3, <2>3, <4>1
          <6> HIDE DEF nx
          <6>3. j = nx
            BY <2>3, <3>1, <6>1, <6>2
          <6> QED
            BY <4>1, <6>3 DEF nx
        <5> QED
          BY <3>2, <5>1
      <4>2. CASE k # n
        <5>1. k \in 1 .. n - 1
          BY <1>1, <2>1, <4>2
        <5>2. fs[k].next - 1 \in DOMAIN ms /\ ms[fs[k].next - 1] = p[k]
          BY <1>3, <1>4, <2>1, <5>1 DEF ms
        <5>3. j = fs[k].next - 1
          BY <2>3, <3>1, <5>2
        <5> QED
          BY <3>2, <5>3
      <4> QED
        BY <4>1, <4>2
    <3>4. i < fs[k].next
      BY <2>3, <3>2, <3>3
    <3> QED
      BY <1>4, <2>1, <2>3, <3>4 DEF ms
  <2> QED
    BY <2>2, <2>3 DEF k, ms
<1>8. ASSUME NEW a \in V, ~ Above(a, p), NEW i \in DOMAIN d[a].members
      PROVE  Append(a, d[a].members[i]) \in V
  <2>1. ~ OnStack(fs, a)
    BY <1>3, <1>8 DEF OnStack, n
  <2> QED
    BY <1>4, <1>8, <2>1
<1> QED
  BY <1>7, <1>8 DEF Passed

(* A step of reading such a text.                                          *)
Reads(name, at) ==
  LET n == Len(frames)
      f == frames[n]
      map == Top(contexts).map
      ref == json[at].ref
  IN /\ f.next \in DOMAIN json[f.at].members /\ json[f.at].members[f.next] = name
     /\ at = Append(f.at, name) /\ at \in DOMAIN json /\ at \notin DOMAIN value
     /\ graph' = graph /\ json' = json /\ phase' = "deserialize"
     /\ \A i \in 1 .. n : frames'[i].at = frames[i].at
     /\ \A i \in 1 .. n - 1 : frames'[i].next = frames[i].next
     /\ frames'[n].next = f.next + 1
     /\ \/ /\ json[at].kind = "marker" /\ ref \in DOMAIN map
           /\ value' = With(value, at, NULL) /\ Len(frames') = n
           /\ Top(contexts').map = With(map, ref, [map[ref] EXCEPT !.targets = @ \cup {at}])
        \/ /\ json[at].kind \in {"object", "list"}
           /\ value' = With(value, at, at)
           /\ Len(frames') = n + 1 /\ frames'[n + 1].at = at /\ frames'[n + 1].next = 1
           /\ Top(contexts').map =
                IF json[at].kind = "object"
                THEN With(map, at, [object |-> NULL, targets |-> {}, complete |-> FALSE]) ELSE map

LEMMA MemberReads ==
  ASSUME Simple, IInv, Text(graph, json), Pointed(graph, json), Noting, DeserializeMember
  PROVE  \E name \in STRING, at \in Positions : Reads(name, at)
<1> DEFINE n == Len(frames)
           f == Top(frames)
           name == json[f.at].members[f.next]
           at == Append(f.at, name)
           kind == json[f.at].kind
           entered == Enter(kind, name)
           c == Top(entered)
           V == DOMAIN value
           C == Contexts(Positions, Known(V))
           map == Top(contexts).map
           ref == json[at].ref
           fresh == [object |-> NULL, targets |-> {}, complete |-> FALSE]
           c1 == [c EXCEPT !.map = AddReference(@, ref, c.location)]
           c2 == [c EXCEPT !.map = With(@, c.location, fresh)]
<1>1. /\ phase = "deserialize" /\ f.next <= Len(json[f.at].members)
      /\ graph' = graph /\ json' = json
      /\ \/ /\ json[at].kind = "marker"
            /\ contexts' = LeaveRead(SetTop(entered, c1), kind)
            /\ value' = With(value, at, NULL)
            /\ frames' = Advance(frames) /\ phase' = phase
         \/ Tracked(json[at].kind) /\ c.location \in DOMAIN c.map
         \/ /\ json[at].kind \in Kinds
            /\ contexts' = IF Tracked(json[at].kind) THEN SetTop(entered, c2) ELSE entered
            /\ value' = With(value, at, at)
            /\ frames' = Called(frames, NULL, at) /\ phase' = phase
  BY Zenon DEF DeserializeMember, Called
<1>2. /\ Reading /\ n \in Nat \ {0} /\ f = frames[n] /\ frames # <<>>
      /\ \A i \in 1 .. n : frames[i].at \in V
      /\ f.next \in Nat \ {0} /\ IsDocument(json) /\ V \subseteq DOMAIN json
      /\ frames \in Seq(Frames({NULL}, V))
  BY <1>1, ReadingAt DEF Reading, IInv
<1>3. /\ name \in STRING /\ at \in DOMAIN json /\ at \in Positions
      /\ json[at].kind = "marker" => json[at].ref \in Positions
  BY <1>1, MemberRead
<1>4. /\ Stack(frames) /\ contexts # <<>> /\ contexts \in Seq(C)
      /\ Top(contexts).location = f.at
      /\ \A i \in 1 .. Len(frames) : frames[i].at \in V /\ frames[i].next \in Nat \ {0}
  BY <1>1, <1>2, ReadingAlone DEF ReadsAlone
<1>5. Tree(json) /\ Backward(json)
  BY DEF Text
<1>6. f.at \in V /\ f.at \in DOMAIN json /\ f.at \in Positions
  <2>1. n \in 1 .. n
    BY <1>2
  <2> QED
    BY <1>2, <2>1 DEF IsDocument
<1>7. f.next \in DOMAIN json[f.at].members
  <2> HIDE DEF f
  <2> DEFINE ms == json[f.at].members
             k == f.next
  <2>1. ms \in Seq(STRING) /\ k \in Nat \ {0} /\ k <= Len(ms)
    BY <1>1, <1>2, <1>6 DEF IsDocument
  <2> HIDE DEF ms, k
  <2>2. DOMAIN ms = 1 .. Len(ms) /\ Len(ms) \in Nat
    BY <2>1, LenProperties
  <2>3. k \in DOMAIN ms
    BY <2>1, <2>2
  <2> QED
    BY <2>3 DEF ms, k
<1>8. at \notin V
  <2>1. n \in 1 .. n /\ ~ (f.next < f.next)
    BY <1>2
  <2> HIDE DEF n, f
  <2>2. Append(f.at, json[f.at].members[f.next]) \in V <=> f.next < f.next
    BY <1>2, <1>7, <2>1 DEF Noting, ReadBefore, n
  <2> QED
    BY <2>1, <2>2
<1>9. kind \in {"object", "list"} /\ json[at].kind \in {"object", "list", "marker"}
  <2>1. kind # "marker"
    <3>1. DOMAIN <<>> = {}
      OBVIOUS
    <3> QED
      BY <1>5, <1>6, <1>7, <3>1 DEF Tree
  <2>2. kind \in {"object", "list", "marker"}
    BY <1>6, TextKinds
  <2>3. json[at].kind \in {"object", "list", "marker"}
    <3> HIDE DEF at
    <3> QED
      BY <1>3, TextKinds
  <2> QED
    BY <2>1, <2>2, <2>3
<1> HIDE DEF f, name, at, kind
<1>10. /\ entered \in Seq(C) /\ entered # <<>> /\ c \in C /\ c.location = at /\ c.map = map
  <2>1. /\ entered \in Seq(C) /\ entered # <<>>
        /\ c.location = Append(Top(contexts).location, name) /\ c.map = Top(contexts).map
    <3> HIDE DEF V
    <3> QED
      BY <1>3, <1>4, <1>9, Entered
  <2>2. c \in C
    <3> HIDE DEF entered, C
    <3> QED
      BY <2>1, TopTyped
  <2> QED
    BY <1>4, <2>1, <2>2 DEF at
<1>11. Noted(json, V, frames, map)
  BY DEF Noting
<1>12. ~ (c.location \in DOMAIN c.map)
  BY <1>8, <1>10, <1>11 DEF Noted
<1>13. ASSUME json[at].kind = "marker"
       PROVE  ref \in DOMAIN map
  <2>1. Passed(json, V, at)
    <3>1. ReadBefore(json, V, frames)
      BY DEF Noting
    <3>2. /\ at = Append(frames[Len(frames)].at, name)
          /\ frames[Len(frames)].next \in DOMAIN json[frames[Len(frames)].at].members
          /\ json[frames[Len(frames)].at].members[frames[Len(frames)].next] = name
      BY <1>2, <1>7 DEF at, name
    <3> HIDE DEF V, C
    <3> QED
      BY <1>2, <1>3, <1>4, <1>5, <3>1, <3>2, NextPassed
  <2>2. ref \in V
    BY <1>2, <1>3, <1>5, <1>13, <2>1 DEF Backward
  <2>3. json[ref].kind = "object"
    BY <1>3, <1>13 DEF Pointed, Stands
  <2> QED
    BY <1>11, <2>2, <2>3 DEF Noted
<1>14. CASE /\ json[at].kind = "marker"
            /\ contexts' = LeaveRead(SetTop(entered, c1), kind)
            /\ value' = With(value, at, NULL)
            /\ frames' = Advance(frames) /\ phase' = phase
  <2>1. AddReference(map, ref, at) = With(map, ref, [map[ref] EXCEPT !.targets = @ \cup {at}])
    BY <1>13, <1>14 DEF AddReference
  <2>2. c1 \in C /\ c1.map = AddReference(map, ref, at)
    <3>1. c.map \in Maps(Positions, Known(V)) /\ ref \in Positions
      BY <1>3, <1>10, <1>14 DEF Contexts
    <3>2. AddReference(c.map, ref, c.location) \in Maps(Positions, Known(V))
      <4> HIDE DEF ref, c, V
      <4> QED
        BY <1>3, <1>10, <3>1, AddReferenceTyped
    <3> HIDE DEF c
    <3> QED
      BY <1>10, <3>2 DEF Contexts
  <2>3. Top(contexts').map = AddReference(map, ref, at)
    <3> HIDE DEF c1, entered, C, c
    <3>1. SetTop(entered, c1) \in Seq(C) /\ SetTop(entered, c1) # <<>> /\ Top(SetTop(entered, c1)) = c1
      BY <1>10, <2>2, SetTopTyped
    <3>2. Top(LeaveRead(SetTop(entered, c1), kind)).map = Top(SetTop(entered, c1)).map
      <4> DEFINE cs == SetTop(entered, c1)
      <4>1. cs \in Seq(Contexts(Positions, Known(V))) /\ cs # <<>>
        BY <3>1 DEF C
      <4> HIDE DEF cs, V
      <4>2. Top(LeaveRead(cs, kind)).map = Top(cs).map
        BY <1>9, <4>1, LeftReading
      <4> QED
        BY <4>2 DEF cs
    <3> QED
      BY <1>14, <2>2, <3>1, <3>2
  <2>4. /\ Len(frames') = n
        /\ \A i \in 1 .. n : frames'[i].at = frames[i].at
        /\ \A i \in 1 .. n - 1 : frames'[i] = frames[i]
        /\ frames'[n].next = frames[n].next + 1
    BY <1>2, <1>14, AdvanceTyped, AdvanceNext
  <2> HIDE DEF ref, map, n, V
  <2>5. Reads(name, at)
    BY <1>1, <1>2, <1>3, <1>7, <1>8, <1>13, <1>14, <2>1, <2>3, <2>4 DEF Reads, name, at, n, ref, map, V
  <2> QED
    BY <1>3, <2>5
<1>15. CASE /\ json[at].kind \in Kinds
            /\ contexts' = IF Tracked(json[at].kind) THEN SetTop(entered, c2) ELSE entered
            /\ value' = With(value, at, at)
            /\ frames' = Called(frames, NULL, at) /\ phase' = phase
  <2>1. /\ json[at].kind \in {"object", "list"}
        /\ Tracked(json[at].kind) <=> json[at].kind = "object"
    BY <1>9, <1>15 DEF Kinds, Tracked
  <2>2. Top(contexts').map = IF json[at].kind = "object" THEN With(map, at, fresh) ELSE map
    <3>1. CASE Tracked(json[at].kind)
      <4>1. c2 \in C /\ c2.map = With(map, at, fresh)
        <5>1. c.map \in Maps(Positions, Known(V)) /\ fresh \in Known(V)
          BY <1>10 DEF Contexts, Known
        <5>2. With(c.map, at, fresh) \in Maps(Positions, Known(V))
          <6> HIDE DEF c, fresh, V
          <6> QED
            BY <1>3, <5>1, WithTyped
        <5> HIDE DEF c, fresh
        <5> QED
          BY <1>10, <5>2 DEF Contexts
      <4>2. contexts' = SetTop(entered, c2)
        BY <1>15, <3>1
      <4> HIDE DEF c2, entered, C, c
      <4>3. Top(contexts') = c2
        BY <1>10, <4>1, <4>2, SetTopTyped
      <4> QED
        BY <2>1, <3>1, <4>1, <4>3
    <3>2. CASE ~ Tracked(json[at].kind)
      BY <1>10, <1>15, <2>1, <3>2
    <3> QED
      BY <3>1, <3>2
  <2>3. /\ Len(frames') = n + 1
        /\ \A i \in 1 .. n : frames'[i].at = frames[i].at
        /\ \A i \in 1 .. n - 1 : frames'[i] = frames[i]
        /\ frames'[n].next = frames[n].next + 1
        /\ frames'[n + 1].at = at /\ frames'[n + 1].next = 1
    <3> DEFINE X == DOMAIN json
               N == {NULL}
               called == Called(frames, NULL, at)
    <3>1. frames \in Seq(Frames(N, X)) /\ at \in X /\ NULL \in N /\ frames # <<>>
      BY <1>2, <1>3, FramesGrow
    <3>2. frames' = called
      BY <1>15
    <3> HIDE DEF X, N, n, V, C, entered, c, map, fresh, c1, c2, ref
    <3>3. /\ Len(called) = Len(frames) + 1
          /\ \A i \in 1 .. Len(frames) : called[i].at = frames[i].at
          /\ called[Len(frames) + 1].at = at
      BY <3>1, CallTyped
    <3>4. /\ \A i \in 1 .. Len(frames) - 1 : called[i] = frames[i]
          /\ called[Len(frames)].next = frames[Len(frames)].next + 1
          /\ called[Len(frames) + 1].next = 1
      BY <3>1, CallNext
    <3> HIDE DEF called
    <3> QED
      BY <3>2, <3>3, <3>4 DEF n
  <2> HIDE DEF map, n, V
  <2>4. /\ graph' = graph /\ json' = json /\ phase' = "deserialize" /\ value' = With(value, at, at)
        /\ f.next \in DOMAIN json[f.at].members /\ json[f.at].members[f.next] = name
        /\ at = Append(f.at, name) /\ at \in DOMAIN json /\ at \notin DOMAIN value
        /\ \A i \in 1 .. n - 1 : frames'[i].next = frames[i].next
        /\ json[at].kind \in {"object", "list"} /\ f = frames[n]
    BY <1>1, <1>2, <1>3, <1>7, <1>8, <1>15, <2>1, <2>3 DEF name, at, V
  <2> HIDE DEF ref, fresh
  <2>5. Reads(name, at)
    BY <2>2, <2>3, <2>4 DEF Reads, n, map, fresh
  <2> QED
    BY <1>3, <2>5
<1> QED
  BY <1>1, <1>12, <1>14, <1>15

------------------------------------------------------------------------------
(* Reading: the next member, the end of a value, and the end of it all.    *)
LEMMA ReadBeforeGrows ==
  ASSUME NEW d, IsDocument(d), Tree(d), NEW V, NEW fs, Stack(fs), ReadBefore(d, V, fs),
         \A i \in 1 .. Len(fs) : fs[i].at \in V /\ fs[i].next \in Nat \ {0}, V \subseteq DOMAIN d,
         NEW name \in STRING, NEW p, p = Append(fs[Len(fs)].at, name), p \notin V,
         fs[Len(fs)].next \in DOMAIN d[fs[Len(fs)].at].members,
         d[fs[Len(fs)].at].members[fs[Len(fs)].next] = name,
         NEW fs2,
         \A i \in 1 .. Len(fs) : fs2[i].at = fs[i].at,
         \A i \in 1 .. Len(fs) - 1 : fs2[i].next = fs[i].next,
         fs2[Len(fs)].next = fs[Len(fs)].next + 1,
         \/ Len(fs2) = Len(fs) /\ d[p].members = <<>>
         \/ Len(fs2) = Len(fs) + 1 /\ fs2[Len(fs) + 1].at = p /\ fs2[Len(fs) + 1].next = 1
  PROVE  ReadBefore(d, V \cup {p}, fs2)
<1> DEFINE n == Len(fs)
           a == fs[n].at
           V2 == V \cup {p}
<1>1. /\ n \in Nat \ {0}
      /\ \A i \in 1 .. n : fs[i].at \in Positions /\ Len(fs[i].at) = i - 1
  BY DEF Stack
<1>2. /\ \A q \in V : q # <<>> => Front(q) \in V
      /\ \A i \in 1 .. n : \A j \in DOMAIN d[fs[i].at].members :
           Append(fs[i].at, d[fs[i].at].members[j]) \in V <=> j < fs[i].next
      /\ \A i \in 1 .. n - 1 :
           /\ fs[i].next - 1 \in DOMAIN d[fs[i].at].members
           /\ d[fs[i].at].members[fs[i].next - 1] = fs[i + 1].at[i]
      /\ \A q \in V : ~ OnStack(fs, q) =>
           \A j \in DOMAIN d[q].members : Append(q, d[q].members[j]) \in V
  BY DEF ReadBefore
<1>3. /\ V \subseteq DOMAIN d /\ DOMAIN d \subseteq Positions
      /\ \A q \in DOMAIN d : /\ d[q].members \in Seq(STRING)
                             /\ \A i \in DOMAIN d[q].members : Append(q, d[q].members[i]) \in DOMAIN d
  BY DEF IsDocument
<1>4. a \in Positions /\ Len(a) = n - 1 /\ a \in V /\ fs[n].next \in Nat \ {0} /\ n \in 1 .. n
  BY <1>1
<1>5. /\ fs[n].next \in DOMAIN d[a].members /\ d[a].members[fs[n].next] = name
      /\ p = Append(a, name) /\ p \notin V
  OBVIOUS
<1>6. /\ \A i \in 1 .. n : fs2[i].at = fs[i].at
      /\ \A i \in 1 .. n - 1 : fs2[i].next = fs[i].next
      /\ fs2[n].next = fs[n].next + 1
      /\ \/ Len(fs2) = n /\ d[p].members = <<>>
         \/ Len(fs2) = n + 1 /\ fs2[n + 1].at = p /\ fs2[n + 1].next = 1
  OBVIOUS
<1>7. \A i \in 1 .. n : fs[i].at \in V /\ fs[i].next \in Nat \ {0}
  OBVIOUS
<1>8. \A q \in Positions, x \in STRING :
        /\ Append(q, x) \in Positions /\ Len(Append(q, x)) = Len(q) + 1 /\ Append(q, x)[Len(q) + 1] = x
        /\ Front(Append(q, x)) = q /\ Append(q, x) # <<>>
  BY FrontOfAppend DEF Positions
<1>9. \A q \in Positions : Len(q) \in Nat
  BY LenProperties DEF Positions
<1> HIDE DEF n, a
<1>10. p \in Positions /\ Len(p) = n /\ p[n] = name /\ Front(p) = a /\ p \in DOMAIN d
  <2>1. Append(a, name) \in DOMAIN d
    BY <1>3, <1>4, <1>5
  <2> QED
    BY <1>1, <1>4, <1>5, <1>8, <2>1
<1>11. n \in Nat \ {0} /\ Len(fs2) \in {n, n + 1}
  BY <1>1, <1>6
<1>12. \A i \in 1 .. n : i \in 1 .. Len(fs2)
  BY <1>11
<1>13. ASSUME NEW i \in 1 .. Len(fs2), ~ i \in 1 .. n - 1, i # n
       PROVE  i = n + 1 /\ fs2[i].at = p /\ fs2[i].next = 1
  <2>1. i = n + 1 /\ Len(fs2) # n
    BY <1>11, <1>13
  <2> QED
    BY <1>6, <2>1
<1>14. ASSUME NEW i \in 1 .. Len(fs2) - 1, ~ i \in 1 .. n - 1
       PROVE  i = n /\ fs2[i + 1].at = p
  <2>1. i = n /\ Len(fs2) # n
    BY <1>11, <1>14
  <2> QED
    BY <1>6, <2>1
<1>15. ASSUME d[p].members # <<>>
       PROVE  n + 1 \in 1 .. Len(fs2) /\ fs2[n + 1].at = p
  <2>1. Len(fs2) = n + 1 /\ fs2[n + 1].at = p
    BY <1>6, <1>15
  <2> QED
    BY <1>11, <2>1
<1>16. ASSUME NEW q \in V2, q # <<>> PROVE Front(q) \in V2
  BY <1>2, <1>4, <1>10, <1>16
<1>17. ASSUME NEW i \in 1 .. Len(fs2), NEW j \in DOMAIN d[fs2[i].at].members
       PROVE  Append(fs2[i].at, d[fs2[i].at].members[j]) \in V2 <=> j < fs2[i].next
  <2> DEFINE b == fs2[i].at
             x == d[b].members[j]
  <2>1. b \in DOMAIN d
    <3>1. i \in 1 .. n \/ b = p
      BY <1>11, <1>13
    <3> QED
      BY <1>3, <1>6, <1>7, <1>10, <3>1
  <2>2. x \in STRING /\ j \in Nat \ {0} /\ b \in Positions
    <3> HIDE DEF b
    <3>1. d[b].members \in Seq(STRING) /\ j \in DOMAIN d[b].members
      BY <1>3, <1>17, <2>1 DEF b
    <3>2. j \in Nat \ {0} /\ d[b].members[j] \in STRING
      BY <3>1, LenProperties
    <3> QED
      BY <1>3, <2>1, <3>2
  <2>3. /\ Append(b, x) \in Positions /\ Len(Append(b, x)) = Len(b) + 1
        /\ Append(b, x)[Len(b) + 1] = x /\ Front(Append(b, x)) = b /\ Append(b, x) # <<>>
    BY <1>8, <2>2
  <2>4. CASE i \in 1 .. n - 1
    <3>1. b = fs[i].at /\ fs2[i].next = fs[i].next /\ i \in 1 .. n
      BY <1>1, <1>6, <2>4
    <3>2. Append(b, x) \in V <=> j < fs[i].next
      BY <1>2, <3>1
    <3>3. Len(Append(b, x)) = i /\ i # n
      BY <1>1, <2>3, <2>4, <3>1
    <3> QED
      BY <1>10, <3>1, <3>2, <3>3
  <2>5. CASE i = n
    <3>1. b = a /\ fs2[i].next = fs[n].next + 1
      BY <1>1, <1>4, <1>6, <2>5 DEF a
    <3>2. Append(b, x) \in V <=> j < fs[n].next
      BY <1>2, <1>4, <3>1 DEF a
    <3>3. Append(b, x) = p <=> j = fs[n].next
      <4>1. Append(b, x) = p <=> x = name
        BY <1>5, <1>8, <1>10, <2>2, <2>3, <3>1
      <4>2. x = name <=> j = fs[n].next
        <5>1. \A i1, i2 \in DOMAIN d[b].members : d[b].members[i1] = d[b].members[i2] => i1 = i2
          BY <2>1 DEF Tree
        <5> QED
          BY <1>5, <1>17, <3>1, <5>1
      <4> QED
        BY <4>1, <4>2
    <3> DEFINE ax == Append(b, x)
               nx == fs[n].next
    <3> HIDE DEF b, x
    <3>4. Append(b, x) \in V2 <=> j < fs2[i].next
      <4>1. /\ ax \in V <=> j < nx
            /\ ax = p <=> j = nx
            /\ fs2[i].next = nx + 1 /\ nx \in Nat /\ j \in Nat
        BY <1>4, <2>2, <3>1, <3>2, <3>3
      <4> HIDE DEF ax, nx
      <4>2. j < nx + 1 <=> j < nx \/ j = nx
        BY <4>1
      <4>3. ax \in V2 <=> ax \in V \/ ax = p
        OBVIOUS
      <4>4. ax \in V2 <=> j < fs2[i].next
        BY <4>1, <4>2, <4>3
      <4> QED
        BY <4>4 DEF ax
    <3> QED
      BY <3>4 DEF b, x
  <2>6. CASE i # n /\ ~ i \in 1 .. n - 1
    <3>1. i = n + 1 /\ b = p /\ fs2[i].next = 1
      BY <1>13, <2>6
    <3>2. Append(b, x) # p
      BY <1>10, <1>1, <2>3, <3>1
    <3>3. Append(b, x) \notin V
      <4> DEFINE ax == Append(b, x)
      <4>1. Front(ax) = p /\ ax # <<>>
        BY <2>3, <3>1
      <4> HIDE DEF ax
      <4>2. ax \notin V
        BY <1>2, <1>5, <4>1
      <4> QED
        BY <4>2 DEF ax
    <3> QED
      BY <2>2, <3>1, <3>2, <3>3
  <2> QED
    BY <2>4, <2>5, <2>6
<1>18. ASSUME NEW i \in 1 .. Len(fs2) - 1
       PROVE  /\ fs2[i].next - 1 \in DOMAIN d[fs2[i].at].members
              /\ d[fs2[i].at].members[fs2[i].next - 1] = fs2[i + 1].at[i]
  <2>1. CASE i \in 1 .. n - 1
    <3>1. i \in 1 .. n /\ i + 1 \in 1 .. n
      BY <1>1, <2>1
    <3>2. fs2[i].at = fs[i].at /\ fs2[i].next = fs[i].next /\ fs2[i + 1].at = fs[i + 1].at
      BY <1>6, <2>1, <3>1
    <3> QED
      BY <1>2, <2>1, <3>2
  <2>2. CASE ~ i \in 1 .. n - 1
    <3>1. i = n /\ fs2[i + 1].at = p /\ fs2[i].at = a
      BY <1>4, <1>6, <1>14, <2>2 DEF a
    <3>2. fs2[i].next - 1 = fs[n].next
      <4> DEFINE k == fs[n].next
      <4>1. k \in Nat /\ fs2[i].next = k + 1
        BY <1>4, <1>6, <3>1
      <4> HIDE DEF k
      <4>2. fs2[i].next - 1 = k
        BY <4>1
      <4> QED
        BY <4>2 DEF k
    <3> QED
      BY <1>5, <1>10, <3>1, <3>2
  <2> QED
    BY <2>1, <2>2
<1>19. ASSUME NEW q \in V2, ~ OnStack(fs2, q), NEW j \in DOMAIN d[q].members
       PROVE  Append(q, d[q].members[j]) \in V2
  <2>1. CASE q = p
    <3>1. d[p].members # <<>>
      BY <1>19, <2>1
    <3>2. fs2[n + 1].at = p /\ n + 1 \in 1 .. Len(fs2)
      BY <1>15, <3>1
    <3> QED
      BY <1>19, <2>1, <3>2 DEF OnStack
  <2>2. CASE q # p
    <3>1. ~ OnStack(fs, q)
      <4> SUFFICES ASSUME NEW i \in 1 .. n, fs[i].at = q PROVE FALSE
        BY DEF OnStack, n
      <4>1. fs2[i].at = q /\ i \in 1 .. Len(fs2)
        BY <1>6, <1>12
      <4> QED
        BY <1>19, <4>1 DEF OnStack
    <3> QED
      BY <1>2, <1>19, <2>2, <3>1
  <2> QED
    BY <2>1, <2>2
<1> QED
  BY <1>16, <1>17, <1>18, <1>19 DEF ReadBefore

(* Something at p has been read, and is on the stack if it has members.    *)
LEMMA NotedGrows ==
  ASSUME NEW d, NEW V, NEW fs, NEW fs2, NEW map, Noted(d, V, fs, map),
         \A q : OnStack(fs, q) => OnStack(fs2, q),
         map \in Maps(Positions, Known(V)), NEW p \in Positions, p \notin V,
         NEW map2,
         \/ /\ d[p].kind = "marker" /\ d[p].ref \in DOMAIN map
            /\ map2 = With(map, d[p].ref, [map[d[p].ref] EXCEPT !.targets = @ \cup {p}])
         \/ /\ d[p].kind = "object" /\ OnStack(fs2, p)
            /\ map2 = With(map, p, [object |-> NULL, targets |-> {}, complete |-> FALSE])
         \/ d[p].kind = "list" /\ map2 = map
  PROVE  Noted(d, V \cup {p}, fs2, map2)
<1> DEFINE V2 == V \cup {p}
<1>1. /\ DOMAIN map \subseteq V
      /\ \A s \in DOMAIN map :
           /\ map[s].object \in {s, NULL}
           /\ \A q \in map[s].targets : q \in V /\ d[q].kind = "marker" /\ d[q].ref = s
      /\ \A q \in V : d[q].kind = "marker" => d[q].ref \in DOMAIN map /\ q \in map[d[q].ref].targets
      /\ \A q \in V : d[q].kind = "object" =>
           q \in DOMAIN map /\ (~ OnStack(fs2, q) => map[q].complete)
  BY DEF Noted
<1>2. p \notin V /\ \A s \in DOMAIN map : map[s] \in Known(V)
  BY DEF Maps
<1>3. CASE /\ d[p].kind = "marker" /\ d[p].ref \in DOMAIN map
           /\ map2 = With(map, d[p].ref, [map[d[p].ref] EXCEPT !.targets = @ \cup {p}])
  <2> DEFINE r == d[p].ref
             new == [map[r] EXCEPT !.targets = @ \cup {p}]
  <2>1. /\ new.object = map[r].object /\ new.complete = map[r].complete
        /\ new.targets = map[r].targets \cup {p}
    BY <1>2, <1>3 DEF Known
  <2>2. /\ DOMAIN map2 = DOMAIN map
        /\ map2[r] = new /\ \A s \in DOMAIN map : s # r => map2[s] = map[s]
    BY <1>3 DEF With
  <2> HIDE DEF new
  <2>3. \A s \in DOMAIN map :
          /\ map2[s].object = map[s].object /\ map2[s].complete = map[s].complete
          /\ map2[s].targets = IF s = r THEN map[s].targets \cup {p} ELSE map[s].targets
    BY <2>1, <2>2
  <2>4. DOMAIN map2 \subseteq V2
    BY <1>1, <2>2
  <2>5. \A s \in DOMAIN map2 : map2[s].object \in {s, NULL}
    BY <1>1, <2>2, <2>3
  <2>6. ASSUME NEW s \in DOMAIN map2, NEW q \in map2[s].targets
        PROVE  q \in V2 /\ d[q].kind = "marker" /\ d[q].ref = s
    <3>1. s \in DOMAIN map /\ (q \in map[s].targets \/ (s = r /\ q = p))
      <4> HIDE DEF r
      <4>1. s \in DOMAIN map
        BY <2>2
      <4>2. map2[s].targets = IF s = r THEN map[s].targets \cup {p} ELSE map[s].targets
        BY <2>3, <4>1
      <4> QED
        BY <2>6, <4>1, <4>2
    <3>2. CASE q \in map[s].targets
      <4> HIDE DEF r
      <4> QED
        BY <1>1, <3>1, <3>2
    <3>3. CASE s = r /\ q = p
      BY <1>3, <3>3
    <3> QED
      BY <3>1, <3>2, <3>3
  <2>7. ASSUME NEW q \in V2, d[q].kind = "marker"
        PROVE  d[q].ref \in DOMAIN map2 /\ q \in map2[d[q].ref].targets
    <3>1. CASE q = p
      BY <1>3, <2>1, <2>2, <3>1
    <3>2. CASE q # p
      <4> DEFINE s == d[q].ref
      <4>1. s \in DOMAIN map /\ q \in map[s].targets
        BY <1>1, <2>7, <3>2
      <4> HIDE DEF s, r
      <4>2. s \in DOMAIN map2 /\ q \in map2[s].targets
        BY <2>2, <2>3, <4>1
      <4> QED
        BY <4>2 DEF s
    <3> QED
      BY <3>1, <3>2
  <2>8. ASSUME NEW q \in V2, d[q].kind = "object"
        PROVE  q \in DOMAIN map2 /\ (~ OnStack(fs2, q) => map2[q].complete)
    BY <1>1, <1>3, <2>2, <2>3, <2>8
  <2> QED
    BY <2>4, <2>5, <2>6, <2>7, <2>8 DEF Noted
<1>4. CASE /\ d[p].kind = "object" /\ OnStack(fs2, p)
           /\ map2 = With(map, p, [object |-> NULL, targets |-> {}, complete |-> FALSE])
  <2>1. /\ DOMAIN map2 = DOMAIN map \cup {p} /\ map2[p].object = NULL /\ map2[p].targets = {}
        /\ \A s \in DOMAIN map : map2[s] = map[s]
    BY <1>1, <1>2, <1>4 DEF With
  <2>2. DOMAIN map2 \subseteq V2 /\ p \notin DOMAIN map
    BY <1>1, <1>2, <2>1
  <2>3. ASSUME NEW s \in DOMAIN map2
        PROVE  /\ map2[s].object \in {s, NULL}
               /\ \A q \in map2[s].targets : q \in V2 /\ d[q].kind = "marker" /\ d[q].ref = s
    BY <1>1, <2>1, <2>3
  <2>4. ASSUME NEW q \in V2, d[q].kind = "marker"
        PROVE  d[q].ref \in DOMAIN map2 /\ q \in map2[d[q].ref].targets
    <3> DEFINE s == d[q].ref
    <3>1. q \in V
      BY <1>4, <2>4
    <3>2. s \in DOMAIN map /\ q \in map[s].targets
      BY <1>1, <2>4, <3>1
    <3> HIDE DEF s
    <3>3. s \in DOMAIN map2 /\ q \in map2[s].targets
      BY <2>1, <3>2
    <3> QED
      BY <3>3 DEF s
  <2>5. ASSUME NEW q \in V2, d[q].kind = "object"
        PROVE  q \in DOMAIN map2 /\ (~ OnStack(fs2, q) => map2[q].complete)
    BY <1>1, <1>4, <2>1, <2>5
  <2> QED
    BY <2>2, <2>3, <2>4, <2>5 DEF Noted
<1>5. CASE d[p].kind = "list" /\ map2 = map
  BY <1>1, <1>5 DEF Noted
<1> QED
  BY <1>3, <1>4, <1>5

LEMMA NotingMemberStep ==
  ASSUME Simple, IInv, Text(graph, json), Pointed(graph, json), Noting, DeserializeMember
  PROVE  Noting' /\ phase' = "deserialize"
<1>1. PICK name \in STRING, at \in Positions : Reads(name, at)
  BY MemberReads
<1> DEFINE n == Len(frames)
           f == frames[n]
           map == Top(contexts).map
           ref == json[at].ref
           fresh == [object |-> NULL, targets |-> {}, complete |-> FALSE]
           V == DOMAIN value
           V2 == V \cup {at}
           map2 == Top(contexts').map
<1>2. /\ f.next \in DOMAIN json[f.at].members /\ json[f.at].members[f.next] = name
      /\ at = Append(f.at, name) /\ at \in DOMAIN json /\ at \notin V
      /\ json' = json /\ phase' = "deserialize"
      /\ \A i \in 1 .. n : frames'[i].at = frames[i].at
      /\ \A i \in 1 .. n - 1 : frames'[i].next = frames[i].next
      /\ frames'[n].next = f.next + 1
      /\ \/ /\ json[at].kind = "marker" /\ ref \in DOMAIN map
            /\ value' = With(value, at, NULL) /\ Len(frames') = n
            /\ map2 = With(map, ref, [map[ref] EXCEPT !.targets = @ \cup {at}])
         \/ /\ json[at].kind \in {"object", "list"}
            /\ value' = With(value, at, at)
            /\ Len(frames') = n + 1 /\ frames'[n + 1].at = at /\ frames'[n + 1].next = 1
            /\ map2 = IF json[at].kind = "object" THEN With(map, at, fresh) ELSE map
  BY <1>1 DEF Reads
<1>3. phase = "deserialize"
  BY DEF DeserializeMember
<1>4. /\ Stack(frames) /\ contexts # <<>> /\ contexts \in Seq(Contexts(Positions, Known(V)))
      /\ \A i \in 1 .. n : frames[i].at \in V /\ frames[i].next \in Nat \ {0}
      /\ n \in Nat \ {0}
  BY <1>3, ReadingAlone DEF ReadsAlone, Stack
<1>5. IsDocument(json) /\ Tree(json) /\ V \subseteq DOMAIN json
  <2>1. Reading
    BY <1>3, ReadingAt
  <2> QED
    BY <2>1 DEF IInv, Text, Reading
<1>6. map \in Maps(Positions, Known(V))
  <2> DEFINE C == Contexts(Positions, Known(V))
  <2>1. Top(contexts) \in C
    <3> HIDE DEF C
    <3>1. contexts \in Seq(C) /\ contexts # <<>>
      BY <1>4 DEF C
    <3> QED
      BY <3>1, TopTyped
  <2> HIDE DEF V
  <2> QED
    BY <2>1 DEF Contexts
<1>7. /\ DOMAIN value' = V2
      /\ \A p \in V : value'[p] = value[p]
      /\ value'[at] = IF json[at].kind = "marker" THEN NULL ELSE at
  BY <1>2 DEF With
<1>8. \A p \in V : value[p] = IF json[p].kind = "marker" THEN NULL ELSE p
  BY DEF Noting
<1>9. ReadBefore(json, V, frames) /\ Noted(json, V, frames, map)
  BY DEF Noting
<1> HIDE DEF V, n, f, map, map2, ref, fresh
<1>10. ReadBefore(json, V2, frames')
  <2> DEFINE fs2 == frames'
  <2>1. /\ at = Append(frames[Len(frames)].at, name) /\ at \notin V
        /\ frames[Len(frames)].next \in DOMAIN json[frames[Len(frames)].at].members
        /\ json[frames[Len(frames)].at].members[frames[Len(frames)].next] = name
        /\ \A i \in 1 .. Len(frames) : frames[i].at \in V /\ frames[i].next \in Nat \ {0}
    BY <1>2, <1>4 DEF n, f
  <2>2. json[at].kind = "marker" => json[at].members = <<>>
    BY <1>2, <1>5 DEF Tree
  <2>3. /\ \A i \in 1 .. Len(frames) : fs2[i].at = frames[i].at
        /\ \A i \in 1 .. Len(frames) - 1 : fs2[i].next = frames[i].next
        /\ fs2[Len(frames)].next = frames[Len(frames)].next + 1
        /\ \/ Len(fs2) = Len(frames) /\ json[at].members = <<>>
           \/ Len(fs2) = Len(frames) + 1 /\ fs2[Len(frames) + 1].at = at /\ fs2[Len(frames) + 1].next = 1
    BY <1>2, <2>2 DEF n, f
  <2> HIDE DEF fs2
  <2>4. ReadBefore(json, V2, fs2)
    BY <1>4, <1>5, <1>9, <2>1, <2>3, ReadBeforeGrows
  <2> QED
    BY <2>4 DEF fs2
<1>11. Noted(json, V2, frames', map2)
  <2> DEFINE fs2 == frames'
  <2>1. n <= Len(fs2) /\ Len(fs2) \in Nat
    BY <1>2, <1>4
  <2>2. \A i \in 1 .. n : fs2[i].at = frames[i].at
    BY <1>2
  <2>3. json[at].kind # "marker" => OnStack(fs2, at)
    <3> SUFFICES ASSUME json[at].kind # "marker" PROVE OnStack(fs2, at)
      OBVIOUS
    <3>1. Len(fs2) = n + 1 /\ fs2[n + 1].at = at
      BY <1>2
    <3>2. n + 1 \in 1 .. Len(fs2)
      BY <1>4, <3>1
    <3> QED
      BY <3>1, <3>2 DEF OnStack
  <2>4. \/ json[at].kind = "marker" /\ json[at].ref \in DOMAIN map
           /\ map2 = With(map, json[at].ref, [map[json[at].ref] EXCEPT !.targets = @ \cup {at}])
        \/ json[at].kind = "object" /\ map2 = With(map, at, [object |-> NULL, targets |-> {}, complete |-> FALSE])
        \/ json[at].kind = "list" /\ map2 = map
    BY <1>2 DEF ref, fresh
  <2> HIDE DEF fs2
  <2>5. \A q : OnStack(frames, q) => OnStack(fs2, q)
    <3> SUFFICES ASSUME NEW q, NEW i \in 1 .. Len(frames), frames[i].at = q PROVE OnStack(fs2, q)
      BY DEF OnStack
    <3>1. i \in 1 .. Len(fs2) /\ fs2[i].at = q
      BY <1>4, <2>1, <2>2 DEF n
    <3> QED
      BY <3>1 DEF OnStack
  <2>6. Noted(json, V2, fs2, map2)
    <3>1. \/ /\ json[at].kind = "marker" /\ json[at].ref \in DOMAIN map
             /\ map2 = With(map, json[at].ref, [map[json[at].ref] EXCEPT !.targets = @ \cup {at}])
          \/ /\ json[at].kind = "object" /\ OnStack(fs2, at)
             /\ map2 = With(map, at, [object |-> NULL, targets |-> {}, complete |-> FALSE])
          \/ json[at].kind = "list" /\ map2 = map
      BY <2>3, <2>4
    <3>2. at \notin V
      BY <1>2
    <3> QED
      BY <1>6, <1>9, <2>5, <3>1, <3>2, NotedGrows
  <2> QED
    BY <2>6 DEF fs2
<1>12. \A p \in V2 : value'[p] = IF json[p].kind = "marker" THEN NULL ELSE p
  BY <1>7, <1>8
<1>13. ASSUME NEW i \in 1 .. Len(frames') PROVE json[frames'[i].at].kind # "marker"
  <2>1. \A j \in 1 .. n : json[frames[j].at].kind # "marker"
    BY DEF Noting, n
  <2>2. CASE i \in 1 .. n
    BY <1>2, <2>1, <2>2
  <2>3. CASE ~ i \in 1 .. n
    <3>1. Len(frames') = n + 1 /\ frames'[n + 1].at = at /\ json[at].kind # "marker"
      BY <1>2, <1>4, <2>3
    <3>2. i = n + 1
      BY <1>4, <2>3, <3>1
    <3> QED
      BY <3>1, <3>2
  <2> QED
    BY <2>2, <2>3
<1> QED
  BY <1>2, <1>7, <1>10, <1>11, <1>12, <1>13 DEF Noting, map2

(* Of a value whose members have all been read nothing is left.            *)
LEMMA ReadBeforeReturns ==
  ASSUME NEW d, IsDocument(d), NEW V, V \subseteq DOMAIN d, NEW fs, Stack(fs), ReadBefore(d, V, fs),
         fs[Len(fs)].at \in V, fs[Len(fs)].next \in Nat,
         fs[Len(fs)].next > Len(d[fs[Len(fs)].at].members),
         NEW fs2, Len(fs2) = Len(fs) - 1, \A i \in 1 .. Len(fs) - 1 : fs2[i] = fs[i]
  PROVE  ReadBefore(d, V, fs2)
<1> DEFINE n == Len(fs)
           p == fs[n].at
           m == n - 1
<1>1. /\ n \in Nat \ {0} /\ m \in Nat /\ Len(fs2) = m /\ n \in 1 .. n
      /\ \A i \in 1 .. m : i \in 1 .. n /\ fs2[i] = fs[i]
      /\ \A i \in 1 .. n : i \in 1 .. m \/ i = n
  BY DEF Stack
<1>2. /\ \A q \in V : q # <<>> => Front(q) \in V
      /\ \A i \in 1 .. n : \A j \in DOMAIN d[fs[i].at].members :
           Append(fs[i].at, d[fs[i].at].members[j]) \in V <=> j < fs[i].next
      /\ \A i \in 1 .. m :
           /\ fs[i].next - 1 \in DOMAIN d[fs[i].at].members
           /\ d[fs[i].at].members[fs[i].next - 1] = fs[i + 1].at[i]
      /\ \A q \in V : ~ OnStack(fs, q) =>
           \A j \in DOMAIN d[q].members : Append(q, d[q].members[j]) \in V
  BY DEF ReadBefore
<1>3. \A i \in 1 .. m - 1 : i \in 1 .. m /\ i + 1 \in 1 .. m
  BY <1>1
<1>4. ASSUME NEW j \in DOMAIN d[p].members PROVE Append(p, d[p].members[j]) \in V
  <2>1. d[p].members \in Seq(STRING)
    BY DEF IsDocument
  <2> DEFINE ms == d[p].members
             k == fs[n].next
  <2>2. j \in DOMAIN ms /\ ms \in Seq(STRING) /\ k \in Nat /\ k > Len(ms)
    BY <1>4, <2>1
  <2> HIDE DEF ms, k
  <2>3. j < k
    BY <2>2, LenProperties
  <2> QED
    BY <1>1, <1>2, <1>4, <2>3 DEF k
<1> HIDE DEF n, m, p
<1>5. ASSUME NEW q \in V, ~ OnStack(fs2, q), NEW j \in DOMAIN d[q].members
      PROVE  Append(q, d[q].members[j]) \in V
  <2>1. CASE OnStack(fs, q)
    <3>1. PICK i \in 1 .. n : fs[i].at = q
      BY <2>1 DEF OnStack, n
    <3>2. ~ i \in 1 .. m
      BY <1>1, <1>5, <3>1 DEF OnStack
    <3>3. q = p
      BY <1>1, <3>1, <3>2 DEF p
    <3> QED
      BY <1>4, <1>5, <3>3
  <2>2. CASE ~ OnStack(fs, q)
    BY <1>2, <1>5, <2>2
  <2> QED
    BY <2>1, <2>2
<1>6. \A i \in 1 .. m : \A j \in DOMAIN d[fs2[i].at].members :
        Append(fs2[i].at, d[fs2[i].at].members[j]) \in V <=> j < fs2[i].next
  BY <1>1, <1>2
<1>7. \A i \in 1 .. m - 1 :
        /\ fs2[i].next - 1 \in DOMAIN d[fs2[i].at].members
        /\ d[fs2[i].at].members[fs2[i].next - 1] = fs2[i + 1].at[i]
  BY <1>1, <1>2, <1>3
<1> QED
  BY <1>1, <1>2, <1>5, <1>6, <1>7 DEF ReadBefore

(* What is noted of an object at p when it has been made.                  *)
Completed(map, p) ==
  [map EXCEPT ![p] = [object |-> p, targets |-> map[p].targets, complete |-> TRUE]]

LEMMA NotedReturns ==
  ASSUME NEW d, NEW V, NEW fs, NEW fs2, NEW map, Noted(d, V, fs, map), NEW p \in V,
         \A q : OnStack(fs, q) => OnStack(fs2, q) \/ q = p,
         NEW map2, map2 = IF d[p].kind = "object" THEN Completed(map, p) ELSE map
  PROVE  Noted(d, V, fs2, map2)
<1>1. /\ DOMAIN map \subseteq V
      /\ \A s \in DOMAIN map :
           /\ map[s].object \in {s, NULL}
           /\ \A q \in map[s].targets : q \in V /\ d[q].kind = "marker" /\ d[q].ref = s
      /\ \A q \in V : d[q].kind = "marker" => d[q].ref \in DOMAIN map /\ q \in map[d[q].ref].targets
      /\ \A q \in V : d[q].kind = "object" =>
           q \in DOMAIN map /\ (~ OnStack(fs2, q) /\ q # p => map[q].complete)
  BY DEF Noted
<1>2. CASE d[p].kind = "object"
  <2>1. /\ DOMAIN map2 = DOMAIN map /\ p \in DOMAIN map
        /\ \A s \in DOMAIN map : /\ map2[s].targets = map[s].targets
                                 /\ s # p => map2[s] = map[s]
        /\ map2[p].object = p /\ map2[p].complete = TRUE
    BY <1>1, <1>2 DEF Completed
  <2> QED
    BY <1>1, <2>1 DEF Noted
<1>3. CASE d[p].kind # "object"
  BY <1>1, <1>3 DEF Noted
<1> QED
  BY <1>2, <1>3

LEMMA MadeCompletes ==
  ASSUME NEW X, NEW c \in Contexts(Positions, Known(X)), NEW at,
         json[at].kind \in {"object", "list"}, c.location = at,
         json[at].kind = "object" => at \in DOMAIN c.map
  PROVE  Made(c, at).map = IF json[at].kind = "object" THEN Completed(c.map, at) ELSE c.map
<1>1. CASE json[at].kind = "object"
  <2> DEFINE m1 == [c.map EXCEPT ![at].object = at]
             m2 == [m1 EXCEPT ![at].complete = TRUE]
  <2>1. at \in DOMAIN c.map /\ c.map \in [DOMAIN c.map -> Known(X)]
    BY <1>1 DEF Contexts, Maps
  <2>2. Made(c, at).map = m2
    BY <1>1 DEF Made, Tracked, Contexts
  <2>3. m2 = Completed(c.map, at)
    <3>1. DOMAIN m2 = DOMAIN c.map /\ DOMAIN Completed(c.map, at) = DOMAIN c.map
      BY <2>1 DEF Completed
    <3>2. m2[at] = [object |-> at, targets |-> c.map[at].targets, complete |-> TRUE]
      <4>1. c.map[at] \in Known(X)
        BY <2>1
      <4> QED
        BY <2>1, <4>1 DEF Known
    <3>3. \A s \in DOMAIN c.map : s # at => m2[s] = c.map[s]
      BY <2>1
    <3>4. \A s \in DOMAIN c.map : m2[s] = Completed(c.map, at)[s]
      BY <2>1, <3>2, <3>3 DEF Completed
    <3>5. m2 = [s \in DOMAIN m2 |-> m2[s]]
          /\ Completed(c.map, at) = [s \in DOMAIN Completed(c.map, at) |-> Completed(c.map, at)[s]]
      BY DEF Completed
    <3> HIDE DEF m2
    <3> QED
      BY <3>1, <3>4, <3>5
  <2> QED
    BY <1>1, <2>2, <2>3
<1>2. CASE json[at].kind = "list"
  BY <1>2 DEF Made, Tracked
<1> QED
  BY <1>1, <1>2

LEMMA NotingReturnStep ==
  ASSUME Simple, IInv, Text(graph, json), Noting, DeserializeReturn
  PROVE  Noting' /\ phase' = "deserialize"
<1> DEFINE n == Len(frames)
           f == frames[n]
           p == f.at
           kind == json[frames[n - 1].at].kind
           V == DOMAIN value
           top == Top(contexts)
           map == top.map
           c == Made(top, p)
           changed == SetTop(contexts, c)
<1>1. /\ phase = "deserialize" /\ n > 1 /\ f.next > Len(json[p].members)
      /\ frames' = Front(frames) /\ UNCHANGED <<graph, phase, json, value>>
      /\ contexts' = LeaveRead(changed, kind)
  BY DEF DeserializeReturn, Top
<1>2. /\ Stack(frames) /\ contexts # <<>> /\ contexts \in Seq(Contexts(Positions, Known(V)))
      /\ top.location = p
      /\ \A i \in 1 .. n : frames[i].at \in V /\ frames[i].next \in Nat \ {0}
      /\ n \in Nat \ {0} /\ n \in 1 .. n
  BY <1>1, ReadingAlone DEF ReadsAlone, Stack
<1>3. IsDocument(json) /\ Tree(json) /\ V \subseteq DOMAIN json /\ NULL \notin V
  <2>1. Reading /\ NULL \notin V
    BY <1>1, ReadingAt
  <2> QED
    BY <2>1 DEF IInv, Text, Reading
<1>4. frames \in Seq(Frames({NULL}, V)) /\ n - 1 \in 1 .. n - 1 /\ n - 1 \in 1 .. n
  BY <1>1, <1>2, ReadingAt DEF Reading
<1>5. ReadBefore(json, V, frames) /\ Noted(json, V, frames, map)
  BY DEF Noting
<1>6. /\ kind \in {"object", "list"} /\ frames[n - 1].at \in V
      /\ p \in V /\ json[p].kind \in {"object", "list"}
  <2>1. \A i \in 1 .. n : frames[i].at \in V /\ frames[i].at \in DOMAIN json /\ json[frames[i].at].kind # "marker"
    BY <1>2, <1>3 DEF Noting
  <2>2. \A i \in 1 .. n : json[frames[i].at].kind \in {"object", "list"}
    BY <2>1, TextKinds
  <2> QED
    BY <1>2, <1>4, <2>1, <2>2
<1>7. top \in Contexts(Positions, Known(V))
  <2> HIDE DEF V
  <2> QED
    BY <1>2, TopTyped
<1> HIDE DEF n, f, V
<1>8. c \in Contexts(Positions, Known(V))
  <2> HIDE DEF top
  <2> QED
    BY <1>3, <1>6, <1>7, MadeTyped
<1>9. c.map = IF json[p].kind = "object" THEN Completed(map, p) ELSE map
  <2>1. json[p].kind = "object" => p \in DOMAIN map
    BY <1>5, <1>6 DEF Noted
  <2> HIDE DEF top
  <2> QED
    BY <1>2, <1>6, <1>7, <2>1, MadeCompletes
<1>10. Top(contexts').map = c.map
  <2> DEFINE C == Contexts(Positions, Known(V))
  <2> HIDE DEF C
  <2>1. contexts \in Seq(C) /\ contexts # <<>> /\ c \in C
    BY <1>2, <1>8 DEF C
  <2> HIDE DEF c
  <2>2. changed \in Seq(C) /\ changed # <<>> /\ Top(changed) = c
    BY <2>1, SetTopTyped
  <2> HIDE DEF changed, kind
  <2>3. Top(LeaveRead(changed, kind)).map = Top(changed).map
    BY <1>6, <2>2, LeftReading DEF C
  <2> QED
    BY <1>1, <2>2, <2>3
<1>11. Len(frames') = n - 1 /\ \A i \in 1 .. n - 1 : frames'[i] = frames[i]
  <2> DEFINE F == Frames({NULL}, V)
  <2>1. frames \in Seq(F) /\ frames # <<>>
    BY <1>2, <1>4, EmptySeq DEF n
  <2> HIDE DEF F
  <2> QED
    BY <1>1, <2>1, FrontTyped DEF n
<1>12. ReadBefore(json, V, frames')
  <2> DEFINE fs2 == frames'
  <2>1. Len(fs2) = Len(frames) - 1 /\ \A i \in 1 .. Len(frames) - 1 : fs2[i] = frames[i]
    BY <1>11 DEF n
  <2>2. /\ frames[Len(frames)].at \in V /\ frames[Len(frames)].next \in Nat
        /\ frames[Len(frames)].next > Len(json[frames[Len(frames)].at].members)
    BY <1>1, <1>2 DEF n, f
  <2> HIDE DEF fs2
  <2>3. ReadBefore(json, V, fs2)
    BY <1>2, <1>3, <1>5, <2>1, <2>2, ReadBeforeReturns
  <2> QED
    BY <2>3 DEF fs2
<1>13. \A i \in 1 .. n : i \in 1 .. n - 1 \/ i = n
  BY <1>2
<1>14. Noted(json, V, frames', c.map)
  <2> DEFINE fs2 == frames'
             map2 == c.map
  <2>1. map2 = IF json[p].kind = "object" THEN Completed(map, p) ELSE map
    BY <1>9
  <2>2. ASSUME NEW q, OnStack(frames, q) PROVE OnStack(fs2, q) \/ q = p
    <3>1. PICK i \in 1 .. n : frames[i].at = q
      BY <2>2 DEF OnStack, n
    <3>2. CASE i \in 1 .. n - 1
      <4>1. i \in 1 .. Len(fs2) /\ fs2[i].at = q
        BY <1>11, <3>1, <3>2
      <4> QED
        BY <4>1 DEF OnStack
    <3>3. CASE i = n
      BY <3>1, <3>3 DEF f
    <3> QED
      BY <1>13, <3>2, <3>3
  <2> HIDE DEF fs2, map2, p, map
  <2>3. Noted(json, V, fs2, map2)
    BY <1>5, <1>6, <2>1, <2>2, NotedReturns
  <2> QED
    BY <2>3 DEF fs2, map2
<1>15. \A i \in 1 .. Len(frames') : json[frames'[i].at].kind # "marker"
  <2>1. \A i \in 1 .. n - 1 : i \in 1 .. n
    BY <1>2
  <2>2. \A i \in 1 .. n : json[frames[i].at].kind # "marker"
    BY DEF Noting, n
  <2> QED
    BY <1>11, <2>1, <2>2
<1>16. \A q \in V : value[q] = IF json[q].kind = "marker" THEN NULL ELSE q
  BY DEF Noting, V
<1> QED
  BY <1>1, <1>10, <1>12, <1>14, <1>15, <1>16 DEF Noting, V

(* At first there is only the place of the root.                           *)
LEMMA NotingFirst ==
  ASSUME NEW d, IsDocument(d), NEW fs, fs = <<Frame(NULL, <<>>)>>, NEW cs, cs = <<FirstRead>>,
         NEW v, v = [p \in {<<>>} |-> <<>>]
  PROVE  /\ \A p \in DOMAIN v : v[p] = IF d[p].kind = "marker" THEN NULL ELSE p
         /\ \A i \in 1 .. Len(fs) : d[fs[i].at].kind # "marker"
         /\ ReadBefore(d, DOMAIN v, fs)
         /\ Noted(d, DOMAIN v, fs, Top(cs).map)
<1> DEFINE V == {<<>>}
           ms == d[<<>>].members
           map == [l \in V |-> [object |-> NULL, targets |-> {}, complete |-> FALSE]]
<1>1. DOMAIN v = V /\ v[<<>>] = <<>> /\ Len(fs) = 1 /\ fs[1].at = <<>> /\ fs[1].next = 1
  BY DEF Frame
<1>2. d[<<>>].kind # "marker" /\ ms \in Seq(STRING)
  BY DEF IsDocument, Tracked
<1>3. Top(cs).map = map
  BY DEF Top, FirstRead
<1>4. ASSUME NEW j \in DOMAIN ms PROVE Append(<<>>, ms[j]) \notin V /\ ~ (j < 1)
  <2>1. ms[j] \in STRING /\ j \in Nat \ {0}
    <3> HIDE DEF ms
    <3> QED
      BY <1>2, <1>4, LenProperties
  <2>2. Append(<<>>, ms[j]) # <<>>
    <3> HIDE DEF ms
    <3> QED
      BY <2>1, EmptySeq, FrontOfAppend
  <2> QED
    BY <2>1, <2>2
<1>5. OnStack(fs, <<>>)
  BY <1>1 DEF OnStack
<1>6. ReadBefore(d, V, fs)
  <2>1. \A i \in 1 .. Len(fs) : i = 1
    BY <1>1
  <2>2. \A i \in 1 .. Len(fs) - 1 : FALSE
    BY <1>1
  <2> HIDE DEF ms
  <2> QED
    BY <1>1, <1>4, <1>5, <2>1, <2>2 DEF ReadBefore, ms
<1>7. Noted(d, V, fs, map)
  BY <1>2, <1>5 DEF Noted
<1>8. \A i \in 1 .. Len(fs) : d[fs[i].at].kind # "marker"
  BY <1>1, <1>2
<1> QED
  BY <1>1, <1>2, <1>3, <1>6, <1>7, <1>8

(* What has the root and the members of what it has, has everything.       *)
LEMMA AllReached ==
  ASSUME NEW d, IsDocument(d), Tree(d), NEW V, <<>> \in V,
         \A q \in V : \A j \in DOMAIN d[q].members : Append(q, d[q].members[j]) \in V
  PROVE  DOMAIN d \subseteq V
<1> DEFINE Z == {k \in Nat : \A p \in DOMAIN d : Len(p) = k => p \in V}
<1>1. DOMAIN d \subseteq Positions
  BY DEF IsDocument
<1>2. 0 \in Z
  <2> SUFFICES ASSUME NEW p \in DOMAIN d, Len(p) = 0 PROVE p \in V
    OBVIOUS
  <2>1. p = <<>>
    BY <1>1, EmptySeq DEF Positions
  <2> QED
    BY <2>1
<1>3. ASSUME NEW k \in Nat \ {0}, k - 1 \in Z PROVE k \in Z
  <2> SUFFICES ASSUME NEW p \in DOMAIN d, Len(p) = k PROVE p \in V
    OBVIOUS
  <2>1. p # <<>> /\ p \in Positions
    BY <1>1, <1>3, EmptySeq
  <2>2. Len(Front(p)) = k - 1 /\ p = Append(Front(p), p[Len(p)])
    BY <2>1, LastOfPosition
  <2>3. Front(p) \in DOMAIN d /\ \E j \in DOMAIN d[Front(p)].members : d[Front(p)].members[j] = p[Len(p)]
    BY <2>1 DEF Tree
  <2>4. Front(p) \in V
    BY <1>3, <2>2, <2>3
  <2> QED
    BY <2>2, <2>3, <2>4
<1> SUFFICES ASSUME NEW p \in DOMAIN d PROVE p \in V
  OBVIOUS
<1>4. Len(p) \in Nat
  BY <1>1, LenProperties DEF Positions
<1>5. 0 .. Len(p) \subseteq Z
  <2>1. \A k \in 1 .. Len(p) : k - 1 \in Z => k \in Z
    BY <1>3, <1>4
  <2> HIDE DEF Z
  <2> QED
    BY <1>2, <1>4, <2>1, Upwards
<1>6. Len(p) \in Z
  BY <1>4, <1>5
<1> QED
  BY <1>6

(* Nothing is within a marker, so that completion finds its way.           *)
LEMMA OnlyContainersAbove ==
  ASSUME NEW d, IsDocument(d), Tree(d), NEW p \in DOMAIN d, NEW n \in 0 .. Len(p) - 1
  PROVE  SubSeq(p, 1, n) \in DOMAIN d /\ d[SubSeq(p, 1, n)].kind # "marker"
<1> DEFINE Z == {k \in Nat : \A q \in DOMAIN d : Len(q) = k => \A i \in 0 .. k - 1 :
                    SubSeq(q, 1, i) \in DOMAIN d /\ d[SubSeq(q, 1, i)].kind # "marker"}
<1>1. DOMAIN d \subseteq Positions
  BY DEF IsDocument
<1>2. 0 \in Z
  OBVIOUS
<1>3. ASSUME NEW k \in Nat \ {0}, k - 1 \in Z PROVE k \in Z
  <2> SUFFICES ASSUME NEW q \in DOMAIN d, Len(q) = k, NEW i \in 0 .. k - 1
               PROVE  SubSeq(q, 1, i) \in DOMAIN d /\ d[SubSeq(q, 1, i)].kind # "marker"
    OBVIOUS
  <2> DEFINE r == Front(q)
  <2>1. q # <<>> /\ q \in Positions
    BY <1>1, <1>3, EmptySeq
  <2>2. r \in Positions /\ Len(r) = k - 1 /\ \A j \in 1 .. k - 1 : r[j] = q[j]
    BY <2>1, LastOfPosition
  <2>3. r \in DOMAIN d /\ DOMAIN d[r].members # {}
    BY <2>1 DEF Tree
  <2>4. d[r].kind # "marker"
    <3>1. DOMAIN <<>> = {}
      OBVIOUS
    <3> QED
      BY <2>3, <3>1 DEF Tree
  <2> HIDE DEF r
  <2>5. CASE i = k - 1
    <3>1. SubSeq(q, 1, i) = r
      BY <2>1, <2>5 DEF r, Front
    <3> QED
      BY <2>3, <2>4, <3>1
  <2>6. CASE i # k - 1
    <3>1. SubSeq(q, 1, i) = SubSeq(r, 1, i)
      BY <2>2, <2>6 DEF SubSeq
    <3>2. i \in 0 .. (k - 1) - 1
      BY <2>6
    <3> QED
      BY <1>3, <2>2, <2>3, <3>1, <3>2
  <2> QED
    BY <2>5, <2>6
<1>4. Len(p) \in Nat
  BY <1>1, LenProperties DEF Positions
<1>5. 0 .. Len(p) \subseteq Z
  <2>1. \A k \in 1 .. Len(p) : k - 1 \in Z => k \in Z
    BY <1>3, <1>4
  <2> HIDE DEF Z
  <2> QED
    BY <1>2, <1>4, <2>1, Upwards
<1>6. Len(p) \in Z
  BY <1>4, <1>5
<1> QED
  BY <1>6

(* What has been read when markers are set: the object that they name.     *)
Restored(d) == [p \in DOMAIN d |-> IF d[p].kind = "marker" THEN d[p].ref ELSE p]

LEMMA NotingCompletes ==
  ASSUME Simple, IInv, Text(graph, json), Pointed(graph, json), Noting, Complete
  PROVE  phase' = "done" /\ value' = Restored(json) /\ graph' = graph /\ json' = json
<1> DEFINE root == <<>>
           V == DOMAIN value
           top == Top(contexts)
           c == Made(top, root)
           map == c.map
           sources == {s \in DOMAIN map : map[s].complete}
           targets == UNION {map[s].targets : s \in sources}
           source(p) == CHOOSE s \in sources : p \in map[s].targets
           f == frames[1]
<1>1. /\ phase = "deserialize" /\ Len(frames) = 1 /\ graph' = graph /\ json' = json
      /\ f.next > Len(json[root].members)
      /\ \/ /\ \A p \in targets : CanSet(p)
            /\ phase' = "done"
            /\ value' = [p \in V |-> IF p \in targets THEN map[source(p)].object ELSE value[p]]
         \/ \E p \in targets : ~ CanSet(p)
  BY DEF Complete, Top
<1>2. /\ Stack(frames) /\ contexts # <<>> /\ contexts \in Seq(Contexts(Positions, Known(V)))
      /\ top.location = f.at /\ f.at \in V /\ f.next \in Nat \ {0} /\ f.at = root
  <2>1. ReadsAlone
    BY <1>1, ReadingAlone
  <2>2. 1 \in 1 .. Len(frames)
    BY <1>1
  <2>3. f.at \in Positions /\ Len(f.at) = 0
    BY <1>1, <2>1, <2>2 DEF ReadsAlone, Stack
  <2> QED
    BY <1>1, <2>1, <2>2, <2>3, EmptySeq DEF ReadsAlone, Positions
<1>3. IsDocument(json) /\ Tree(json) /\ V \subseteq DOMAIN json /\ NULL \notin V
  <2>1. Reading /\ NULL \notin V
    BY <1>1, ReadingAt
  <2> QED
    BY <2>1 DEF IInv, Text, Reading
<1>4. /\ ReadBefore(json, V, frames) /\ Noted(json, V, frames, top.map)
      /\ \A p \in V : value[p] = IF json[p].kind = "marker" THEN NULL ELSE p
  BY DEF Noting
<1>5. json[root].kind \in {"object", "list"} /\ root \in V
  <2>1. json[root].kind # "marker" /\ root \in DOMAIN json
    BY <1>3 DEF IsDocument, Tracked
  <2> QED
    BY <1>2, <2>1, TextKinds
<1>6. top \in Contexts(Positions, Known(V))
  <2> HIDE DEF V
  <2> QED
    BY <1>2, TopTyped
<1>7. c \in Contexts(Positions, Known(V))
  <2> HIDE DEF top, V, root
  <2> QED
    BY <1>3, <1>5, <1>6, MadeTyped
<1>8. map = IF json[root].kind = "object" THEN Completed(top.map, root) ELSE top.map
  <2>1. json[root].kind = "object" => root \in DOMAIN top.map
    BY <1>4, <1>5 DEF Noted
  <2> HIDE DEF top, root, V
  <2> QED
    BY <1>2, <1>5, <1>6, <2>1, MadeCompletes
<1> HIDE DEF V, top, c, root
<1>9. DOMAIN json = V
  <2>1. ReadBefore(json, V, <<>>)
    <3> DEFINE fs2 == <<>>
    <3>1. Len(fs2) = Len(frames) - 1 /\ \A i \in 1 .. Len(frames) - 1 : fs2[i] = frames[i]
      BY <1>1
    <3>2. /\ frames[Len(frames)].at \in V /\ frames[Len(frames)].next \in Nat
          /\ frames[Len(frames)].next > Len(json[frames[Len(frames)].at].members)
      BY <1>1, <1>2
    <3> HIDE DEF fs2
    <3>3. ReadBefore(json, V, fs2)
      BY <1>2, <1>3, <1>4, <3>1, <3>2, ReadBeforeReturns
    <3> QED
      BY <3>3 DEF fs2
  <2>2. \A q : ~ OnStack(<<>>, q)
    BY DEF OnStack
  <2>3. \A q \in V : \A j \in DOMAIN json[q].members : Append(q, json[q].members[j]) \in V
    BY <2>1, <2>2 DEF ReadBefore
  <2>4. DOMAIN json \subseteq V
    BY <1>3, <1>5, <2>3, AllReached DEF root
  <2> QED
    BY <1>3, <2>4
<1>10. Noted(json, V, <<>>, map)
  <2> DEFINE fs2 == <<>>
  <2>1. ASSUME NEW q, OnStack(frames, q) PROVE OnStack(fs2, q) \/ q = root
    BY <1>1, <1>2, <2>1 DEF OnStack
  <2> HIDE DEF fs2, map
  <2>2. Noted(json, V, fs2, map)
    BY <1>4, <1>5, <1>8, <2>1, NotedReturns
  <2> QED
    BY <2>2 DEF fs2
<1>11. \A s \in DOMAIN map : map[s] \in Known(V)
  BY <1>7 DEF Contexts, Maps
<1> HIDE DEF map
<1>12. ASSUME NEW s \in sources PROVE map[s].object = s
  <2>1. map[s].complete /\ map[s].object \in {s, NULL}
    BY <1>10, <1>12 DEF Noted
  <2> QED
    BY <1>11, <1>12, <2>1 DEF Known
<1>13. ASSUME NEW s \in sources, NEW p \in map[s].targets
       PROVE  p \in V /\ json[p].kind = "marker" /\ json[p].ref = s
  BY <1>10, <1>13 DEF Noted
<1>14. ASSUME NEW p \in V, json[p].kind = "marker"
       PROVE  json[p].ref \in sources /\ p \in map[json[p].ref].targets
  <2>1. json[p].ref \in V /\ json[json[p].ref].kind = "object"
    BY <1>9, <1>14 DEF Pointed, Stands
  <2>2. ~ OnStack(<<>>, json[p].ref)
    BY DEF OnStack
  <2> QED
    BY <1>10, <1>14, <2>1, <2>2 DEF Noted
<1> HIDE DEF sources
<1>15. \A p \in V : p \in targets <=> json[p].kind = "marker"
  BY <1>13, <1>14
<1>16. targets \subseteq V
  BY <1>13
<1>17. ASSUME NEW p \in V, json[p].kind = "marker"
       PROVE  map[source(p)].object = json[p].ref
  <2>1. source(p) \in sources /\ p \in map[source(p)].targets
    BY <1>14, <1>17
  <2> HIDE DEF source
  <2> QED
    BY <1>12, <1>13, <2>1
<1>18. ASSUME NEW p \in targets PROVE CanSet(p)
  <2>1. p \in DOMAIN json
    BY <1>9, <1>16
  <2> SUFFICES ASSUME NEW n \in 0 .. Len(p) - 1 PROVE json[SubSeq(p, 1, n)].kind \in {"object", "list"}
    BY DEF CanSet
  <2>2. SubSeq(p, 1, n) \in DOMAIN json /\ json[SubSeq(p, 1, n)].kind # "marker"
    BY <1>3, <2>1, OnlyContainersAbove
  <2> QED
    BY <2>2, TextKinds
<1> HIDE DEF targets, source
<1>19. value' = Restored(json)
  <2>1. value' = [p \in V |-> IF p \in targets THEN map[source(p)].object ELSE value[p]]
    BY <1>1, <1>18
  <2> QED
    BY <1>4, <1>9, <1>15, <1>17, <2>1 DEF Restored
<1> QED
  BY <1>1, <1>18, <1>19

(* While such a graph is written its text grows, then it is read; then     *)
(* every member holds what it was written for.                             *)
TextInv ==
  Simple => /\ phase # "threw"
            /\ phase = "serialize" => Copying
            /\ phase = "deserialize" => Text(graph, json) /\ Noting
            /\ phase = "done" => Text(graph, json) /\ Pointed(graph, json) /\ value = Restored(json)

LEMMA ReadingStarts ==
  ASSUME IInv, SerializeReturn, phase' = "deserialize"
  PROVE  Noting'
<1> DEFINE fs == frames'
           cs == contexts'
           v == value'
<1>1. phase # "deserialize"
  BY DEF SerializeReturn
<1>2. fs = <<Frame(NULL, <<>>)>> /\ cs = <<FirstRead>> /\ v = [p \in {<<>>} |-> <<>>] /\ json' = json
  BY <1>1 DEF SerializeReturn
<1>3. IsDocument(json)
  BY DEF IInv
<1> HIDE DEF fs, cs, v
<1>4. /\ \A p \in DOMAIN v : v[p] = IF json[p].kind = "marker" THEN NULL ELSE p
      /\ \A i \in 1 .. Len(fs) : json[fs[i].at].kind # "marker"
      /\ ReadBefore(json, DOMAIN v, fs)
      /\ Noted(json, DOMAIN v, fs, Top(cs).map)
  BY <1>2, <1>3, NotingFirst
<1> QED
  BY <1>2, <1>4 DEF Noting, fs, cs, v

LEMMA TextHolds == Spec => []TextInv
<1>1. Init /\ IInv => TextInv
  BY CopyingInit DEF TextInv
<1>2. IInv /\ MarkersInv /\ TextInv /\ [Next]_vars => TextInv'
  <2> SUFFICES ASSUME IInv, MarkersInv, TextInv, [Next]_vars, Simple'
               PROVE  /\ phase' # "threw"
                      /\ phase' = "serialize" => Copying'
                      /\ phase' = "deserialize" => Text(graph', json') /\ Noting'
                      /\ phase' = "done" => /\ Text(graph', json') /\ Pointed(graph', json')
                                            /\ value' = Restored(json')
    BY Zenon DEF TextInv
  <2>1. graph' = graph /\ Simple
    BY DEF Next, vars, SerializeMember, SerializeReturn, DeserializeMember, DeserializeReturn, Complete, Simple
  <2>2. /\ phase = "serialize" => Copying
        /\ phase = "deserialize" => Text(graph, json) /\ Noting /\ Pointed(graph, json)
    BY <2>1 DEF TextInv, MarkersInv
  <2>3. CASE SerializeMember
    <3>1. Copying
      BY <2>2, <2>3 DEF SerializeMember
    <3> QED
      BY <2>1, <2>3, <3>1, CopyingMemberStep
  <2>4. CASE SerializeReturn
    <3>1. Copying
      BY <2>2, <2>4 DEF SerializeReturn
    <3>2. /\ phase' = "serialize" => Copying'
          /\ phase' = "deserialize" => Text(graph', json')
          /\ phase' \in {"serialize", "deserialize"}
      BY <2>1, <2>4, <3>1, CopyingReturnStep
    <3> QED
      BY <2>4, <3>2, ReadingStarts
  <2>5. CASE DeserializeMember
    <3>1. Text(graph, json) /\ Noting /\ Pointed(graph, json) /\ json' = json
      BY <2>2, <2>5 DEF DeserializeMember
    <3> QED
      BY <2>1, <2>5, <3>1, NotingMemberStep
  <2>6. CASE DeserializeReturn
    <3>1. Text(graph, json) /\ Noting /\ json' = json
      BY <2>2, <2>6 DEF DeserializeReturn
    <3> QED
      BY <2>1, <2>6, <3>1, NotingReturnStep
  <2>7. CASE Complete
    <3>1. Text(graph, json) /\ Noting /\ Pointed(graph, json)
      BY <2>2, <2>7 DEF Complete
    <3> QED
      BY <2>1, <2>7, <3>1, NotingCompletes
  <2>8. CASE UNCHANGED vars
    BY <2>1, <2>8 DEF vars, TextInv, Copying, Noting
  <2> QED
    BY <2>3, <2>4, <2>5, <2>6, <2>7, <2>8 DEF Next
<1> QED
  BY <1>1, <1>2, Invariant, MarkersHold, PTL DEF Spec

(* An object graph of classes and lists, whatever its Equals say, can      *)
(* always be read back: no object is met again, no marker is met before    *)
(* what it points to, so that the reference cache never throws, and at the *)
(* end each member that a marker stands for holds the object it points to. *)
THEOREM SimpleGraphsRead ==
  Spec => [](Simple => phase # "threw" /\ (phase = "done" => value = Restored(json)))
<1>1. TextInv => (Simple => phase # "threw" /\ (phase = "done" => value = Restored(json)))
  BY DEF TextInv
<1> QED
  BY <1>1, TextHolds, PTL

------------------------------------------------------------------------------
(* What Origin and Result compute, step by step.                           *)
OriginWalk(p, f) ==
  /\ f \in [0 .. Len(p) -> Nodes \cup {NULL}] /\ f[0] = graph.root /\ f[Len(p)] = Origin(p)
  /\ \A i \in 1 .. Len(p) : f[i] = IF f[i - 1] = NULL THEN NULL ELSE GraphStep(f[i - 1], p[i])

ResultWalk(p, f) ==
  /\ f \in [0 .. Len(p) -> DOMAIN json \cup {NULL}] /\ f[0] = <<>> /\ f[Len(p)] = Result(p)
  /\ \A i \in 1 .. Len(p) : f[i] = IF f[i - 1] = NULL THEN NULL ELSE ReadStep(f[i - 1], p[i])

LEMMA OriginWalks ==
  ASSUME IsGraph(graph), NEW p \in Positions
  PROVE  \E f : OriginWalk(p, f)
<1> DEFINE k == Len(p)
           S == Nodes \cup {NULL}
           Step(i, v) == IF v = NULL THEN NULL ELSE GraphStep(v, p[i])
           step == [i \in 1 .. k |-> [x \in S |-> Step(i, x)]]
           Body(g) == [i \in 0 .. k |-> IF i = 0 THEN graph.root ELSE Step(i, g[i - 1])]
           reached == CHOOSE g : g = Body(g)
<1>1. k \in Nat
  BY LenProperties DEF Positions
<1>2. graph.root \in S
  BY DEF IsGraph, Nodes
<1>3. ASSUME NEW i \in 1 .. k, NEW x \in S PROVE Step(i, x) \in S
  <2> SUFFICES ASSUME x \in Nodes PROVE GraphStep(x, p[i]) \in S
    OBVIOUS
  <2> DEFINE ms == graph.members[x]
             named == {h \in DOMAIN ms : ms[h].name = p[i]}
  <2>1. ms \in Seq([name : STRING, value : Nodes])
    BY DEF IsGraph, Nodes
  <2>2. GraphStep(x, p[i]) = IF named = {} THEN NULL ELSE ms[CHOOSE h \in named : TRUE].value
    BY DEF GraphStep
  <2>3. CASE named = {}
    BY <2>2, <2>3
  <2>4. CASE named # {}
    <3> DEFINE h == CHOOSE y \in named : TRUE
    <3>1. h \in DOMAIN ms
      BY <2>4
    <3> HIDE DEF h, ms
    <3>2. ms[h] \in [name : STRING, value : Nodes]
      <4> DEFINE R == [name : STRING, value : Nodes]
      <4>1. ms \in Seq(R) /\ h \in DOMAIN ms
        BY <2>1, <3>1
      <4> HIDE DEF R
      <4>2. ms[h] \in R
        BY <4>1, LenProperties, ElementOfSeq
      <4> QED
        BY <4>2 DEF R
    <3> QED
      BY <2>2, <2>4, <3>2 DEF h
  <2> QED
    BY <2>3, <2>4
<1>4. step \in StepsOn(S, k)
  BY <1>3 DEF StepsOn
<1> HIDE DEF step, k, S, Step
<1>5. PICK f : IterationOf(f, step, graph.root, S, k)
  BY <1>1, <1>2, <1>4, Iterated
<1>6. /\ f \in [0 .. k -> S] /\ f[0] = graph.root
      /\ \A i \in 1 .. k : f[i] = step[i][f[i - 1]]
  BY <1>5 DEF IterationOf
<1>7. \A i \in 1 .. k : i - 1 \in 0 .. k /\ f[i] = Step(i, f[i - 1])
  <2> SUFFICES ASSUME NEW i \in 1 .. k PROVE i - 1 \in 0 .. k /\ f[i] = Step(i, f[i - 1])
    OBVIOUS
  <2>1. i - 1 \in 0 .. k /\ f[i - 1] \in S
    BY <1>1, <1>6
  <2>2. f[i] = step[i][f[i - 1]]
    BY <1>6
  <2>3. step[i] = [x \in S |-> Step(i, x)]
    BY DEF step
  <2> QED
    BY <2>1, <2>2, <2>3
<1> HIDE DEF Body, reached
<1>8. f = Body(f)
  BY <1>1, <1>6, <1>7 DEF Body
<1>9. reached = Body(reached)
  BY <1>8, Zenon DEF reached
<1>10. reached[0] = graph.root /\ \A i \in 1 .. k : reached[i] = Step(i, reached[i - 1])
  BY <1>1, <1>9 DEF Body
<1>11. 0 .. k \subseteq {i \in 0 .. k : reached[i] = f[i]}
  <2> DEFINE Z == {i \in 0 .. k : reached[i] = f[i]}
  <2>1. 0 \in Z
    BY <1>1, <1>6, <1>10
  <2>2. \A i \in 1 .. k : i - 1 \in Z => i \in Z
    BY <1>7, <1>10
  <2> HIDE DEF Z
  <2>3. 0 .. k \subseteq Z
    BY <1>1, <2>1, <2>2, Upwards
  <2> QED
    BY <2>3 DEF Z
<1>12. Origin(p) = reached[k]
  BY Zenon DEF Origin, Walk, reached, Body, Step, k
<1>13. f[k] = Origin(p)
  BY <1>1, <1>11, <1>12
<1>14. OriginWalk(p, f)
  BY <1>6, <1>7, <1>13 DEF OriginWalk, k, S, Step
<1> QED
  BY <1>14

LEMMA ResultWalks ==
  ASSUME IInv, NEW p \in Positions
  PROVE  \E f : ResultWalk(p, f)
<1> DEFINE k == Len(p)
           S == DOMAIN json \cup {NULL}
           Step(i, v) == IF v = NULL THEN NULL ELSE ReadStep(v, p[i])
           step == [i \in 1 .. k |-> [x \in S |-> Step(i, x)]]
           Body(g) == [i \in 0 .. k |-> IF i = 0 THEN <<>> ELSE Step(i, g[i - 1])]
           reached == CHOOSE g : g = Body(g)
<1>1. k \in Nat
  BY LenProperties DEF Positions
<1>2. <<>> \in S
  BY DEF IInv, IsDocument
<1>3. ASSUME NEW i \in 1 .. k, NEW x \in S PROVE Step(i, x) \in S
  <2>1. \A q \in DOMAIN value : value[q] \in S
    BY DEF IInv
  <2> QED
    BY <2>1 DEF ReadStep
<1>4. step \in StepsOn(S, k)
  BY <1>3 DEF StepsOn
<1> HIDE DEF step, k, S, Step
<1>5. PICK f : IterationOf(f, step, <<>>, S, k)
  BY <1>1, <1>2, <1>4, Iterated
<1>6. /\ f \in [0 .. k -> S] /\ f[0] = <<>>
      /\ \A i \in 1 .. k : f[i] = step[i][f[i - 1]]
  BY <1>5 DEF IterationOf
<1>7. \A i \in 1 .. k : i - 1 \in 0 .. k /\ f[i] = Step(i, f[i - 1])
  <2> SUFFICES ASSUME NEW i \in 1 .. k PROVE i - 1 \in 0 .. k /\ f[i] = Step(i, f[i - 1])
    OBVIOUS
  <2>1. i - 1 \in 0 .. k /\ f[i - 1] \in S
    BY <1>1, <1>6
  <2>2. f[i] = step[i][f[i - 1]]
    BY <1>6
  <2>3. step[i] = [x \in S |-> Step(i, x)]
    BY DEF step
  <2> QED
    BY <2>1, <2>2, <2>3
<1> HIDE DEF Body, reached
<1>8. f = Body(f)
  BY <1>1, <1>6, <1>7 DEF Body
<1>9. reached = Body(reached)
  BY <1>8, Zenon DEF reached
<1>10. reached[0] = <<>> /\ \A i \in 1 .. k : reached[i] = Step(i, reached[i - 1])
  BY <1>1, <1>9 DEF Body
<1>11. 0 .. k \subseteq {i \in 0 .. k : reached[i] = f[i]}
  <2> DEFINE Z == {i \in 0 .. k : reached[i] = f[i]}
  <2>1. 0 \in Z
    BY <1>1, <1>6, <1>10
  <2>2. \A i \in 1 .. k : i - 1 \in Z => i \in Z
    BY <1>7, <1>10
  <2> HIDE DEF Z
  <2>3. 0 .. k \subseteq Z
    BY <1>1, <2>1, <2>2, Upwards
  <2> QED
    BY <2>3 DEF Z
<1>12. Result(p) = reached[k]
  BY Zenon DEF Result, Walk, reached, Body, Step, k
<1>13. f[k] = Result(p)
  BY <1>1, <1>11, <1>12
<1>14. ResultWalk(p, f)
  BY <1>6, <1>7, <1>13 DEF ResultWalk, k, S, Step
<1> QED
  BY <1>14

(* When the text has been read, a path leads to nothing in both, or to an  *)
(* object and to the place where it was written.                           *)
Finished ==
  /\ Plain /\ graph # NULL /\ Text(graph, json) /\ Pointed(graph, json) /\ value = Restored(json)
  /\ IsGraph(graph) /\ IsDocument(json) /\ NULL \notin Nodes /\ NULL \notin Positions

Same(o, r) ==
  \/ o = NULL /\ r = NULL
  \/ o \in Nodes /\ r \in DOMAIN json /\ json[r].kind # "marker" /\ Leads(graph, r, o)

(* Where a path leads, what it leads to has been written in full.          *)
LEMMA WrittenWhole ==
  ASSUME Finished, NEW o \in Nodes, NEW r \in DOMAIN json, json[r].kind # "marker", Leads(graph, r, o)
  PROVE  json[r].kind = graph.kind[o] /\ Copied(graph, json, r, o, Len(graph.members[o]))
<1>1. PICK m \in Nodes : /\ Leads(graph, r, m) /\ json[r].kind = graph.kind[m]
                         /\ Copied(graph, json, r, m, Len(graph.members[m]))
  BY DEF Finished, Text, Whole, Nodes
<1>2. r \in Positions
  BY DEF Finished, IsDocument
<1>3. m = o
  BY <1>1, <1>2, LeadsToOne DEF Finished
<1> QED
  BY <1>1, <1>3

(* A member leads on from both or from neither.                            *)
LEMMA SameStep ==
  ASSUME Finished, NEW o \in Nodes, NEW r, Same(o, r), NEW name \in STRING
  PROVE  Same(GraphStep(o, name), ReadStep(r, name))
<1> DEFINE gs == graph.members[o]
           ms == json[r].members
           at == Append(r, name)
           named == {i \in DOMAIN gs : gs[i].name = name}
<1>1. /\ r \in DOMAIN json /\ json[r].kind # "marker" /\ Leads(graph, r, o)
      /\ IsGraph(graph) /\ IsDocument(json) /\ NULL \notin Nodes /\ Tree(json) /\ r \in Positions
  BY DEF Finished, Same, Text, IsDocument
<1>2. /\ Len(ms) = Len(gs) /\ \A j \in 1 .. Len(gs) : ms[j] = gs[j].name
  BY <1>1, WrittenWhole DEF Copied
<1>3. gs \in Seq([name : STRING, value : Nodes]) /\ ms \in Seq(STRING)
  BY <1>1 DEF IsGraph, IsDocument, Nodes
<1>4. DOMAIN gs = 1 .. Len(gs) /\ DOMAIN ms = 1 .. Len(gs)
  <2> HIDE DEF gs, ms
  <2> QED
    BY <1>2, <1>3, LenProperties
<1>5. /\ DOMAIN value = DOMAIN json
      /\ \A p \in DOMAIN json : value[p] = IF json[p].kind = "marker" THEN json[p].ref ELSE p
  BY DEF Finished, Restored
<1>6. at \in Positions /\ Front(at) = r /\ at # <<>> /\ Len(at) = Len(r) + 1 /\ at[Len(at)] = name
  <2>1. /\ Append(r, name) \in Seq(STRING) /\ Append(r, name) # <<>> /\ Len(Append(r, name)) = Len(r) + 1
        /\ Append(r, name)[Len(r) + 1] = name /\ Front(Append(r, name)) = r
    BY <1>1, FrontOfAppend DEF Positions
  <2> QED
    BY <2>1 DEF Positions
<1>7. CASE named = {}
  <2>1. GraphStep(o, name) = NULL
    BY <1>7 DEF GraphStep
  <2>2. at \notin DOMAIN json
    <3> SUFFICES ASSUME at \in DOMAIN json PROVE FALSE
      OBVIOUS
    <3>1. PICK i \in DOMAIN ms : ms[i] = name
      <4> HIDE DEF at
      <4> QED
        BY <1>1, <1>6 DEF Tree
    <3>2. i \in named
      BY <1>2, <1>4, <3>1
    <3> QED
      BY <1>7, <3>2
  <2>3. ReadStep(r, name) = NULL
    BY <1>5, <2>2 DEF ReadStep
  <2> QED
    BY <2>1, <2>3 DEF Same
<1>8. CASE named # {}
  <2> DEFINE j == CHOOSE i \in named : TRUE
             w == gs[j].value
  <2>1. j \in DOMAIN gs /\ gs[j].name = name
    BY <1>8
  <2>2. GraphStep(o, name) = w
    BY <1>8 DEF GraphStep
  <2> HIDE DEF j
  <2>3. w \in Nodes
    <3> DEFINE R == [name : STRING, value : Nodes]
    <3>1. gs \in Seq(R) /\ j \in DOMAIN gs
      BY <1>3, <2>1
    <3>2. gs[j] \in R
      <4> HIDE DEF R, gs
      <4> QED
        BY <3>1, LenProperties, ElementOfSeq
    <3> QED
      BY <3>2
  <2>4. at \in DOMAIN json
    BY <1>1, <1>2, <1>4, <2>1 DEF IsDocument
  <2>5. Leads(graph, at, w)
    BY <1>1, <2>1, <2>3, LeadsOn DEF Nodes
  <2>6. ReadStep(r, name) = IF json[at].kind = "marker" THEN json[at].ref ELSE at
    BY <1>5, <2>4 DEF ReadStep
  <2> HIDE DEF w, at
  <2>7. CASE json[at].kind = "marker"
    <3>1. PICK n \in Nodes : Leads(graph, at, n) /\ Stands(graph, json, json[at].ref, graph.equal[n])
      BY <2>4, <2>7 DEF Finished, Pointed, Nodes
    <3>2. n = w
      BY <1>1, <1>6, <2>3, <2>5, <3>1, LeadsToOne
    <3>3. PICK n2 \in Nodes : Leads(graph, json[at].ref, n2) /\ graph.equal[n2] = graph.equal[w]
      BY <3>1, <3>2 DEF Stands, Nodes
    <3>4. n2 = w
      BY <2>3, <3>3 DEF Finished, Plain, Nodes
    <3>5. json[at].ref \in DOMAIN json /\ json[json[at].ref].kind = "object"
      BY <3>1 DEF Stands
    <3> QED
      BY <2>2, <2>3, <2>6, <2>7, <3>3, <3>4, <3>5 DEF Same
  <2>8. CASE json[at].kind # "marker"
    BY <2>2, <2>3, <2>4, <2>5, <2>6, <2>8 DEF Same
  <2> QED
    BY <2>7, <2>8
<1> QED
  BY <1>7, <1>8

LEMMA SameEverywhere ==
  ASSUME Finished, IInv, NEW p \in Positions
  PROVE  Same(Origin(p), Result(p))
<1>1. IsGraph(graph) /\ NULL \notin Nodes /\ NULL \notin Positions /\ IsDocument(json)
  BY DEF Finished
<1>2. PICK f : OriginWalk(p, f)
  BY <1>1, OriginWalks
<1>3. PICK h : ResultWalk(p, h)
  BY ResultWalks
<1> DEFINE k == Len(p)
           Z == {i \in 0 .. k : Same(f[i], h[i])}
<1>4. k \in Nat /\ \A i \in 1 .. k : p[i] \in STRING
  BY LenProperties, ElementOfSeq DEF Positions
<1>5. 0 \in Z
  <2>1. f[0] = graph.root /\ h[0] = <<>>
    BY <1>2, <1>3 DEF OriginWalk, ResultWalk
  <2>2. graph.root \in Nodes /\ Leads(graph, <<>>, graph.root)
    BY <1>1, LeadsFrom DEF IsGraph, Nodes
  <2>3. <<>> \in DOMAIN json /\ json[<<>>].kind # "marker"
    BY <1>1 DEF IsDocument, Tracked
  <2> QED
    BY <1>4, <2>1, <2>2, <2>3 DEF Same
<1>6. ASSUME NEW i \in 1 .. k, i - 1 \in Z PROVE i \in Z
  <2> DEFINE a == f[i - 1]
             b == h[i - 1]
  <2>1. /\ f[i] = IF a = NULL THEN NULL ELSE GraphStep(a, p[i])
        /\ h[i] = IF b = NULL THEN NULL ELSE ReadStep(b, p[i])
    BY <1>2, <1>3 DEF OriginWalk, ResultWalk
  <2>2. Same(a, b)
    BY <1>6
  <2> HIDE DEF a, b
  <2>3. CASE a = NULL
    <3>1. b = NULL
      BY <1>1, <2>2, <2>3 DEF Same
    <3> QED
      BY <1>4, <2>1, <2>3, <3>1 DEF Same
  <2>4. CASE a # NULL
    <3>1. a \in Nodes /\ b # NULL
      BY <1>1, <2>2, <2>4 DEF Same, IsDocument
    <3>2. Same(GraphStep(a, p[i]), ReadStep(b, p[i]))
      BY <1>4, <2>2, <3>1, SameStep
    <3> QED
      BY <1>4, <2>1, <2>4, <3>1, <3>2
  <2> QED
    BY <2>3, <2>4
<1>7. 0 .. k \subseteq Z
  <2> HIDE DEF Z
  <2> QED
    BY <1>4, <1>5, <1>6, Upwards
<1>8. k \in Z
  BY <1>4, <1>7
<1> QED
  BY <1>2, <1>3, <1>8 DEF OriginWalk, ResultWalk

LEMMA PathsArePositions ==
  ASSUME IsGraph(graph), MaxPath \in Nat, NEW p \in AccessPaths
  PROVE  p \in Positions
<1>1. Names \subseteq STRING
  <2> SUFFICES ASSUME NEW n \in DOMAIN graph.members, NEW i \in DOMAIN graph.members[n]
               PROVE  graph.members[n][i].name \in STRING
    BY DEF Names
  <2> DEFINE R == [name : STRING, value : Nodes]
             ms == graph.members[n]
  <2>1. ms \in Seq(R) /\ i \in DOMAIN ms
    BY DEF IsGraph, Nodes
  <2>2. ms[i] \in R
    <3> HIDE DEF R, ms
    <3> QED
      BY <2>1, LenProperties, ElementOfSeq
  <2> QED
    BY <2>2
<1>2. PICK m \in 0 .. MaxPath : p \in [1 .. m -> Names]
  BY DEF AccessPaths, BoundedSeq, SeqOf
<1>3. p \in [1 .. m -> STRING] /\ m \in Nat
  <2>1. m \in Nat
    OBVIOUS
  <2>2. DOMAIN p = 1 .. m /\ p = [i \in 1 .. m |-> p[i]] /\ \A i \in 1 .. m : p[i] \in Names
    BY <1>2
  <2>3. \A i \in 1 .. m : p[i] \in STRING
    BY <1>1, <2>2
  <2> QED
    BY <2>1, <2>2, <2>3
<1> QED
  BY <1>3 DEF Positions

(* Two paths that lead to one object lead to one place, as an object is    *)
(* written once, and a place is that of one object.                        *)
LEMMA FinishedHasShape ==
  ASSUME Finished, IInv
  PROVE  SameShape
<1> DEFINE paths == {p \in AccessPaths : Origin(p) # NULL}
           tracked == {p \in paths : Tracked(graph.kind[Origin(p)])}
           ByOrigin == {{p \in tracked : Origin(p) = n} : n \in DOMAIN graph.kind}
           ByResult == {{p \in tracked : Result(p) = q} : q \in DOMAIN json}
<1>1. IsGraph(graph) /\ NULL \notin Nodes /\ NULL \notin Positions /\ DOMAIN json \subseteq Positions
  BY DEF Finished, IsDocument
<1>2. \A p \in AccessPaths : Same(Origin(p), Result(p))
  <2>1. \A p \in AccessPaths : p \in Positions
    BY <1>1, BoundsAssumption, PathsArePositions
  <2> QED
    BY <2>1, SameEverywhere
<1>3. \A p \in AccessPaths : Origin(p) = NULL <=> Result(p) = NULL
  BY <1>1, <1>2 DEF Same
<1>4. \A p \in paths : /\ Origin(p) \in Nodes /\ Result(p) \in DOMAIN json
                       /\ json[Result(p)].kind # "marker" /\ Leads(graph, Result(p), Origin(p))
  BY <1>2 DEF Same
<1>5. \A p \in paths : json[Result(p)].kind = graph.kind[Origin(p)]
  BY <1>4, WrittenWhole
<1>6. ASSUME NEW p \in tracked, NEW q \in tracked
      PROVE  Origin(p) = Origin(q) <=> Result(p) = Result(q)
  <2> DEFINE o1 == Origin(p)
             o2 == Origin(q)
             r1 == Result(p)
             r2 == Result(q)
  <2>1. /\ o1 \in Nodes /\ r1 \in DOMAIN json /\ json[r1].kind = graph.kind[o1] /\ Leads(graph, r1, o1)
        /\ o2 \in Nodes /\ r2 \in DOMAIN json /\ json[r2].kind = graph.kind[o2] /\ Leads(graph, r2, o2)
        /\ Tracked(graph.kind[o1]) /\ Tracked(graph.kind[o2])
    BY <1>4, <1>5
  <2> HIDE DEF o1, o2, r1, r2
  <2>2. graph.kind[o1] = "object" /\ graph.kind[o2] = "object"
    BY <2>1 DEF Finished, Plain, Tracked, Nodes
  <2>3. ASSUME r1 = r2 PROVE o1 = o2
    <3>1. r1 \in Positions
      BY <1>1, <2>1
    <3> QED
      BY <1>1, <2>1, <2>3, <3>1, LeadsToOne
  <2>4. ASSUME o1 = o2 PROVE r1 = r2
    BY <2>1, <2>2, <2>4 DEF Finished, Text, Single, Nodes
  <2>5. o1 = o2 <=> r1 = r2
    BY <2>3, <2>4
  <2> QED
    BY <2>5 DEF o1, o2, r1, r2
<1>7. \A p \in tracked : p \in paths
  OBVIOUS
<1> HIDE DEF paths, tracked
<1>8. ByOrigin \ {{}} \subseteq ByResult \ {{}}
  <2> SUFFICES ASSUME NEW n \in DOMAIN graph.kind, NEW q \in tracked, Origin(q) = n
               PROVE  {p \in tracked : Origin(p) = n} \in ByResult
    OBVIOUS
  <2>1. Result(q) \in DOMAIN json
    BY <1>4, <1>7
  <2>2. {p \in tracked : Origin(p) = n} = {p \in tracked : Result(p) = Result(q)}
    BY <1>6
  <2> QED
    BY <2>1, <2>2
<1>9. ByResult \ {{}} \subseteq ByOrigin \ {{}}
  <2> SUFFICES ASSUME NEW r \in DOMAIN json, NEW q \in tracked, Result(q) = r
               PROVE  {p \in tracked : Result(p) = r} \in ByOrigin
    OBVIOUS
  <2>1. Origin(q) \in DOMAIN graph.kind
    BY <1>4, <1>7 DEF Nodes
  <2>2. {p \in tracked : Result(p) = r} = {p \in tracked : Origin(p) = Origin(q)}
    BY <1>6
  <2> QED
    BY <2>1, <2>2
<1>10. ByOrigin \ {{}} = ByResult \ {{}}
  BY <1>8, <1>9
<1> QED
  BY <1>3, <1>5, <1>10, Zenon DEF SameShape, paths, tracked

(* Whatever plain objects are written and however they refer to each other,*)
(* reading does not throw, and what is read has their shape: the same      *)
(* members lead somewhere, and two paths lead to one object again exactly  *)
(* when they did before.                                                   *)
THEOREM RoundTripHolds == Spec => []RoundTrip
<1>1. IInv /\ TextInv => RoundTrip
  <2> SUFFICES ASSUME IInv, TextInv, graph # NULL, Plain
               PROVE  phase # "threw" /\ (phase = "done" => SameShape)
    BY DEF RoundTrip
  <2>1. graph \in Graphs /\ IsGraph(graph) /\ NULL \notin Nodes /\ NULL \notin Positions
    BY GraphsAssumption, NullAssumption DEF IInv, Nodes
  <2>2. Simple
    <3>1. DOMAIN graph.kind = Nodes /\ \A n \in Nodes : graph.kind[n] \in {"object", "list"}
      BY DEF Plain, Nodes
    <3> QED
      BY <3>1 DEF Simple, Range
  <2>3. phase = "done" => Finished
    BY <2>1, <2>2 DEF TextInv, Finished, IInv
  <2> QED
    BY <2>2, <2>3, FinishedHasShape DEF TextInv
<1> QED
  BY <1>1, Invariant, TextHolds, PTL
==============================================================================
