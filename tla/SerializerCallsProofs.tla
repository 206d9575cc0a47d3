------------------------ MODULE SerializerCallsProofs ------------------------
(***************************************************************************)
(* A serializer that one thread uses, at every depth: its count of calls   *)
(* is the depth, so that only the outermost call clears the reference map; *)
(* and every reference is completed if nothing throws and no context       *)
(* starts in another.                                                      *)
(***************************************************************************)
EXTENDS SerializerCalls, CommonLemmas

Context == [kind : Kinds, noted : BOOLEAN]

(* Each call has the context of the call around it or the next one.        *)
Stacked(stack, known) ==
  /\ stack = <<>> => known = <<>>
  /\ stack # <<>> => stack[1] = 1 /\ stack[Len(stack)] = Len(known)
  /\ \A i \in 1 .. Len(stack) - 1 : stack[i + 1] \in {stack[i], stack[i] + 1}

Stacks == \A t \in Threads : Stacked(calls[t], contexts[t])

(* What a thread has read is the count until it writes.                    *)
ReadCurrent ==
  \A t \in Threads :
    Threads = {t} /\ pc[t] \in {"increment", "decrement"} => register[t] = callCount

IInv == TypeOK /\ Stacks /\ ReadCurrent /\ CountTracksDepth

------------------------------------------------------------------------------
(* A call that is made has the innermost context, or a new one.            *)
LEMMA PushStacked ==
  ASSUME NEW stack \in Seq(Nat \ {0}), NEW known \in Seq(Context),
         stack # <<>>, Stacked(stack, known), NEW c \in Context
  PROVE  /\ known # <<>>
         /\ \A n \in {Len(known), Len(known) + 1} :
              /\ Append(stack, n) \in Seq(Nat \ {0}) /\ Append(stack, n) # <<>>
              /\ Len(Append(stack, n)) = Len(stack) + 1
         /\ Stacked(Append(stack, Len(known)), known)
         /\ Append(known, c) \in Seq(Context)
         /\ Stacked(Append(stack, Len(known) + 1), Append(known, c))
<1>1. Len(stack) \in Nat \ {0} /\ stack[Len(stack)] \in Nat \ {0}
  BY EmptySeq, ElementOfSeq
<1>2. Len(known) = stack[Len(stack)]
  BY DEF Stacked
<1>3. known # <<>>
  BY <1>1, <1>2
<1>4. ASSUME NEW n \in {Len(known), Len(known) + 1}
      PROVE  /\ Append(stack, n) \in Seq(Nat \ {0})
             /\ Append(stack, n) # <<>> /\ Len(Append(stack, n)) = Len(stack) + 1
             /\ Append(stack, n)[1] = 1
             /\ Append(stack, n)[Len(Append(stack, n))] = n
             /\ \A i \in 1 .. Len(Append(stack, n)) - 1 :
                  Append(stack, n)[i + 1] \in {Append(stack, n)[i], Append(stack, n)[i] + 1}
  <2>1. /\ Append(stack, n) \in Seq(Nat \ {0})
        /\ Len(Append(stack, n)) = Len(stack) + 1
        /\ \A i \in 1 .. Len(stack) : Append(stack, n)[i] = stack[i]
        /\ Append(stack, n)[Len(stack) + 1] = n
    BY <1>1, <1>2, AppendProperties
  <2>2. QED
    BY <1>1, <1>2, <2>1 DEF Stacked
<1>5. Append(known, c) \in Seq(Context) /\ Len(Append(known, c)) = Len(known) + 1
  BY AppendProperties
<1>6. QED
  BY <1>3, <1>4, <1>5 DEF Stacked

(* A return of a context's first call takes the context along, another     *)
(* leaves the contexts as they are but for the notes of the last.          *)
LEMMA PopStacked ==
  ASSUME NEW stack \in Seq(Nat \ {0}), NEW known \in Seq(Context), NEW left \in Seq(Context),
         stack # <<>>, Stacked(stack, known),
         IF Len(stack) = 1 \/ stack[Len(stack) - 1] < Len(known)
         THEN Len(left) = Len(known) - 1
         ELSE Len(left) = Len(known)
  PROVE  /\ SubSeq(stack, 1, Len(stack) - 1) \in Seq(Nat \ {0})
         /\ Stacked(SubSeq(stack, 1, Len(stack) - 1), left)
<1> DEFINE rest == SubSeq(stack, 1, Len(stack) - 1)
<1>1. Len(stack) \in Nat \ {0} /\ \A i \in 1 .. Len(stack) : stack[i] \in Nat \ {0}
  BY EmptySeq, ElementOfSeq
<1>2. /\ rest \in Seq(Nat \ {0}) /\ Len(rest) = Len(stack) - 1
      /\ \A i \in 1 .. Len(stack) - 1 : rest[i] = stack[i]
  BY Popped
<1>3. Len(known) = stack[Len(stack)] /\ stack[1] = 1
  BY DEF Stacked
<1> HIDE DEF rest
<1>4. CASE Len(stack) = 1
  <2>1. rest = <<>> /\ left = <<>>
    BY <1>2, <1>3, <1>4, EmptySeq
  <2>2. QED
    BY <1>2, <2>1 DEF Stacked, rest
<1>5. CASE Len(stack) > 1
  <2>1. stack[Len(stack) - 1] \in {Len(known), Len(known) - 1}
    <3>1. stack[(Len(stack) - 1) + 1] \in {stack[Len(stack) - 1], stack[Len(stack) - 1] + 1}
      BY <1>1, <1>5 DEF Stacked
    <3>2. QED
      BY <1>1, <1>3, <1>5, <3>1
  <2>2. Len(left) = stack[Len(stack) - 1]
    BY <1>1, <1>3, <1>5, <2>1
  <2>3. rest # <<>>
    BY <1>1, <1>2, <1>5, EmptySeq
  <2>4. rest[1] = 1 /\ rest[Len(rest)] = Len(left)
    BY <1>1, <1>2, <1>3, <1>5, <2>2
  <2>5. \A i \in 1 .. Len(rest) - 1 : rest[i + 1] \in {rest[i], rest[i] + 1}
    <3> SUFFICES ASSUME NEW i \in 1 .. Len(rest) - 1
                 PROVE rest[i + 1] \in {rest[i], rest[i] + 1}
      OBVIOUS
    <3>1. {i, i + 1} \subseteq 1 .. Len(stack) - 1
      BY <1>1, <1>2
    <3>2. rest[i] = stack[i] /\ rest[i + 1] = stack[i + 1]
      BY <1>2, <3>1
    <3>3. QED
      BY <3>1, <3>2 DEF Stacked
  <2>6. QED
    BY <1>2, <2>3, <2>4, <2>5 DEF Stacked, rest
<1>6. QED
  BY <1>1, <1>2, <1>4, <1>5 DEF rest

(* What a step does to the stack and contexts of its own thread decides    *)
(* those of all of them.                                                   *)
LEMMA OwnStack ==
  ASSUME TypeOK, Stacks, NEW t \in Threads,
         NEW stack \in Seq(Nat \ {0}), NEW known \in Seq(Context), Stacked(stack, known),
         calls' = [calls EXCEPT ![t] = stack], contexts' = [contexts EXCEPT ![t] = known]
  PROVE  /\ calls' \in [Threads -> Seq(Nat \ {0})]
         /\ contexts' \in [Threads -> Seq([kind : Kinds, noted : BOOLEAN])]
         /\ Stacks'
         /\ calls'[t] = stack /\ \A u \in Threads \ {t} : calls'[u] = calls[u]
         /\ \A u \in Threads : calls'[u] # <<>> => calls'[u][Len(calls'[u])] = Len(contexts'[u])
<1>1. /\ calls' \in [Threads -> Seq(Nat \ {0})]
      /\ contexts' \in [Threads -> Seq([kind : Kinds, noted : BOOLEAN])]
      /\ calls'[t] = stack /\ \A u \in Threads \ {t} : calls'[u] = calls[u]
      /\ contexts'[t] = known /\ \A u \in Threads \ {t} : contexts'[u] = contexts[u]
  BY DEF TypeOK, Context
<1>2. \A u \in Threads : Stacked(calls'[u], contexts'[u])
  BY <1>1 DEF Stacks
<1>3. QED
  BY <1>1, <1>2 DEF Stacks, Stacked

(* A note leaves the number of contexts, and what the others are.          *)
LEMMA Noting ==
  ASSUME TypeOK, NEW t \in Threads, calls[t] # <<>>, Stacks
  PROVE  /\ Noted(t)[t] \in Seq(Context)
         /\ Noted(t) = [contexts EXCEPT ![t] = Noted(t)[t]]
         /\ Len(Noted(t)[t]) = Len(contexts[t])
         /\ \A i \in 1 .. Len(contexts[t]) : contexts[t][i].noted => Noted(t)[t][i].noted
         /\ Stacked(calls[t], Noted(t)[t])
<1> DEFINE known == contexts[t]
<1> DEFINE note == [known EXCEPT ![Len(known)].noted = TRUE]
<1>1. known \in Seq(Context) /\ calls[t] \in Seq(Nat \ {0}) /\ Stacked(calls[t], known)
  BY DEF TypeOK, Context, Stacks
<1>2. Len(known) \in 1 .. Len(known) /\ known[Len(known)] \in Context
  BY <1>1, EmptySeq, ElementOfSeq, LenProperties DEF Stacked
<1>3. [known[Len(known)] EXCEPT !.noted = TRUE] \in Context
  BY <1>2 DEF Context
<1>4. note \in Seq(Context) /\ Len(note) = Len(known)
  BY <1>1, <1>2, <1>3, ExceptSeq
<1>5. Noted(t) = [contexts EXCEPT ![t] = note] /\ Noted(t)[t] = note
  BY DEF Noted, TypeOK
<1>6. Stacked(calls[t], note)
  BY <1>1, <1>2, <1>4, EmptySeq DEF Stacked
<1>7. \A i \in 1 .. Len(known) : known[i].noted => note[i].noted
  <2>1. [known[Len(known)] EXCEPT !.noted = TRUE].noted = TRUE
    BY <1>2 DEF Context
  <2>2. \A i \in 1 .. Len(known) :
          note[i] = IF i = Len(known) THEN [known[Len(known)] EXCEPT !.noted = TRUE] ELSE known[i]
    BY <1>1, <1>2, <1>3, ExceptSeq
  <2> HIDE DEF note, known
  <2>3. QED
    BY <2>1, <2>2
<1> HIDE DEF note, known
<1>8. QED
  BY <1>4, <1>5, <1>6, <1>7 DEF known

(* The contexts that a return leaves.                                      *)
LEMMA AfterReturnKnown ==
  ASSUME TypeOK, Stacks, NEW t \in Threads, calls[t] # <<>>
  PROVE  /\ contexts[t] # <<>>
         /\ AfterReturn(t) \in Seq(Context)
         /\ Len(AfterReturn(t)) = IF Outermost(t) THEN Len(contexts[t]) - 1 ELSE Len(contexts[t])
         /\ \A i \in 1 .. Len(AfterReturn(t)) :
              AfterReturn(t)[i].noted = contexts[t][i].noted
                \/ (~ Outermost(t) /\ register[t] = 1)
<1> DEFINE known == contexts[t]
<1> DEFINE last == [known[Len(known)] EXCEPT !.noted = @ /\ register[t] # 1]
<1>1. known \in Seq(Context) /\ calls[t] \in Seq(Nat \ {0}) /\ Stacked(calls[t], known)
  BY DEF TypeOK, Context, Stacks
<1>2. Len(known) \in 1 .. Len(known) /\ known[Len(known)] \in Context /\ known # <<>>
  BY <1>1, EmptySeq, ElementOfSeq, LenProperties DEF Stacked
<1>3. CASE Outermost(t)
  <2>1. AfterReturn(t) = SubSeq(known, 1, Len(known) - 1)
    BY <1>3 DEF AfterReturn
  <2> HIDE DEF known
  <2>2. QED
    BY <1>1, <1>2, <1>3, <2>1, Popped DEF known
<1>4. CASE ~ Outermost(t)
  <2>1. last \in Context /\ (register[t] # 1 => last.noted = known[Len(known)].noted)
    BY <1>2 DEF Context
  <2>2. AfterReturn(t) = [known EXCEPT ![Len(known)] = last]
    BY <1>4 DEF AfterReturn
  <2> HIDE DEF known, last
  <2>3. /\ AfterReturn(t) \in Seq(Context) /\ Len(AfterReturn(t)) = Len(known)
        /\ \A i \in 1 .. Len(known) :
             AfterReturn(t)[i] = IF i = Len(known) THEN last ELSE known[i]
    BY <1>1, <1>2, <2>1, <2>2, ExceptSeq
  <2>4. QED
    BY <1>2, <1>4, <2>1, <2>3 DEF known
<1>5. QED
  BY <1>3, <1>4

(* What the return leaves of the stack.                                    *)
LEMMA ReturnStacked ==
  ASSUME TypeOK, Stacks, NEW t \in Threads, calls[t] # <<>>
  PROVE  /\ SubSeq(calls[t], 1, Len(calls[t]) - 1) \in Seq(Nat \ {0})
         /\ Len(SubSeq(calls[t], 1, Len(calls[t]) - 1)) = Len(calls[t]) - 1
         /\ Stacked(SubSeq(calls[t], 1, Len(calls[t]) - 1), AfterReturn(t))
<1>1. /\ calls[t] \in Seq(Nat \ {0}) /\ contexts[t] \in Seq(Context)
      /\ Stacked(calls[t], contexts[t])
  BY DEF TypeOK, Context, Stacks
<1>2. AfterReturn(t) \in Seq(Context)
  BY AfterReturnKnown
<1>3. IF Len(calls[t]) = 1 \/ calls[t][Len(calls[t]) - 1] < Len(contexts[t])
      THEN Len(AfterReturn(t)) = Len(contexts[t]) - 1
      ELSE Len(AfterReturn(t)) = Len(contexts[t])
  BY AfterReturnKnown DEF Outermost
<1>4. QED
  BY <1>1, <1>2, <1>3, PopStacked, Popped

LEMMA InitIInv == Init => IInv
<1> SUFFICES ASSUME Init PROVE IInv
  OBVIOUS
<1>1. \A t \in Threads : calls[t] = <<>> /\ contexts[t] = <<>> /\ pc[t] = "idle"
  BY DEF Init
<1>2. calls \in [Threads -> Seq(Nat \ {0})] /\ contexts \in [Threads -> Seq([kind : Kinds, noted : BOOLEAN])]
  BY EmptySeq DEF Init
<1>3. TypeOK
  BY BoundAssumption, <1>1, <1>2 DEF Init, TypeOK, Labels
<1>4. Stacked(<<>>, <<>>)
  BY EmptySeq DEF Stacked
<1>5. Stacks
  BY <1>1, <1>4 DEF Stacks
<1>6. ReadCurrent
  BY <1>1 DEF ReadCurrent
<1>7. \A t \in Threads : Counted(t) = 0
  <2>1. Len(<<>>) = 0
    OBVIOUS
  <2>2. QED
    BY <1>1, <2>1 DEF Counted
<1>8. CountTracksDepth
  BY <1>7 DEF Init, CountTracksDepth
<1>9. QED
  BY <1>3, <1>5, <1>6, <1>8 DEF IInv

(* The counting: with one thread only, how the step changes the count must *)
(* agree with how it changes the calls counted.                            *)
LEMMA OwnCount ==
  ASSUME IInv, NEW t \in Threads,
         Threads = {t} => callCount' - callCount = Counted(t)' - Counted(t) + unwound' - unwound,
         Len(calls'[t]) \in Nat, unwound' \in Nat, callCount' \in Int
  PROVE  CountTracksDepth'
<1> SUFFICES ASSUME NEW u \in Threads, Threads = {u}
             PROVE  callCount' = Counted(u)' + unwound'
  BY DEF CountTracksDepth
<1>1. u = t
  OBVIOUS
<1>2. Counted(t) \in Int /\ Counted(t)' \in Int
  BY LenProperties DEF IInv, TypeOK, Counted
<1>3. callCount = Counted(t) + unwound /\ callCount \in Int /\ unwound \in Nat
  BY <1>1 DEF IInv, TypeOK, CountTracksDepth
<1>4. QED
  BY <1>1, <1>2, <1>3

(* The steps between a read and a write, and those that change no stack.   *)
LEMMA QuietStep ==
  ASSUME IInv, NEW t \in Threads,
         ReadOnEntry(t) \/ WriteOnEntry(t) \/ Return(t) \/ ReadOnReturn(t)
  PROVE  IInv'
<1> USE DEF IInv, Goto
<1>1. calls' = calls /\ contexts' = contexts
  BY DEF ReadOnEntry, WriteOnEntry, Return, ReadOnReturn
<1>2. /\ pc \in [Threads -> Labels] /\ register \in [Threads -> Int] /\ callCount \in Int
      /\ unwound \in Nat /\ Len(calls[t]) \in Nat /\ calls[t] # <<>>
  BY LenProperties DEF TypeOK, Labels, ReadOnEntry, WriteOnEntry, Return, ReadOnReturn
<1>3. /\ pc' \in [Threads -> Labels] /\ register' \in [Threads -> Int] /\ callCount' \in Int
      /\ made' = made /\ unwound' = unwound /\ pc'[t] # "idle"
      /\ \A u \in Threads \ {t} : pc'[u] = pc[u]
  BY <1>2 DEF Labels, ReadOnEntry, WriteOnEntry, Return, ReadOnReturn
<1>4. TypeOK'
  BY <1>1, <1>2, <1>3, Zenon DEF TypeOK
<1>5. Stacks'
  BY <1>1 DEF Stacks
<1>6. ReadCurrent'
  BY <1>2 DEF ReadCurrent, Labels, ReadOnEntry, WriteOnEntry, Return, ReadOnReturn
<1>7. Threads = {t} => callCount' - callCount = Counted(t)' - Counted(t) + unwound' - unwound
  <2>1. Counted(t)' - Counted(t) = IF pc[t] = "increment" THEN 1 ELSE 0
    <3>1. \/ pc[t] = "enter" /\ pc'[t] = "increment"
          \/ pc[t] = "increment" /\ pc'[t] = "body"
          \/ pc[t] \in {"body", "leave"} /\ pc'[t] \in {"leave", "decrement"}
      BY <1>2 DEF ReadOnEntry, WriteOnEntry, Return, ReadOnReturn
    <3>2. Len(calls'[t]) = Len(calls[t])
      BY <1>1
    <3>3. Len(calls[t]) \in Nat
      BY <1>2
    <3>4. Counted(t)' = IF pc'[t] \in {"enter", "increment"} THEN Len(calls[t]) - 1 ELSE Len(calls[t])
      BY <3>2 DEF Counted
    <3>5. Counted(t) = IF pc[t] \in {"enter", "increment"} THEN Len(calls[t]) - 1 ELSE Len(calls[t])
      BY DEF Counted
    <3>6. CASE pc[t] = "enter" /\ pc'[t] = "increment"
      BY <3>3, <3>4, <3>5, <3>6
    <3>7. CASE pc[t] = "increment" /\ pc'[t] = "body"
      <4>1. Counted(t)' = Len(calls[t]) /\ Counted(t) = Len(calls[t]) - 1
        BY <3>4, <3>5, <3>7
      <4>2. QED
        BY <3>3, <3>7, <4>1
    <3>8. CASE pc[t] \in {"body", "leave"} /\ pc'[t] \in {"leave", "decrement"}
      <4>1. pc[t] \notin {"enter", "increment"} /\ pc'[t] \notin {"enter", "increment"}
        BY <3>8
      <4>2. Counted(t)' = Len(calls[t]) /\ Counted(t) = Len(calls[t]) /\ pc[t] # "increment"
        BY <3>4, <3>5, <4>1
      <4>3. QED
        BY <3>3, <4>2
    <3>9. QED
      BY <3>1, <3>6, <3>7, <3>8
  <2>2. Threads = {t} => callCount' - callCount = IF pc[t] = "increment" THEN 1 ELSE 0
    BY <1>2 DEF ReadCurrent, ReadOnEntry, WriteOnEntry, Return, ReadOnReturn
  <2>3. QED
    <3>1. Counted(t)' - Counted(t) \in Int /\ unwound' - unwound = 0
      BY <1>2, <1>3, <2>1
    <3>2. QED
      BY <1>3, <2>1, <2>2, <3>1
<1>8. CountTracksDepth'
  BY <1>1, <1>2, <1>3, <1>7, OwnCount
<1>9. QED
  BY <1>4, <1>5, <1>6, <1>8

(* A step that leaves its thread with a stack, contexts and a label, and   *)
(* changes the count as the calls counted.                                 *)
LEMMA OwnStep ==
  ASSUME IInv, NEW t \in Threads,
         NEW stack \in Seq(Nat \ {0}), NEW known \in Seq(Context), Stacked(stack, known),
         calls' = [calls EXCEPT ![t] = stack], contexts' = [contexts EXCEPT ![t] = known],
         NEW label \in {"idle", "enter", "body", "leave"}, label = "idle" <=> stack = <<>>,
         pc' = [pc EXCEPT ![t] = label], register' = register,
         made' \in [Threads -> 0 .. MaxCalls], unwound' \in Nat, callCount' \in Int,
         Threads = {t} =>
           callCount' - callCount
             = (IF label = "enter" THEN Len(stack) - 1 ELSE Len(stack)) - Counted(t)
                 + unwound' - unwound
  PROVE  IInv'
<1>1. TypeOK /\ Stacks
  BY DEF IInv
<1>2. /\ calls' \in [Threads -> Seq(Nat \ {0})]
      /\ contexts' \in [Threads -> Seq([kind : Kinds, noted : BOOLEAN])]
      /\ Stacks'
      /\ calls'[t] = stack /\ \A u \in Threads \ {t} : calls'[u] = calls[u]
      /\ \A u \in Threads : calls'[u] # <<>> => calls'[u][Len(calls'[u])] = Len(contexts'[u])
  BY <1>1, OwnStack
<1>3. /\ pc' \in [Threads -> Labels] /\ pc'[t] = label
      /\ \A u \in Threads \ {t} : pc'[u] = pc[u]
  BY <1>1 DEF TypeOK, Labels
<1>4. \A u \in Threads : pc'[u] = "idle" <=> calls'[u] = <<>>
  BY <1>1, <1>2, <1>3 DEF TypeOK
<1>5. TypeOK'
  BY <1>1, <1>2, <1>3, <1>4, Zenon DEF TypeOK
<1>6. ReadCurrent'
  BY <1>3 DEF ReadCurrent
<1>7. Counted(t)' = IF label = "enter" THEN Len(stack) - 1 ELSE Len(stack)
  <2>1. label # "increment"
    OBVIOUS
  <2>2. QED
    BY <1>2, <1>3, <2>1 DEF Counted
<1>8. Len(calls'[t]) \in Nat
  BY <1>2, LenProperties
<1>9. CountTracksDepth'
  BY <1>7, <1>8, OwnCount
<1>10. QED
  BY <1>2, <1>5, <1>6, <1>9 DEF IInv

(* What the steps know of their own thread.                                *)
LEMMA OwnThread ==
  ASSUME IInv, NEW t \in Threads
  PROVE  /\ calls[t] \in Seq(Nat \ {0}) /\ contexts[t] \in Seq(Context)
         /\ Stacked(calls[t], contexts[t]) /\ Len(calls[t]) \in Nat
         /\ calls = [calls EXCEPT ![t] = calls[t]]
         /\ contexts = [contexts EXCEPT ![t] = contexts[t]]
         /\ callCount \in Int /\ unwound \in Nat /\ made \in [Threads -> 0 .. MaxCalls]
         /\ register[t] \in Int
         /\ pc[t] = "idle" <=> calls[t] = <<>>
<1>1. calls[t] \in Seq(Nat \ {0}) /\ contexts[t] \in Seq(Context)
  BY DEF IInv, TypeOK, Context
<1>2. Len(calls[t]) \in Nat
  BY <1>1, LenProperties
<1>3. QED
  BY <1>1, <1>2 DEF IInv, TypeOK, Stacks

(* A call that is made is not yet counted.                                 *)
LEMMA CallIInv ==
  ASSUME IInv, NEW t \in Threads, NEW kind \in Kinds, Call(t, kind)
  PROVE  IInv'
<1>1. NewContext(kind) \in Context
  BY DEF NewContext, Context
<1>2. <<1>> \in Seq(Nat \ {0}) /\ <<NewContext(kind)>> \in Seq(Context)
  BY <1>1
<1>3. Stacked(<<1>>, <<NewContext(kind)>>)
  BY DEF Stacked
<1>4. made' \in [Threads -> 0 .. MaxCalls]
  BY BoundAssumption DEF Call, IInv, TypeOK
<1>5. calls[t] = <<>> /\ pc[t] = "idle"
  BY DEF Call, IInv, TypeOK
<1>6. Counted(t) = 0 /\ Len(<<1>>) = 1 /\ <<1>> # <<>>
  <2>1. Len(<<>>) = 0
    OBVIOUS
  <2>2. QED
    BY <1>5, <2>1 DEF Counted
<1>7. /\ calls' = [calls EXCEPT ![t] = <<1>>]
      /\ contexts' = [contexts EXCEPT ![t] = <<NewContext(kind)>>]
      /\ pc' = [pc EXCEPT ![t] = "enter"] /\ register' = register
      /\ callCount' = callCount /\ unwound' = unwound
  BY DEF Call, Goto
<1>8. callCount' \in Int /\ unwound' \in Nat
      /\ callCount' - callCount = (Len(<<1>>) - 1) - Counted(t) + unwound' - unwound
  BY <1>6, <1>7, OwnThread
<1> DEFINE stack == <<1>>
<1> DEFINE known == <<NewContext(kind)>>
<1> HIDE DEF stack, known
<1>9. stack \in Seq(Nat \ {0}) /\ known \in Seq(Context) /\ Stacked(stack, known) /\ stack # <<>>
      /\ calls' = [calls EXCEPT ![t] = stack] /\ contexts' = [contexts EXCEPT ![t] = known]
      /\ callCount' - callCount = (Len(stack) - 1) - Counted(t) + unwound' - unwound
  BY <1>2, <1>3, <1>6, <1>7, <1>8 DEF stack, known
<1>10. QED
  BY <1>4, <1>7, <1>8, <1>9, OwnStep

LEMMA MemberIInv ==
  ASSUME IInv, NEW t \in Threads, Member(t) \/ NestedCall(t)
  PROVE  IInv'
<1> DEFINE c == NewContext(contexts[t][1].kind)
<1>1. calls[t] # <<>> /\ pc[t] = "body"
  BY DEF Member, NestedCall, IInv, TypeOK
<1>2. contexts[t] # <<>>
  <2>1. [kind |-> "serialize", noted |-> FALSE] \in Context
    BY DEF Context, Kinds
  <2>2. QED
    BY <1>1, <2>1, OwnThread, PushStacked
<1>3. c \in Context
  <2>1. contexts[t][1] \in Context
    BY <1>2, OwnThread, EmptySeq, ElementOfSeq
  <2>2. QED
    BY <2>1 DEF NewContext, Context
<1>4. PICK stack \in Seq(Nat \ {0}), known \in Seq(Context) :
        /\ Stacked(stack, known) /\ stack # <<>> /\ Len(stack) = Len(calls[t]) + 1
        /\ calls' = [calls EXCEPT ![t] = stack] /\ contexts' = [contexts EXCEPT ![t] = known]
  <2> HIDE DEF c
  <2>1. /\ \A n \in {Len(contexts[t]), Len(contexts[t]) + 1} :
             /\ Append(calls[t], n) \in Seq(Nat \ {0}) /\ Append(calls[t], n) # <<>>
             /\ Len(Append(calls[t], n)) = Len(calls[t]) + 1
        /\ Stacked(Append(calls[t], Len(contexts[t])), contexts[t])
        /\ Append(contexts[t], c) \in Seq(Context)
        /\ Stacked(Append(calls[t], Len(contexts[t]) + 1), Append(contexts[t], c))
    BY <1>1, <1>3, OwnThread, PushStacked
  <2>2. CASE Member(t)
    <3>1. calls' = [calls EXCEPT ![t] = Append(calls[t], Len(contexts[t]))]
          /\ contexts' = [contexts EXCEPT ![t] = contexts[t]]
      BY <2>2, OwnThread DEF Member
    <3>2. Append(calls[t], Len(contexts[t])) \in Seq(Nat \ {0}) /\ contexts[t] \in Seq(Context)
      BY <2>1, OwnThread
    <3>3. QED
      BY <2>1, <3>1, <3>2
  <2>3. CASE NestedCall(t)
    <3>1. calls' = [calls EXCEPT ![t] = Append(calls[t], Len(contexts[t]) + 1)]
          /\ contexts' = [contexts EXCEPT ![t] = Append(contexts[t], c)]
      BY <2>3, OwnThread DEF NestedCall, c
    <3>2. QED
      BY <2>1, <3>1
  <2>4. QED
    BY <2>2, <2>3
<1>5. /\ pc' = [pc EXCEPT ![t] = "enter"] /\ register' = register /\ made' = made
      /\ callCount' = callCount /\ unwound' = unwound
  BY DEF Member, NestedCall, Goto
<1>6. Counted(t) = Len(calls[t])
  BY <1>1 DEF Counted
<1>7. /\ callCount' \in Int /\ unwound' \in Nat /\ made' \in [Threads -> 0 .. MaxCalls]
      /\ callCount' - callCount = (Len(stack) - 1) - Counted(t) + unwound' - unwound
  BY <1>4, <1>5, <1>6, OwnThread
<1>8. QED
  BY <1>4, <1>5, <1>7, OwnStep

LEMMA NoteIInv ==
  ASSUME IInv, NEW t \in Threads, NoteObject(t) \/ NoteMarker(t)
  PROVE  IInv'
<1>1. TypeOK /\ Stacks /\ calls[t] # <<>> /\ pc[t] = "body" /\ pc \in [Threads -> Labels]
  BY DEF NoteObject, NoteMarker, IInv, TypeOK
<1>2. /\ Noted(t)[t] \in Seq(Context) /\ Stacked(calls[t], Noted(t)[t])
      /\ Noted(t) = [contexts EXCEPT ![t] = Noted(t)[t]]
  BY <1>1, Noting
<1>3. PICK label \in {"body", "leave"} : pc' = [pc EXCEPT ![t] = label]
  BY <1>1 DEF NoteObject, NoteMarker, Goto
<1>4. /\ calls' = [calls EXCEPT ![t] = calls[t]] /\ contexts' = [contexts EXCEPT ![t] = Noted(t)[t]]
      /\ register' = register /\ made' = made /\ callCount' = callCount /\ unwound' = unwound
  BY <1>2, OwnThread DEF NoteObject, NoteMarker
<1>5. Counted(t) = Len(calls[t])
  BY <1>1 DEF Counted
<1>6. callCount' - callCount = Len(calls[t]) - Counted(t) + unwound' - unwound
  BY <1>4, <1>5, OwnThread
<1>7. QED
  BY <1>1, <1>2, <1>3, <1>4, <1>6, OwnThread, OwnStep

(* The count that is written is one less than it was, because nobody wrote *)
(* it since it was read.                                                   *)
LEMMA ReturnIInv ==
  ASSUME IInv, NEW t \in Threads, WriteOnReturn(t)
  PROVE  IInv'
<1> DEFINE stack == SubSeq(calls[t], 1, Len(calls[t]) - 1)
<1>1. TypeOK /\ Stacks /\ calls[t] # <<>> /\ pc[t] = "decrement"
  BY DEF WriteOnReturn, IInv, TypeOK
<1>2. /\ stack \in Seq(Nat \ {0}) /\ Len(stack) = Len(calls[t]) - 1
      /\ AfterReturn(t) \in Seq(Context) /\ Stacked(stack, AfterReturn(t))
  BY <1>1, ReturnStacked, AfterReturnKnown
<1>3. /\ calls' = [calls EXCEPT ![t] = stack] /\ contexts' = [contexts EXCEPT ![t] = AfterReturn(t)]
      /\ register' = register /\ made' = made /\ callCount' = register[t] - 1 /\ unwound' = unwound
      /\ pc' = [pc EXCEPT ![t] = IF Len(calls[t]) = 1 THEN "idle" ELSE "body"]
  BY DEF WriteOnReturn, Goto
<1> HIDE DEF stack
<1>4. PICK label \in {"idle", "body"} :
        pc' = [pc EXCEPT ![t] = label] /\ (label = "idle" <=> stack = <<>>)
  <2>1. stack = <<>> <=> Len(calls[t]) = 1
    <3>1. stack = <<>> <=> Len(stack) = 0
      BY <1>2, EmptySeq
    <3>2. Len(calls[t]) \in Nat
      BY OwnThread
    <3>3. QED
      BY <1>2, <3>1, <3>2
  <2>2. QED
    BY <1>3, <2>1
<1>5. Threads = {t} => register[t] = callCount
  BY <1>1 DEF IInv, ReadCurrent
<1>6. Counted(t) = Len(calls[t])
  BY <1>1 DEF Counted
<1>7. /\ callCount' \in Int /\ unwound' \in Nat /\ made' \in [Threads -> 0 .. MaxCalls]
      /\ Threads = {t} =>
           callCount' - callCount = Len(stack) - Counted(t) + unwound' - unwound
  BY <1>2, <1>3, <1>5, <1>6, OwnThread
<1>8. QED
  BY <1>2, <1>3, <1>4, <1>7, OwnStep

LEMMA ThrowIInv ==
  ASSUME IInv, NEW t \in Threads, Throw(t)
  PROVE  IInv'
<1> DEFINE none == <<>>
<1>1. none \in Seq(Nat \ {0}) /\ none \in Seq(Context) /\ Len(none) = 0 /\ Stacked(none, none)
  BY EmptySeq DEF Stacked
<1>2. /\ calls' = [calls EXCEPT ![t] = none] /\ contexts' = [contexts EXCEPT ![t] = none]
      /\ pc' = [pc EXCEPT ![t] = "idle"] /\ pc[t] = "body" /\ register' = register
      /\ made' = made /\ callCount' = callCount /\ unwound' = unwound + Len(calls[t])
  BY DEF Throw, Goto
<1>3. Counted(t) = Len(calls[t])
  BY <1>2 DEF Counted
<1>4. none = <<>>
  OBVIOUS
<1> HIDE DEF none
<1>5. /\ callCount' \in Int /\ unwound' \in Nat
      /\ callCount' - callCount = Len(none) - Counted(t) + unwound' - unwound
  BY <1>1, <1>2, <1>3, OwnThread
<1>6. QED
  BY <1>1, <1>2, <1>4, <1>5, OwnThread, OwnStep

(* The inductive invariant.                                                *)
THEOREM Invariance == Spec => []IInv
<1>1. IInv /\ [Next]_vars => IInv'
  <2> SUFFICES ASSUME IInv, [Next]_vars PROVE IInv'
    OBVIOUS
  <2>1. CASE Next
    <3>1. PICK t \in Threads : Step(t)
      BY <2>1 DEF Next
    <3>2. QED
      BY <3>1, QuietStep, CallIInv, MemberIInv, NoteIInv, ReturnIInv, ThrowIInv DEF Step
  <2>2. CASE UNCHANGED vars
    BY <2>2 DEF vars, IInv, TypeOK, Stacks, ReadCurrent, CountTracksDepth, Counted
  <2>3. QED
    BY <2>1, <2>2
<1>2. QED
  BY InitIInv, <1>1, PTL DEF Spec

(* The type invariant holds at every depth, whoever shares the serializer. *)
THEOREM TypeCorrect == Spec => []TypeOK
<1>1. IInv => TypeOK
  BY DEF IInv
<1>2. QED
  BY <1>1, Invariance, PTL

(* The count of a serializer with one thread is the depth of the calls and *)
(* what exceptions left in it: JsonSerializer.cs:61, 65, 125, 128.         *)
THEOREM CountCorrect == Spec => []CountTracksDepth
<1>1. IInv => CountTracksDepth
  BY DEF IInv
<1>2. QED
  BY <1>1, Invariance, PTL

------------------------------------------------------------------------------
(* A call of a member finds at least two calls in the count.               *)
LEMMA MemberCounted ==
  ASSUME IInv, NEW t \in Threads, Threads = {t}, pc[t] = "decrement", ~ Outermost(t)
  PROVE  register[t] # 1
<1>1. Counted(t) = Len(calls[t])
  BY DEF Counted
<1>2. register[t] = Len(calls[t]) + unwound
  BY <1>1 DEF IInv, ReadCurrent, CountTracksDepth
<1>3. calls[t] # <<>> /\ Len(calls[t]) # 1
  BY DEF Outermost, IInv, TypeOK
<1>4. Len(calls[t]) \in Nat \ {0} /\ unwound \in Nat
  BY <1>3, OwnThread, EmptySeq
<1> DEFINE depth == Len(calls[t])
<1> HIDE DEF depth
<1>5. register[t] = depth + unwound /\ depth \in Nat \ {0, 1} /\ unwound \in Nat
  BY <1>2, <1>3, <1>4 DEF depth
<1>6. QED
  BY <1>5

LEMMA KeepsNotes ==
  ASSUME IInv, NEW t \in Threads, Threads = {t}, Step(t),
         NEW i \in DOMAIN contexts[t] \cap DOMAIN contexts'[t], contexts[t][i].noted
  PROVE  contexts'[t][i].noted
<1> DEFINE known == contexts[t]
<1>1. known \in Seq(Context) /\ DOMAIN known = 1 .. Len(known)
  BY OwnThread, LenProperties
<1>2. CASE contexts' = contexts
  BY <1>2
<1>3. CASE \E kind \in Kinds : Call(t, kind)
  <2>1. known = <<>>
    BY <1>3 DEF Call, IInv, TypeOK, Stacks, Stacked
  <2>2. Len(known) = 0
    BY <2>1
  <2>3. QED
    BY <1>1, <2>2
<1>4. CASE NestedCall(t)
  <2>1. calls[t] # <<>>
    BY <1>4 DEF NestedCall, IInv, TypeOK
  <2>2. known # <<>>
    <3>1. [kind |-> "serialize", noted |-> FALSE] \in Context
      BY DEF Context, Kinds
    <3>2. QED
      BY <2>1, <3>1, OwnThread, PushStacked
  <2>3. NewContext(known[1].kind) \in Context
    <3>1. known[1] \in Context
      BY <1>1, <2>2, EmptySeq, ElementOfSeq
    <3>2. QED
      BY <3>1 DEF NewContext, Context
  <2>4. contexts'[t] = Append(known, NewContext(known[1].kind))
    BY <1>4 DEF NestedCall, IInv, TypeOK
  <2> HIDE DEF known
  <2>5. contexts'[t][i] = known[i]
    BY <1>1, <2>3, <2>4, AppendProperties DEF known
  <2>6. QED
    BY <2>5 DEF known
<1>5. CASE NoteObject(t) \/ NoteMarker(t)
  <2>1. TypeOK /\ Stacks /\ calls[t] # <<>>
    BY <1>5 DEF NoteObject, NoteMarker, IInv, TypeOK
  <2>2. contexts'[t] = Noted(t)[t]
    BY <1>5 DEF NoteObject, NoteMarker
  <2>3. QED
    BY <1>1, <2>1, <2>2, Noting
<1>6. CASE WriteOnReturn(t)
  <2>1. TypeOK /\ Stacks /\ calls[t] # <<>> /\ pc[t] = "decrement"
    BY <1>6 DEF WriteOnReturn, IInv, TypeOK
  <2>2. contexts'[t] = AfterReturn(t)
    BY <1>6 DEF WriteOnReturn, IInv, TypeOK
  <2>3. /\ AfterReturn(t) \in Seq(Context)
        /\ \A j \in 1 .. Len(AfterReturn(t)) :
             AfterReturn(t)[j].noted = contexts[t][j].noted
               \/ (~ Outermost(t) /\ register[t] = 1)
    BY <2>1, AfterReturnKnown
  <2>4. i \in 1 .. Len(AfterReturn(t))
    BY <2>2, <2>3, LenProperties
  <2>5. QED
    BY <2>1, <2>2, <2>3, <2>4, MemberCounted
<1>7. CASE Throw(t)
  <2>1. contexts'[t] = <<>>
    BY <1>7 DEF Throw, IInv, TypeOK
  <2>2. DOMAIN contexts'[t] = {}
    BY <2>1
  <2>3. QED
    BY <2>2
<1>8. QED
  BY <1>2, <1>3, <1>4, <1>5, <1>6, <1>7
  DEF Step, ReadOnEntry, WriteOnEntry, Member, Return, ReadOnReturn

(* A serializer that one thread uses clears a reference map, or completes  *)
(* its references, only in the outermost call of the map's context,        *)
(* whatever throws and whatever calls back: JsonSerializer.cs:65, 128.     *)
THEOREM AloneClearsLast ==
  ASSUME NEW t \in Threads, Threads = {t}
  PROVE  Spec => ClearedByOutermost
<1>1. IInv /\ [Next]_vars => [NotesKept]_vars
  BY KeepsNotes DEF Next, NotesKept
<1>2. QED
  BY <1>1, Invariance, PTL DEF Spec, ClearedByOutermost

------------------------------------------------------------------------------
(* What the outermost call of a context leaves in the count.               *)
LEMMA OutermostLeaves ==
  ASSUME IInv, NEW t \in Threads, Threads = {t}, WriteOnReturn(t), Outermost(t)
  PROVE  callCount' = 0 <=> unwound = 0 /\ Len(contexts[t]) = 1
<1> DEFINE depth == Len(calls[t])
           size == Len(contexts[t])
<1>1. pc[t] = "decrement" /\ calls[t] # <<>> /\ callCount' = register[t] - 1
  BY DEF WriteOnReturn, IInv, TypeOK
<1>2. depth \in Nat \ {0} /\ \A i \in 1 .. depth : calls[t][i] \in Nat \ {0}
  BY <1>1, OwnThread, EmptySeq, ElementOfSeq
<1>3. size \in Nat /\ unwound \in Nat
  BY LenProperties DEF IInv, TypeOK
<1>4. calls[t][1] = 1 /\ calls[t][depth] = size
  BY <1>1 DEF IInv, Stacks, Stacked
<1>5. depth = 1 => size = 1
  BY <1>4
<1>6. size = 1 => depth = 1
  <2>1. depth > 1 => depth - 1 \in 1 .. depth
    BY <1>2
  <2>2. depth > 1 /\ size = 1 => ~ (calls[t][depth - 1] < size)
    BY <1>2, <2>1
  <2>3. depth = 1 \/ calls[t][depth - 1] < size
    BY DEF Outermost
  <2> HIDE DEF depth, size
  <2>4. QED
    BY <1>2, <2>2, <2>3
<1>7. Counted(t) = depth
  BY <1>1 DEF Counted
<1> HIDE DEF depth
<1>8. register[t] = depth + unwound
  BY <1>1, <1>7 DEF IInv, ReadCurrent, CountTracksDepth
<1> HIDE DEF size
<1>9. callCount' = 0 <=> (unwound = 0 /\ size = 1)
  BY <1>1, <1>2, <1>3, <1>5, <1>6, <1>8
<1>10. QED
  BY <1>9 DEF size

(* Nothing but the last step of a call ends it.                            *)
LEMMA ReturningStep ==
  ASSUME NEW t \in Threads, Threads = {t}, Next, ContextReturns(t)
  PROVE  WriteOnReturn(t) /\ Outermost(t)
BY DEF ContextReturns, Next, Step, Call, ReadOnEntry, WriteOnEntry, Member, NestedCall,
   NoteObject, NoteMarker, Return, ReadOnReturn, Throw

(* For a serializer with one thread, references are completed exactly when *)
(* no exception has left it and no context is around: JsonSerializer.cs:65 *)
(* and 128, for every depth and whatever calls back.                       *)
THEOREM AloneCompletesExactly == Spec => CompletedIfUnbroken
<1>1. IInv /\ [Next]_vars => [CompletesExactly]_vars
  <2> SUFFICES ASSUME IInv, Next PROVE CompletesExactly
    BY DEF vars
  <2> SUFFICES ASSUME NEW t \in Threads, Threads = {t}, ContextReturns(t)
               PROVE  callCount' = 0 <=> unwound = 0 /\ Len(contexts[t]) = 1
    BY DEF CompletesExactly
  <2>1. WriteOnReturn(t) /\ Outermost(t)
    BY ReturningStep
  <2>2. QED
    BY <2>1, OutermostLeaves
<1>2. QED
  BY <1>1, Invariance, PTL DEF Spec, CompletedIfUnbroken

(* Nothing throws and no context starts in another.                        *)
Unbroken ==
  /\ unwound = 0
  /\ \A t \in Threads : Len(contexts[t]) <= 1

LEMMA UnbrokenStep ==
  ASSUME ~ MayThrow, ~ MayNest, IInv, Unbroken, NEW t \in Threads, Step(t)
  PROVE  Unbroken'
<1>1. CASE UNCHANGED <<contexts, unwound>>
  BY <1>1 DEF Unbroken
<1>2. \A u \in Threads : Len(contexts[u]) \in Nat /\ Len(contexts[u]) <= 1
  BY LenProperties DEF IInv, TypeOK, Unbroken
<1>3. CASE \E kind \in Kinds : Call(t, kind)
  <2>1. PICK kind \in Kinds : Call(t, kind)
    BY <1>3
  <2>2. contexts'[t] = <<NewContext(kind)>> /\ unwound' = unwound
        /\ \A u \in Threads \ {t} : contexts'[u] = contexts[u]
    BY <2>1 DEF Call, IInv, TypeOK
  <2>3. Len(<<NewContext(kind)>>) = 1
    OBVIOUS
  <2>4. Len(contexts'[t]) <= 1
    BY <2>2, <2>3
  <2>5. \A u \in Threads : Len(contexts'[u]) <= 1
    BY <1>2, <2>2, <2>4
  <2>6. QED
    BY <2>2, <2>5 DEF Unbroken
<1>4. CASE NoteObject(t) \/ NoteMarker(t)
  <2>1. TypeOK /\ Stacks /\ calls[t] # <<>>
    BY <1>4 DEF NoteObject, NoteMarker, IInv, TypeOK
  <2>2. contexts' = [contexts EXCEPT ![t] = Noted(t)[t]] /\ unwound' = unwound
        /\ Len(Noted(t)[t]) = Len(contexts[t])
    BY <1>4, <2>1, Noting DEF NoteObject, NoteMarker
  <2>3. QED
    BY <1>2, <2>1, <2>2 DEF Unbroken, TypeOK
<1>5. CASE WriteOnReturn(t)
  <2>1. TypeOK /\ Stacks /\ calls[t] # <<>>
    BY <1>5 DEF WriteOnReturn, IInv, TypeOK
  <2>2. Len(AfterReturn(t)) = IF Outermost(t) THEN Len(contexts[t]) - 1 ELSE Len(contexts[t])
    BY <2>1, AfterReturnKnown
  <2>3. /\ contexts'[t] = AfterReturn(t) /\ unwound' = unwound
        /\ \A u \in Threads \ {t} : contexts'[u] = contexts[u]
    BY <1>5, <2>1 DEF WriteOnReturn, TypeOK
  <2>4. Len(AfterReturn(t)) <= 1
    BY <1>2, <2>2
  <2>5. QED
    BY <1>2, <2>3, <2>4 DEF Unbroken
<1>6. QED
  BY <1>1, <1>3, <1>4, <1>5
  DEF Step, ReadOnEntry, WriteOnEntry, Member, NestedCall, Return, ReadOnReturn, Throw

(* When one thread uses the serializer, nothing throws and no value makes  *)
(* calls of its own, every reference that a Deserialize noted has been     *)
(* completed when it returns: JsonSerializer.cs:128-133. By the theorem    *)
(* before, an exception or a context of its own makes the difference.      *)
THEOREM AloneCompletes ==
  ASSUME NEW t \in Threads, Threads = {t}, ~ MayThrow, ~ MayNest
  PROVE  Spec => ReferencesCompleted
<1>1. Init => Unbroken
  <2>1. Len(<<>>) = 0
    OBVIOUS
  <2>2. QED
    BY <2>1 DEF Init, Unbroken
<1>2. IInv /\ Unbroken /\ [Next]_vars => Unbroken'
  BY UnbrokenStep DEF Next, Unbroken, vars
<1>3. IInv /\ Unbroken /\ [Next]_vars => [CompletedOnReturn]_vars
  <2> SUFFICES ASSUME IInv, Unbroken, Next PROVE CompletedOnReturn
    BY DEF vars
  <2> SUFFICES ASSUME ContextReturns(t) PROVE callCount' = 0
    BY DEF CompletedOnReturn
  <2>1. WriteOnReturn(t) /\ Outermost(t)
    BY ReturningStep
  <2>2. Len(contexts[t]) = 1
    <3>1. contexts[t] \in Seq(Context) /\ contexts[t] # <<>>
      <4>1. calls[t] # <<>>
        BY <2>1 DEF WriteOnReturn, IInv, TypeOK
      <4>2. calls[t][1] = 1 /\ calls[t][Len(calls[t])] = Len(contexts[t])
        BY <4>1 DEF IInv, Stacks, Stacked
      <4>3. calls[t][Len(calls[t])] \in Nat \ {0}
        BY <4>1, OwnThread, EmptySeq, ElementOfSeq
      <4>4. Len(contexts[t]) # 0
        BY <4>2, <4>3
      <4>5. QED
        BY <4>4, OwnThread
    <3>2. Len(contexts[t]) \in Nat \ {0}
      BY <3>1, EmptySeq
    <3>3. Len(contexts[t]) <= 1
      BY DEF Unbroken
    <3> DEFINE size == Len(contexts[t])
    <3> HIDE DEF size
    <3>4. size \in Nat \ {0} /\ size <= 1
      BY <3>2, <3>3 DEF size
    <3>5. size = 1
      BY <3>4
    <3>6. QED
      BY <3>5 DEF size
  <2>3. QED
    BY <2>1, <2>2, OutermostLeaves DEF Unbroken
<1>4. QED
  BY <1>1, <1>2, <1>3, Invariance, PTL DEF Spec, ReferencesCompleted
==============================================================================
