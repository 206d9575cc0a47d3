---------------------------- MODULE CommonLemmas ----------------------------
(***************************************************************************)
(* What the proofs of several components need of numbers and sequences. An *)
(* induction is done with LeastNumber: of the numbers for which something  *)
(* fails there is a least.                                                 *)
(***************************************************************************)
EXTENDS Naturals, SequencesExt, SequenceTheorems, NaturalsInduction, WellFoundedInduction, TLAPS

(* A set of natural numbers has a least element.                           *)
LEMMA LeastNumber ==
  ASSUME NEW T \in SUBSET Nat, T # {}
  PROVE \E n \in T : \A m \in T : n <= m
<1> DEFINE R == {ss \in Nat \X Nat : ss[1] < ss[2]}
<1>1. R = OpToRel(<, Nat)
  BY Zenon DEF OpToRel
<1>2. IsWellFoundedOn(R, Nat)
  BY NatLessThanWellFounded, <1>1
<1>3. PICK n \in T : \A m \in T : ~ (<<m, n>> \in R)
  BY WFMin, <1>2, Zenon
<1>4. \A m \in T : ~ (m < n)
  <2> TAKE m \in T
  <2>1. <<m, n>> \in Nat \X Nat
    OBVIOUS
  <2>2. <<m, n>>[1] = m /\ <<m, n>>[2] = n
    OBVIOUS
  <2> QED
    BY <1>3, <2>1, <2>2
<1>5. \A m \in T : n <= m
  BY <1>4
<1> QED
  BY <1>5

LEMMA MinIsLeast ==
  ASSUME NEW T \in SUBSET Nat, T # {}
  PROVE Min(T) \in T /\ \A m \in T : Min(T) <= m
BY LeastNumber, Zenon DEF Min

(* What a recursive function on 0 .. N is made of: a value for 0, and one  *)
(* for each number from that for the number before. Such functions exist,  *)
(* so that a definition by recursion defines one.                          *)
StepsOn(S, N) == [1 .. N -> [S -> S]]

IterationOf(f, step, base, S, N) ==
  /\ f \in [0 .. N -> S]
  /\ f[0] = base
  /\ \A n \in 1 .. N : f[n] = step[n][f[n - 1]]

LEMMA Iterated ==
  ASSUME NEW S, NEW base \in S, NEW N \in Nat, NEW step \in StepsOn(S, N)
  PROVE  \E f : IterationOf(f, step, base, S, N)
<1> DEFINE Upto(n, g) == g \in [0 .. n -> S] /\ g[0] = base /\ \A i \in 1 .. n : g[i] = step[i][g[i - 1]]
           Bad == {n \in 0 .. N : ~ \E g : Upto(n, g)}
<1>1. Bad = {}
  <2>1. SUFFICES ASSUME Bad # {} PROVE FALSE
    OBVIOUS
  <2>2. PICK n \in Bad : \A m \in Bad : n <= m
    <3>1. Bad \in SUBSET Nat
      OBVIOUS
    <3> HIDE DEF Bad
    <3> QED
      BY LeastNumber, <2>1, <3>1
  <2>3. n \in 0 .. N /\ n # 0
    <3>1. Upto(0, [i \in 0 .. 0 |-> base])
      OBVIOUS
    <3> QED
      BY <3>1
  <2>4. PICK g : Upto(n - 1, g)
    <3>1. n - 1 \in 0 .. N /\ ~ (n <= n - 1)
      <4> HIDE DEF Bad
      <4> QED
        BY <2>3
    <3>2. n - 1 \notin Bad
      BY <3>1, <2>2
    <3> QED
      BY <3>1, <3>2
  <2>5. Upto(n, [i \in 0 .. n |-> IF i = n THEN step[n][g[n - 1]] ELSE g[i]])
    <3> HIDE DEF Bad
    <3>1. g \in [0 .. (n - 1) -> S] /\ g[n - 1] \in S /\ step[n][g[n - 1]] \in S
      BY <2>4, <2>3 DEF StepsOn
    <3> QED
      BY <2>4, <2>3, <3>1
  <2> QED
    BY <2>5
<1>2. PICK f : Upto(N, f)
  BY <1>1
<1> QED
  BY <1>2 DEF IterationOf

(* What holds of 0, and of each number when of the one before, holds of    *)
(* every number to N: Z is the set of those it holds of.                   *)
LEMMA Upwards ==
  ASSUME NEW N \in Nat, NEW Z, 0 \in Z, \A n \in 1 .. N : n - 1 \in Z => n \in Z
  PROVE  0 .. N \subseteq Z
<1> DEFINE Bad == (0 .. N) \ Z
<1>1. SUFFICES ASSUME Bad # {} PROVE FALSE
  OBVIOUS
<1>2. PICK n \in Bad : \A m \in Bad : n <= m
  <2>1. Bad \in SUBSET Nat
    OBVIOUS
  <2> HIDE DEF Bad
  <2> QED
    BY LeastNumber, <1>1, <2>1
<1>3. n \in 1 .. N /\ n \notin Z
  BY <1>2
<1>4. n - 1 \in 0 .. N /\ ~ (n <= n - 1)
  <2> HIDE DEF Bad
  <2> QED
    BY <1>3
<1>5. n - 1 \in Z
  BY <1>2, <1>4
<1> QED
  BY <1>3, <1>5

------------------------------------------------------------------------------
(* All but the last of a sequence.                                         *)
LEMMA Popped ==
  ASSUME NEW S, NEW s \in Seq(S), s # <<>>
  PROVE  /\ SubSeq(s, 1, Len(s) - 1) \in Seq(S)
         /\ Len(SubSeq(s, 1, Len(s) - 1)) = Len(s) - 1
         /\ \A i \in 1 .. Len(s) - 1 : SubSeq(s, 1, Len(s) - 1)[i] = s[i]
<1>1. Len(s) \in Nat \ {0} /\ \A i \in 1 .. Len(s) - 1 : s[i] \in S
  BY EmptySeq, ElementOfSeq
<1> DEFINE n == Len(s) - 1
<1>2. n \in Int /\ \A i \in 1 .. n : s[i] \in S
  BY <1>1
<1>3. /\ SubSeq(s, 1, n) \in Seq(S)
      /\ Len(SubSeq(s, 1, n)) = IF 1 <= n THEN n - 1 + 1 ELSE 0
      /\ \A i \in 1 .. n - 1 + 1 : SubSeq(s, 1, n)[i] = s[1 + i - 1]
  <2> HIDE DEF n
  <2>1. QED
    BY <1>2, SubSeqProperties
<1>4. n - 1 + 1 = n /\ \A i \in 1 .. n : 1 + i - 1 = i
  BY <1>1
<1>5. QED
  BY <1>1, <1>3, <1>4

(* The last of a sequence, and a sequence with another last.               *)
LEMMA TopIsIn ==
  ASSUME NEW S, NEW s \in Seq(S), s # <<>>
  PROVE  Len(s) \in Nat \ {0} /\ Last(s) = s[Len(s)] /\ Last(s) \in S
BY EmptySeq, ElementOfSeq DEF Last

LEMMA Replaced ==
  ASSUME NEW S, NEW s \in Seq(S), s # <<>>, NEW f \in S
  PROVE  /\ Append(Front(s), f) \in Seq(S)
         /\ Append(Front(s), f) # <<>>
         /\ Len(Append(Front(s), f)) = Len(s)
         /\ Last(Append(Front(s), f)) = f
         /\ \A i \in 1 .. Len(s) : Append(Front(s), f)[i] = IF i = Len(s) THEN f ELSE s[i]
<1>1. Len(s) \in Nat \ {0}
  BY TopIsIn
<1>2. /\ Front(s) \in Seq(S) /\ Len(Front(s)) = Len(s) - 1
      /\ \A i \in 1 .. Len(s) - 1 : Front(s)[i] = s[i]
  BY Popped DEF Front
<1>3. /\ Append(Front(s), f) \in Seq(S)
      /\ Len(Append(Front(s), f)) = Len(Front(s)) + 1
      /\ \A i \in 1 .. Len(Front(s)) : Append(Front(s), f)[i] = Front(s)[i]
      /\ Append(Front(s), f)[Len(Front(s)) + 1] = f
  BY <1>2, AppendProperties
<1>4. Append(Front(s), f) # <<>>
  BY <1>1, <1>2, <1>3, EmptySeq
<1> QED
  BY <1>1, <1>2, <1>3, <1>4 DEF Last

(* A sequence with an element put into it or taken out.                    *)
LEMMA InsertedInSeq ==
  ASSUME NEW S, NEW s \in Seq(S), NEW i \in 1 .. Len(s) + 1, NEW e \in S
  PROVE  InsertAt(s, i, e) \in Seq(S)
<1>1. Len(s) \in Nat /\ \A j \in 1 .. Len(s) : s[j] \in S
  BY LenProperties, ElementOfSeq
<1>2. SubSeq(s, 1, i - 1) \in Seq(S)
  BY <1>1, SubSeqProperties
<1>3. SubSeq(s, i, Len(s)) \in Seq(S)
  BY <1>1, SubSeqProperties
<1>4. <<e>> \in Seq(S)
  OBVIOUS
<1>5. SubSeq(s, 1, i - 1) \o <<e>> \in Seq(S)
  BY <1>2, <1>4, ConcatProperties
<1> QED
  BY <1>3, <1>5, ConcatProperties DEF InsertAt

LEMMA RemovedFromSeq ==
  ASSUME NEW S, NEW s \in Seq(S), NEW i \in 1 .. Len(s)
  PROVE  RemoveAt(s, i) \in Seq(S)
<1>1. Len(s) \in Nat /\ \A j \in 1 .. Len(s) : s[j] \in S
  BY LenProperties, ElementOfSeq
<1>2. SubSeq(s, 1, i - 1) \in Seq(S)
  BY <1>1, SubSeqProperties
<1>3. SubSeq(s, i + 1, Len(s)) \in Seq(S)
  BY <1>1, SubSeqProperties
<1> QED
  BY <1>2, <1>3, ConcatProperties DEF RemoveAt

(* A sequence is one over every set that has its elements.                 *)
LEMMA SeqOverElements ==
  ASSUME NEW S, NEW s \in Seq(S), NEW T, \A i \in 1 .. Len(s) : s[i] \in T
  PROVE  s \in Seq(T)
<1>1. Len(s) \in Nat /\ s \in [1 .. Len(s) -> T]
  BY LenProperties
<1>2. Seq(T) = UNION {[1 .. n -> T] : n \in Nat}
  BY SeqDef
<1> QED
  BY <1>1, <1>2
=============================================================================
