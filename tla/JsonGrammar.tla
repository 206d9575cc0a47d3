----------------------------- MODULE JsonGrammar -----------------------------
(***************************************************************************)
(* What a text denotes by RFC 8259, to which the repository says it        *)
(* conforms (docs_source/index.md): each production is the set of the      *)
(* values that the text has by it, over all ways to split the text, and    *)
(* empty when it has none.                                                 *)
(*                                                                         *)
(* When lenient holds, the grammar is that of the README of this project   *)
(* under "what the readers accept besides": literals in any case, numbers  *)
(* as .NET reads them, any white space, control characters in strings, and *)
(* white space around the digits of an escape, with NULs behind it.        *)
(***************************************************************************)
EXTENDS JsonText
LOCAL INSTANCE SequencesExt

LOCAL From(t, i) == SubSeq(t, i, Len(t))
LOCAL Upto(t, i) == SubSeq(t, 1, i)

LOCAL Space(lenient) == IF lenient THEN WhiteSpace ELSE {9, 10, 13, 32}

LOCAL Trim(t, lenient) ==
  LET inner == {i \in DOMAIN t : t[i] \notin Space(lenient)}
      first == CHOOSE i \in inner : \A j \in inner : i <= j
      last == CHOOSE i \in inner : \A j \in inner : j <= i
  IN IF inner = {} THEN <<>> ELSE SubSeq(t, first, last)

(* number = [ "-" ] int [ "." digits ] [ ("e" / "E") [ sign ] digits ]     *)
IsNumber(t) ==
  LET digits(u) == u # <<>> /\ ToSet(u) \subseteq Digits
      int(u) == digits(u) /\ (u[1] = 48 => Len(u) = 1)
      decimal(u) == \/ int(u)
                    \/ \E i \in DOMAIN u :
                         u[i] = 46 /\ int(Upto(u, i - 1)) /\ digits(From(u, i + 1))
      exponent(u) == digits(u) \/ (u # <<>> /\ u[1] \in {43, 45} /\ digits(Tail(u)))
      unsigned(u) == \/ decimal(u)
                     \/ \E i \in DOMAIN u : /\ u[i] \in {69, 101}
                                            /\ decimal(Upto(u, i - 1))
                                            /\ exponent(From(u, i + 1))
  IN IF t # <<>> /\ t[1] = 45 THEN unsigned(Tail(t)) ELSE unsigned(t)

LOCAL Numbers(t, lenient) ==
  IF IF lenient THEN t # <<>> /\ t[1] \in Digits \cup {45} /\ IsDouble(t) ELSE IsNumber(t)
  THEN {Number(t)} ELSE {}

LOCAL Literals(t, lenient) ==
  {Literal(w) : w \in {v \in {True, False, Null} :
                         t = v \/ (lenient /\ [i \in DOMAIN t |-> Lower(t[i])] = v)}}

(* The digits of an escape, in its four characters: when lenient, with     *)
(* white space around them and then NULs.                                  *)
LOCAL EscapedDigits(four, lenient) ==
  {SubSeq(four, at[1], at[2]) : at \in
     {e \in (1 .. 4) \X (1 .. 4) \X (1 .. 4) :
        /\ e[1] <= e[2] /\ e[2] <= e[3]
        /\ e = <<1, 4, 4>> \/ lenient
        /\ ToSet(SubSeq(four, e[1], e[2])) \subseteq HexChars
        /\ ToSet(Upto(four, e[1] - 1) \o SubSeq(four, e[2] + 1, e[3])) \subseteq (9 .. 13) \cup {32}
        /\ ToSet(From(four, e[3] + 1)) \subseteq {0}}}

(* Every escape with four digits is one code unit.                         *)
RECURSIVE Units(_, _)
Units(t, lenient) ==
  LET Then(units, rest) == {units \o u : u \in Units(rest, lenient)}
  IN CASE t = <<>> -> {<<>>}
       [] t # <<>> /\ t[1] # Backslash ->
            IF t[1] = Quote \/ (t[1] < 32 /\ ~ lenient) THEN {} ELSE Then(<<t[1]>>, Tail(t))
       [] Len(t) > 1 /\ t[1] = Backslash /\ t[2] \in DOMAIN SimpleEscape ->
            Then(<<SimpleEscape[t[2]]>>, From(t, 3))
       [] Len(t) > 5 /\ t[1] = Backslash /\ t[2] = LetterU ->
            UNION {Then(<<HexValue(digits)>>, From(t, 7)) :
                     digits \in EscapedDigits(SubSeq(t, 3, 6), lenient)}
       [] OTHER -> {}

LOCAL Strings(t, lenient) ==
  IF Len(t) < 2 \/ t[1] # Quote \/ Last(t) # Quote THEN {}
  ELSE {String(u) : u \in Units(SubSeq(t, 2, Len(t) - 1), lenient)}

LOCAL Commas(t) == {i \in DOMAIN t : t[i] = Comma}
LOCAL Inner(t, open, close) ==
  IF Len(t) > 1 /\ t[1] = open /\ Last(t) = close THEN {SubSeq(t, 2, Len(t) - 1)} ELSE {}

(* Denotes: value, with white space around it. Lists and Pairs: what is    *)
(* between the brackets when it is not empty.                              *)
RECURSIVE Denotes(_, _), Lists(_, _), Pairs(_, _)

Lists(t, lenient) ==
  {<<v>> : v \in Denotes(t, lenient)} \cup
  UNION {{Append(l, v) : l \in Lists(Upto(t, i - 1), lenient),
                         v \in Denotes(From(t, i + 1), lenient)} : i \in Commas(t)}

LOCAL Pair(t, lenient) ==
  UNION {{<<k.text, v>> : k \in Strings(Trim(Upto(t, i - 1), lenient), lenient),
                          v \in Denotes(From(t, i + 1), lenient)} :
           i \in {j \in DOMAIN t : t[j] = Colon}}

Pairs(t, lenient) ==
  {<<m>> : m \in Pair(t, lenient)} \cup
  UNION {{Append(l, m) : l \in Pairs(Upto(t, i - 1), lenient),
                         m \in Pair(From(t, i + 1), lenient)} : i \in Commas(t)}

(* Of members with one name the last counts, where the first one is.       *)
LOCAL ObjectOf(pairs) ==
  LET first == {i \in DOMAIN pairs : \A j \in 1 .. i - 1 : pairs[j][1] # pairs[i][1]}
      order == SetToSortSeq(first, <)
      last(key) == CHOOSE i \in DOMAIN pairs :
                     pairs[i][1] = key /\ \A j \in i + 1 .. Len(pairs) : pairs[j][1] # key
  IN Object([n \in DOMAIN order |-> pairs[order[n]][1]],
            [n \in DOMAIN order |-> pairs[last(pairs[order[n]][1])][2]])

Denotes(whole, lenient) ==
  LET t == Trim(whole, lenient)
      Empty(inner) == Trim(inner, lenient) = <<>>
  IN UNION {
       Literals(t, lenient), Numbers(t, lenient), Strings(t, lenient),
       UNION {IF Empty(u) THEN {Array(<<>>)} ELSE {Array(l) : l \in Lists(u, lenient)} :
                u \in Inner(t, OpenArray, CloseArray)},
       UNION {IF Empty(u) THEN {Object(<<>>, <<>>)} ELSE {ObjectOf(l) : l \in Pairs(u, lenient)} :
                u \in Inner(t, OpenObject, CloseObject)}}
==============================================================================
