------------------------------ MODULE MCJsonText ------------------------------
(* Texts that reach every branch of the readers, and what becomes of them  *)
(* when one character is left out, replaced, or the last one.              *)
EXTENDS JsonTextProperties
LOCAL INSTANCE SequencesExt
LOCAL INSTANCE TLC

(* Characters by the strings that show them.                               *)
Chars ==
  ("[" :> 91) @@ ("]" :> 93) @@ ("{" :> 123) @@ ("}" :> 125) @@ ("," :> 44) @@ (":" :> 58)
  @@ ("'" :> 34) @@ ("/" :> 92) @@ (" " :> 32) @@ ("-" :> 45) @@ ("." :> 46) @@ ("0" :> 48)
  @@ ("1" :> 49) @@ ("a" :> 97) @@ ("E" :> 69) @@ ("+" :> 43)
  @@ ("e" :> 101) @@ ("f" :> 102) @@ ("l" :> 108) @@ ("n" :> 110)
  @@ ("r" :> 114) @@ ("s" :> 115) @@ ("t" :> 116) @@ ("T" :> 84) @@ ("u" :> 117)
T(list) == [i \in DOMAIN list |-> Chars[list[i]]]

U(n) == T(<<"/", "u">>) \o X4(n)
Q(body) == T(<<"'">>) \o body \o T(<<"'">>)

LetterA == 65
Omega == 937
HangulLast == 55291       \* D7FB
Grin == <<55357, 56832>>  \* D83D DE00
Bell == 7

Plain ==
  {T(<<"n", "u", "l", "l">>), T(<<"T", "r", "u", "e">>), T(<<"[", "f", "a", "l", "s", "e", "]">>),
   T(<<"-", "1", ".", "0", "e", "-", "1">>), T(<<"0", "1", "-">>), T(<<"1", " ">>),
   T(<<"[", "]">>), T(<<"[", "1", ",", " ", "[", "1", "]", "]">>),
   T(<<"[", "'", "a", "'", ",", "n", "u", "l", "l", "]">>), T(<<"{", "}">>),
   T(<<" ", "{", "'", "a", "'", " ", ":", "1", "}">>),
   T(<<"{", "'", "a", "'", ":", "1", ",", "'", "a", "'", ":", "[", "]", "}">>),
   Q(T(<<"a", "/", "n", "/", "/">>)), Q(T(<<"/", "'", "/", "t", "a">>))}

Escaped ==
  {Q(U(LetterA)), Q(U(LetterA) \o <<LetterA>>), Q(U(LetterA) \o U(Omega)),
   Q(U(LetterA) \o U(Omega) \o U(Bell)), Q(U(Grin[1]) \o U(Grin[2])),
   Q(U(Grin[1]) \o U(Grin[2]) \o U(Omega) \o T(<<"a">>)),
   T(<<"[">>) \o Q(U(LetterA) \o U(Omega) \o U(Grin[1]) \o U(Grin[2])) \o T(<<"]">>)}

Misread == {Q(U(LetterA) \o U(Grin[1]) \o U(Grin[2])), Q(U(HangulLast) \o U(Omega)),
            Q(U(Grin[1])), Q(U(Grin[1]) \o U(LetterA)), Q(<<5>>)}

Others == {Chars[c] : c \in {"[", "]", "}", ",", ":", "'", "/", " ", "1", "a", "u"}} \cup {0}

Damaged(t) ==
  {SubSeq(t, 1, i) : i \in DOMAIN t} \cup {RemoveAt(t, i) : i \in DOMAIN t}
  \cup {ReplaceAt(t, i, c) : i \in DOMAIN t, c \in Others}

Whole(t) == [text |-> t, ends |-> {}]
InParts(t) == {[text |-> t, ends |-> {e}] : e \in 1 .. Len(t) - 1}

MCDeliveries ==
  {Whole(t) : t \in Plain \cup Escaped \cup Misread
                     \cup UNION {Damaged(u) : u \in Plain \cup Escaped}}
  \cup UNION {InParts(t) : t \in Plain \cup Escaped}

S(units) == String(units)
One == Number(T(<<"1">>))
MCValues ==
  {One, Number(T(<<"-", "1", "E", "+", "1", "0">>)),
   Literal(Null), Literal(True), S(<<>>), S(Grin), S(<<LetterA, Quote, Backslash, 10, Omega>>),
   S(<<Bell, 0, 159>>), S(<<Bell>> \o Grin \o <<Bell, 127, LetterA>>), S(<<65535>>),
   Array(<<>>), Array(<<One, Array(<<S(<<LetterA>>), Literal(False)>>)>>), Object(<<>>, <<>>),
   Object(<< <<LetterA>>, <<Quote, Bell>> >>,
          <<Object(<< <<>> >>, <<Array(<<Array(<<>>), One>>)>>), Array(<<Object(<< <<Comma>> >>, <<One>>)>>)>>)}

MCSettings == {[isolated |-> FALSE, duplicates |-> "Overwrite"],
               [isolated |-> TRUE, duplicates |-> "Overwrite"],
               [isolated |-> FALSE, duplicates |-> "Throw"]}
===============================================================================
