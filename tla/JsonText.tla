------------------------------- MODULE JsonText -------------------------------
(***************************************************************************)
(* JSON values as text: how JsonValue, JsonObject and JsonArray print them *)
(* and how the parsers (Parsing) read them from a string, from a           *)
(* TextReader, and asynchronously from a TextReader.                       *)
(*                                                                         *)
(* A text is a sequence of UTF-16 code units. A number is kept as it is    *)
(* written. A position counts the characters before it.                    *)
(***************************************************************************)
EXTENDS Integers, Sequences
LOCAL INSTANCE TLC
LOCAL INSTANCE SequencesExt
LOCAL INSTANCE FiniteSetsExt

CONSTANTS
  Values,      \* the values to print
  Deliveries,  \* the texts to read, with the ends of incomplete deliveries
  Settings     \* values of JsonOptions: isolated, duplicates

Readers == {"string", "stream", "async"}

VARIABLES
  settings,  \* RequireIsolatedJsonDuringParse, DuplicateKeyBehavior
  written,   \* the value that is printed, if any, in a sequence
  text,      \* what is read
  ends,      \* where a delivery of the stream ends before the text does
  phase,     \* "writing", "reading", or "threw" in writing
  outcomes   \* what each reader that was asked has made of it

vars == <<settings, written, text, ends, phase, outcomes>>

(***************************************************************************)
(* Characters.                                                             *)
(***************************************************************************)
Quote == 34
Comma == 44
Colon == 58
OpenArray == 91
Backslash == 92
CloseArray == 93
LetterU == 117
OpenObject == 123
CloseObject == 125

Digits == 48 .. 57
NumberChars == Digits \cup {43, 45, 46, 69, 101}          \* + - . E e
HexChars == Digits \cup (65 .. 70) \cup (97 .. 102)
WhiteSpace == (9 .. 13) \cup {32, 133, 160, 5760, 8232, 8233, 8239, 8287, 12288}
              \cup (8192 .. 8202)
Control == (0 .. 31) \cup (127 .. 159)
Surrogates == 55296 .. 57343                              \* D800 to DFFF

(* The letters b f n r t, and the characters that stand for themselves.    *)
SimpleEscape == (98 :> 8) @@ (102 :> 12) @@ (110 :> 10) @@ (114 :> 13) @@ (116 :> 9)
                @@ (Quote :> Quote) @@ (Backslash :> Backslash) @@ (47 :> 47)

HexDigit(n) == IF n < 10 THEN 48 + n ELSE 55 + n
X4(n) == [i \in 1 .. 4 |-> HexDigit((n \div (16 ^ (4 - i))) % 16)]
HexValue(list) ==
  FoldLeft(LAMBDA n, c : 16 * n + (IF c \in Digits THEN c - 48
                                   ELSE IF c < 97 THEN c - 55 ELSE c - 87), 0, list)

Lower(c) == IF c \in 65 .. 90 THEN c + 32 ELSE c
True == <<116, 114, 117, 101>>
False == <<102, 97, 108, 115, 101>>
Null == <<110, 117, 108, 108>>

(***************************************************************************)
(* Values.                                                                 *)
(***************************************************************************)
Scalar(type, units) == [type |-> type, text |-> units, keys |-> <<>>, items |-> <<>>]
String(units) == Scalar("string", units)
Number(token) == Scalar("number", token)
Literal(word) == Scalar("literal", word)
Array(items) == [type |-> "array", text |-> <<>>, keys |-> <<>>, items |-> items]
Object(keys, items) == [type |-> "object", text |-> <<>>, keys |-> keys, items |-> items]

(***************************************************************************)
(* Printing.                                                               *)
(***************************************************************************)
(* The table of printable characters has no entry for the last code unit.  *)
InTable(u) == u < 65535

(* As if two digits were enough for a control character.                   *)
EscapeSequenceShort(u) ==
  CASE u = Quote -> <<Backslash, Quote>>
    [] u = Backslash -> <<Backslash, Backslash>>
    [] u \in Control -> <<Backslash, LetterU>> \o SubSeq(X4(u), 3, 4)
    [] OTHER -> <<u>>

EscapeSequence(u) ==
  CASE u = Quote -> <<Backslash, Quote>>
    [] u = Backslash -> <<Backslash, Backslash>>
    [] u \in {8, 9, 10, 12, 13} ->
         <<Backslash, CHOOSE c \in DOMAIN SimpleEscape : SimpleEscape[c] = u>>
    [] u \in Control \ {8, 9, 10, 12, 13} -> <<Backslash, LetterU>> \o X4(u)
    [] OTHER -> <<u>>

InsertEscapeSequences(units) == FlattenSeq([i \in DOMAIN units |-> EscapeSequence(units[i])])

LOCAL Quoted(units) == <<Quote>> \o InsertEscapeSequences(units) \o <<Quote>>
LOCAL Joined(parts, separator) ==
  FlattenSeq([i \in DOMAIN parts |-> IF i = 1 THEN parts[i] ELSE separator \o parts[i]])

RECURSIVE AppendString(_), AppendIndentedString(_, _), Printable(_)

Printable(v) ==
  /\ v.type = "string" => \A i \in DOMAIN v.text : InTable(v.text[i])
  /\ \A i \in DOMAIN v.keys : \A j \in DOMAIN v.keys[i] : InTable(v.keys[i][j])
  /\ \A i \in DOMAIN v.items : Printable(v.items[i])

AppendString(v) ==
  CASE v.type = "string" -> Quoted(v.text)
    [] v.type \in {"number", "literal"} -> v.text
    [] v.type = "array" ->
         <<OpenArray>> \o Joined([i \in DOMAIN v.items |-> AppendString(v.items[i])], <<Comma>>)
         \o <<CloseArray>>
    [] v.type = "object" ->
         <<OpenObject>>
         \o Joined([i \in DOMAIN v.keys |->
                      Quoted(v.keys[i]) \o <<Colon>> \o AppendString(v.items[i])], <<Comma>>)
         \o <<CloseObject>>

LOCAL NewLine == <<10>>
LOCAL Tabs(n) == [i \in 1 .. n |-> 9]

(* Members of an object are indented twice, its braces once.               *)
AppendIndentedString(v, level) ==
  LET Lines(parts) == NewLine \o Joined([i \in DOMAIN parts |-> Tabs(level + 1) \o parts[i]],
                                        <<Comma>> \o NewLine)
                      \o NewLine \o Tabs(level)
      Element(i) == AppendIndentedString(v.items[i], level + 1)
      Member(i) == Quoted(v.keys[i]) \o <<32, Colon, 32>>
                   \o AppendIndentedString(v.items[i], level + 2)
  IN IF v.items = <<>> THEN AppendString(v)
     ELSE IF v.type = "array"
     THEN <<OpenArray>> \o Lines([i \in DOMAIN v.items |-> Element(i)]) \o <<CloseArray>>
     ELSE <<OpenObject>> \o Lines([i \in DOMAIN v.items |-> Member(i)]) \o <<CloseObject>>

(***************************************************************************)
(* Reading. A source is a reader's kind, a text, the ends of incomplete    *)
(* deliveries and the settings. A stream whose last delivery fell short    *)
(* has no next character to Peek at when that delivery is used up; reading *)
(* on waits for the next one. One Read or ReadAsync of several characters  *)
(* gives no more than is there, ReadBlock waits for all.                   *)
(***************************************************************************)
AtEnd(s, p) == p >= Len(s.text) \/ (s.reader # "string" /\ p \in s.ends)
Peek(s, p) == s.text[p + 1]
Take(s, p, n) == SubSeq(s.text, p + 1, p + n)
Available(s, p) == Min({Len(s.text)} \cup {e \in s.ends : e > p}) - p

(* The first position from p on where Peek finds the end, or Stop holds.   *)
Until(s, p, Stop(_)) ==
  Min({q \in p .. Len(s.text) : AtEnd(s, q) \/ Stop(Peek(s, q))})

SkipWhiteSpace(s, p) == Until(s, p, LAMBDA c : c \notin WhiteSpace)

Found(value, next) == [outcome |-> "value", value |-> value, next |-> next]
LOCAL Nothing == Literal(Null)
Failed == [outcome |-> "error", value |-> Nothing, next |-> 0]  \* JsonSyntaxException
Throws == [outcome |-> "throws", value |-> Nothing, next |-> 0] \* any other exception

(***************************************************************************)
(* Literals and numbers.                                                   *)
(***************************************************************************)
Spells(s, p, word) ==
  /\ p + Len(word) <= Len(s.text)
  /\ \A i \in DOMAIN word : Lower(Peek(s, p + i - 1)) = word[i]

NullLiteral(s, p) == IF Spells(s, p, Null) THEN Found(Literal(Null), p + 4) ELSE Failed

(* As if it took five, whatever the word.                                  *)
BoolLiteralFive(s, p) ==
  IF s.reader = "async" /\ Len(s.text) < p + 5 THEN Failed
  ELSE IF Spells(s, p, True) THEN Found(Literal(True), p + 4)
  ELSE IF Spells(s, p, False) THEN Found(Literal(False), p + 5)
  ELSE Failed

(* The asynchronous reader takes four characters first.                    *)
BoolLiteral(s, p) ==
  IF s.reader = "async" /\ Available(s, p) < 4 THEN Failed
  ELSE IF Spells(s, p, True) THEN Found(Literal(True), p + 4)
  ELSE IF Spells(s, p, False) THEN Found(Literal(False), p + 5)
  ELSE Failed

(* double.TryParse with NumberStyles.Any, on the characters of numbers: a  *)
(* sign before or after, digits with a point, an exponent.                 *)
IsDouble(token) ==
  LET sign(t) == t # <<>> /\ t[1] \in {43, 45}
      digits(t) == \A i \in DOMAIN t : t[i] \in Digits
      mantissa(t) ==
        \/ t # <<>> /\ digits(t)
        \/ \E i \in DOMAIN t : /\ t[i] = 46 /\ Len(t) > 1
                               /\ digits(SubSeq(t, 1, i - 1))
                               /\ digits(SubSeq(t, i + 1, Len(t)))
      exponent(t) ==
        t # <<>> /\ LET e == IF sign(t) THEN Tail(t) ELSE t IN e # <<>> /\ digits(e)
      unsigned(t) ==
        \/ mantissa(t)
        \/ \E i \in DOMAIN t : /\ t[i] \in {69, 101}
                               /\ mantissa(SubSeq(t, 1, i - 1))
                               /\ exponent(SubSeq(t, i + 1, Len(t)))
  IN \/ unsigned(token)
     \/ sign(token) /\ unsigned(Tail(token))
     \/ token # <<>> /\ sign(<<Last(token)>>) /\ unsigned(Front(token))

NumberToken(s, p) ==
  LET end == Until(s, p, LAMBDA c : c \in WhiteSpace \cup {Comma, CloseArray, CloseObject})
      token == Take(s, p, end - p)
  IN IF ToSet(token) \subseteq NumberChars /\ IsDouble(token)
     THEN Found(Number(token), end) ELSE Failed

(***************************************************************************)
(* Strings. Of a "\u" and its four digits, two in a row may be one         *)
(* character. char.ConvertFromUtf32 throws for a surrogate.                *)
(***************************************************************************)
Remainder(a, n) == IF a < 0 THEN -((-a) % n) ELSE a % n

(* As if pairs began at zero.                                              *)
CalculateUtf32Offset(hex, hex2) == (hex - 55296) * 1024 + Remainder(hex2 - 56320, 1024)

CalculateUtf32(hex, hex2) == (hex - 55296) * 1024 + Remainder(hex2 - 56320, 1024) + 65536
IsValidUtf32CodePoint(n) == n \in 0 .. 1114111 /\ n \notin Surrogates
ConvertFromUtf32(n) ==
  IF n < 65536 THEN <<n>>
  ELSE <<55296 + ((n - 65536) \div 1024), 56320 + ((n - 65536) % 1024)>>

(* As if any letter were a digit.                                          *)
IsHexLetters(list) ==
  Len(list) = 4 /\ ToSet(list) \subseteq Digits \cup (65 .. 90) \cup (97 .. 122)

IsHex(list) == Len(list) = 4 /\ ToSet(list) \subseteq HexChars

RECURSIVE InterpretString(_, _, _), InterpretStream(_, _, _, _)

(* From a string: looks ahead for a second escape at every first one.      *)
InterpretString(s, p, units) ==
  LET c == Peek(s, p)
      escape == Peek(s, p + 1)
      at == p + 2
      hex == HexValue(Take(s, at, 4))
      twice == at + 6 < Len(s.text) /\ Take(s, at + 4, 2) = <<Backslash, LetterU>>
      pair == CalculateUtf32(hex, HexValue(Take(s, at + 6, 4)))
      Unicode ==
        IF at + 4 >= Len(s.text) \/ ~ IsHex(Take(s, at, 4)) THEN Failed
        ELSE IF twice /\ (at + 10 >= Len(s.text) \/ ~ IsHex(Take(s, at + 6, 4))) THEN Failed
        ELSE IF twice /\ IsValidUtf32CodePoint(pair)
        THEN InterpretString(s, at + 10, units \o ConvertFromUtf32(pair))
        ELSE IF hex \in Surrogates THEN Throws
        ELSE InterpretString(s, at + 4, Append(units, hex))
  IN IF AtEnd(s, p) THEN Failed
     ELSE IF c = Quote THEN Found(String(units), p + 1)
     ELSE IF c # Backslash THEN InterpretString(s, p + 1, Append(units, c))
     ELSE IF AtEnd(s, p + 1) THEN Failed
     ELSE IF escape = LetterU THEN Unicode
     ELSE IF escape \in DOMAIN SimpleEscape
     THEN InterpretString(s, at, Append(units, SimpleEscape[escape]))
     ELSE Failed

NoHex == -1
LOCAL Pending(previousHex) == IF previousHex = NoHex THEN <<>> ELSE <<previousHex>>

LOCAL Between(list, ignored) ==
  LET inner == {i \in DOMAIN list : list[i] \notin ignored}
  IN IF inner = {} THEN <<>> ELSE SubSeq(list, Min(inner), Max(inner))

(* What int.Parse with HexNumber takes for the digits: it ignores white    *)
(* space around them, and NULs behind that, but none in front.             *)
HexDigits(list) ==
  IF list[1] = 0 THEN <<>> ELSE Between(Between(list, {0}), (9 .. 13) \cup {32})

(* int.TryParse after a test, or int.Parse without one, which throws when  *)
(* there are no digits.                                                    *)
HexOrElse(s, list) ==
  LET digits == HexDigits(list)
  IN IF s.reader = "stream" THEN IF IsHex(list) THEN "hex" ELSE "error"
     ELSE IF digits # <<>> /\ ToSet(digits) \subseteq HexChars THEN "hex" ELSE "throws"

(* From a stream, which cannot look ahead so far: an escape is kept as     *)
(* previousHex until it is known what comes next.                          *)
InterpretStream(s, p, units, previousHex) ==
  LET c == Peek(s, p)
      escape == Peek(s, p + 1)
      at == p + 2
      list == Take(s, at, 4)
      hex == HexValue(HexDigits(list))
      pair == CalculateUtf32(previousHex, hex)
      Emit(next, unit) ==
        IF previousHex \in Surrogates THEN Throws
        ELSE InterpretStream(s, next, units \o Pending(previousHex) \o <<unit>>, NoHex)
      Unicode ==
        IF Available(s, at) < 4 THEN Failed
        ELSE CASE HexOrElse(s, list) = "error" -> Failed
               [] HexOrElse(s, list) = "throws" -> Throws
               [] OTHER ->
                    IF previousHex = NoHex THEN InterpretStream(s, at + 4, units, hex)
                    ELSE IF IsValidUtf32CodePoint(pair)
                    THEN InterpretStream(s, at + 4, units \o ConvertFromUtf32(pair), NoHex)
                    ELSE InterpretStream(s, at + 4, units \o <<previousHex, hex>>, NoHex)
  IN IF AtEnd(s, p) THEN IF previousHex \in Surrogates THEN Throws ELSE Failed
     ELSE IF c = Quote
     THEN IF previousHex \in Surrogates THEN Throws
          ELSE Found(String(units \o Pending(previousHex)), p + 1)
     ELSE IF c # Backslash THEN Emit(p + 1, c)
     ELSE IF AtEnd(s, p + 1) THEN Failed
     ELSE IF escape = LetterU THEN Unicode
     ELSE IF escape \in DOMAIN SimpleEscape THEN Emit(at, SimpleEscape[escape])
     ELSE Failed

(* As if the end of a delivery ended the string.                           *)
StringTokenOpen(s, p) ==
  LET end == Until(s, p + 1, LAMBDA c : c = Quote)
      units == Take(s, p + 1, end - p - 1)
  IN IF AtEnd(s, end) THEN Found(String(units), end) ELSE Found(String(units), end + 1)

(* Up to the first escape nothing needs to be interpreted.                 *)
StringToken(s, p) ==
  LET end == Until(s, p + 1, LAMBDA c : c \in {Quote, Backslash})
      units == Take(s, p + 1, end - p - 1)
  IN IF AtEnd(s, end) THEN Failed
     ELSE IF Peek(s, end) = Quote THEN Found(String(units), end + 1)
     ELSE IF s.reader = "string" THEN InterpretString(s, p + 1, <<>>)
     ELSE InterpretStream(s, end, units, NoHex)

(***************************************************************************)
(* Arrays and objects. Each round begins at the bracket or at a comma.     *)
(***************************************************************************)
RECURSIVE TryParse(_, _), Elements(_, _, _), Members(_, _, _)

Elements(s, p, items) ==
  LET first == SkipWhiteSpace(s, p + 1)
      item == TryParse(s, first)
      after == SkipWhiteSpace(s, item.next)
  IN IF AtEnd(s, first) THEN Failed
     ELSE IF Peek(s, first) = CloseArray
     THEN IF items = <<>> THEN Found(Array(items), first + 1) ELSE Failed
     ELSE IF item.outcome # "value" THEN item
     ELSE IF AtEnd(s, after) THEN Failed
     ELSE IF Peek(s, after) = CloseArray
     THEN Found(Array(Append(items, item.value)), after + 1)
     ELSE IF Peek(s, after) = Comma THEN Elements(s, after, Append(items, item.value))
     ELSE Failed

(* JsonObject.Add: a key that is there keeps its place.                    *)
Add(object, key, value) ==
  IF key \in ToSet(object.keys)
  THEN [object EXCEPT !.items = [i \in DOMAIN @ |-> IF object.keys[i] = key THEN value ELSE @[i]]]
  ELSE Object(Append(object.keys, key), Append(object.items, value))

(* The member is added before it is known whether it has been read, so     *)
(* that a duplicate key throws in any case.                                *)
Members(s, p, object) ==
  LET first == SkipWhiteSpace(s, p + 1)
      name == TryParse(s, first)
      key == name.value.text
      duplicate == s.settings.duplicates = "Throw" /\ key \in ToSet(object.keys)
      colon == SkipWhiteSpace(s, name.next)
      item == TryParse(s, colon + 1)
      grown == Add(object, key, item.value)
      after == SkipWhiteSpace(s, item.next)
  IN IF AtEnd(s, first) THEN Failed
     ELSE IF Peek(s, first) = CloseObject
     THEN IF object.keys = <<>> THEN Found(object, first + 1) ELSE Failed
     ELSE IF Peek(s, first) # Quote THEN Failed
     ELSE IF name.outcome # "value" THEN name
     ELSE IF AtEnd(s, colon) THEN Failed
     ELSE IF Peek(s, colon) # Colon THEN IF duplicate THEN Throws ELSE Failed
     ELSE IF item.outcome = "throws" \/ duplicate THEN Throws
     ELSE IF item.outcome = "error" \/ AtEnd(s, after) THEN Failed
     ELSE IF Peek(s, after) = CloseObject THEN Found(grown, after + 1)
     ELSE IF Peek(s, after) = Comma THEN Members(s, after, grown)
     ELSE Failed

(* Which parser Handles the first character.                               *)
TryParse(s, p) ==
  LET start == SkipWhiteSpace(s, p)
      c == Peek(s, start)
  IN IF AtEnd(s, start) THEN Failed
     ELSE CASE c = OpenArray -> Elements(s, start, <<>>)
            [] c = OpenObject -> Members(s, start, Object(<<>>, <<>>))
            [] c = Quote -> StringToken(s, start)
            [] c \in Digits \cup {45} -> NumberToken(s, start)
            [] Lower(c) \in {102, 116} -> BoolLiteral(s, start)
            [] Lower(c) = 110 -> NullLiteral(s, start)
            [] OTHER -> Failed

(* JsonValue.Parse rejects a string without content as an argument; what   *)
(* follows the value is rejected on demand.                                *)
Parse(s) ==
  LET r == TryParse(s, 0)
  IN IF s.reader = "string" /\ ToSet(s.text) \subseteq WhiteSpace THEN Throws
     ELSE IF r.outcome = "value" /\ s.settings.isolated /\ ~ AtEnd(s, r.next) THEN Failed
     ELSE r

(***************************************************************************)
(* A value is printed, or a text is there; then each reader reads it.      *)
(***************************************************************************)
Init ==
  /\ settings \in Settings
  /\ outcomes = <<>>
  /\ \/ /\ written \in {<<v>> : v \in Values}
        /\ text = <<>> /\ ends = {} /\ phase = "writing"
     \/ /\ written = <<>> /\ phase = "reading"
        /\ \E d \in Deliveries : text = d.text /\ ends = d.ends

ToText(printed) ==
  /\ phase = "writing"
  /\ IF Printable(written[1]) THEN phase' = "reading" /\ text' = printed
     ELSE phase' = "threw" /\ text' = text
  /\ UNCHANGED <<settings, written, ends, outcomes>>

WriteString == ToText(AppendString(written[1]))
WriteIndented == ToText(AppendIndentedString(written[1], 0))

ParseWith(reader) ==
  LET s == [reader |-> reader, text |-> text, ends |-> ends, settings |-> settings]
  IN /\ phase = "reading"
     /\ reader \notin DOMAIN outcomes
     /\ outcomes' = outcomes @@ (reader :> Parse(s))
     /\ UNCHANGED <<settings, written, text, ends, phase>>

Next ==
  \/ WriteString
  \/ WriteIndented
  \/ \E reader \in Readers : ParseWith(reader)

Spec == Init /\ [][Next]_vars
===============================================================================
