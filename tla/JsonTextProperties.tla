-------------------------- MODULE JsonTextProperties --------------------------
(* What the readers and printers of JsonText have to do, against           *)
(* JsonGrammar.                                                            *)
EXTENDS JsonGrammar
LOCAL INSTANCE SequencesExt
LOCAL INSTANCE FiniteSets

LOCAL Read(reader) == reader \in DOMAIN outcomes /\ outcomes[reader].outcome = "value"
LOCAL ValueOf(reader) == outcomes[reader].value

(***************************************************************************)
(* Escapes of code units in the text, by the position of the backslash.    *)
(***************************************************************************)
LOCAL Backslashes(i) ==
  Cardinality({j \in 1 .. i : \A k \in j .. i : text[k] = Backslash})

IsEscape(i) ==
  /\ i > 0 /\ i + 5 <= Len(text)
  /\ text[i] = Backslash /\ text[i + 1] = LetterU /\ Backslashes(i) % 2 = 1
  /\ ToSet(SubSeq(text, i + 2, i + 5)) \subseteq HexChars
UnitAt(i) == HexValue(SubSeq(text, i + 2, i + 5))
LOCAL Escapes == {i \in DOMAIN text : IsEscape(i)}

(* How many escapes are directly in front of this one.                     *)
LOCAL Before(i) ==
  Cardinality({n \in 1 .. Len(text) \div 6 : \A m \in 1 .. n : IsEscape(i - 6 * m)})

High == 55296 .. 56319
Low == 56320 .. 57343

(* Surrogates that are escaped are escaped in pairs.                       *)
Paired ==
  /\ \A i \in Escapes : UnitAt(i) \in High => IsEscape(i + 6) /\ UnitAt(i + 6) \in Low
  /\ \A i \in Escapes : UnitAt(i) \in Low => IsEscape(i - 6) /\ UnitAt(i - 6) \in High

(* The last code units in front of the surrogates, D7C0 to D7FF, are taken *)
(* for the first half of a pair.                                           *)
NoHangul == \A i \in Escapes : UnitAt(i) \in 55232 .. 55295 => ~ IsEscape(i + 6)

(* A stream pairs escapes from the first of a row on, whatever they are.   *)
Aligned(reader) ==
  /\ NoHangul
  /\ reader = "string" \/ \A i \in Escapes : UnitAt(i) \in High => Before(i) % 2 = 0

(***************************************************************************)
(* Properties.                                                             *)
(***************************************************************************)
(* Each reader reads every well-formed text to the value that it denotes,  *)
(* where escapes are in line with how the reader pairs them. Isolated      *)
(* means without white space at the end, too.                              *)
WellFormedRead ==
  \A r \in DOMAIN outcomes :
    (/\ ends = {} /\ settings.duplicates = "Overwrite"
     /\ settings.isolated => Last(text) \notin WhiteSpace
     /\ Paired /\ Aligned(r)
     /\ Denotes(text, FALSE) # {})
    => Read(r) /\ ValueOf(r) \in Denotes(text, FALSE)

(* What a reader accepts is, up to where it stops, text of the lenient     *)
(* grammar, and read to what it denotes there; nothing follows in a whole  *)
(* text that has to be isolated.                                           *)
NothingElseRead ==
  \A r \in DOMAIN outcomes :
    (Read(r) /\ settings.duplicates = "Overwrite" /\ Paired /\ Aligned(r)) =>
      LET n == outcomes[r].next
      IN /\ ValueOf(r) \in Denotes(SubSeq(text, 1, n), TRUE)
         /\ settings.isolated /\ ends = {} => n = Len(text)

(* The three readers, which are written separately, accept the same texts  *)
(* and read the same values, well-formed or not; only digits of an escape  *)
(* with space around them or NULs behind them are read by one alone.       *)
ReadersAgree ==
  (/\ DOMAIN outcomes = Readers
   /\ ends = {} /\ Paired /\ Aligned("stream")
   /\ \A i \in DOMAIN text :
        i < Len(text) /\ text[i] = Backslash /\ text[i + 1] = LetterU =>
          \A j \in (i + 2 .. i + 5) \cap DOMAIN text : text[j] \notin WhiteSpace \cup {0})
  => \A r \in {"stream", "async"} :
       /\ Read(r) <=> Read("string")
       /\ Read(r) => ValueOf(r) = ValueOf("string")

(* A stream that is delivered in parts may be rejected for it, since Peek  *)
(* takes the end of a delivery for the end; but no value is cut short, but *)
(* for a number that is the whole text.                                    *)
NeverTruncated ==
  \A r \in {"stream", "async"} \cap DOMAIN outcomes :
    (Read(r) /\ Read("string") /\ Paired /\ Aligned("stream")
     /\ ValueOf(r).type # "number")
    => ValueOf(r) = ValueOf("string")

(* JsonValue.cs:213: "Passing the returned string back into the parser     *)
(* will result in a copy of this JsonValue."                               *)
RoundTrip ==
  \A r \in DOMAIN outcomes :
    written # <<>> => Read(r) /\ ValueOf(r) = written[1]
===============================================================================
