------------------------- MODULE SerializerOptions -------------------------
(***************************************************************************)
(* The Options of a JsonSerializer during its calls. The options are one   *)
(* object, which every call reads; the serializers of nullables and of     *)
(* dictionaries change EncodeDefaultValues and EnumSerializationFormat for *)
(* what they contain, and put back afterwards what they found, without a   *)
(* finally. Each action is one of SerializerCalls with what the serializer *)
(* of the value, and that of the value around it, does to the options.     *)
(***************************************************************************)
EXTENDS SerializerCalls, SequencesExt

VARIABLES
  options, (* [defaults, names]: EncodeDefaultValues, and whether          *)
           (* EnumSerializationFormat is AsName                            *)
  frames,  (* for each thread, the values of its calls: [shape, next,      *)
           (* saved, asked, template, before]                              *)
  settings (* history: the options between calls, as the user chose them   *)
           (* or as the last exception left them                           *)

optionVars == <<options, frames, settings>>

Options == [defaults : BOOLEAN, names : BOOLEAN]

(* What the serializers tell apart: classes, lists and single values;      *)
(* IJsonSerializables; Nullable<T>, and whether its value is T's default;  *)
(* dictionaries with strings, enumeration members or others as keys, and   *)
(* whether their values are of a value type.                               *)
Shapes(kind) ==
  [of : {"plain", "custom"}, flag : {FALSE}]
  \cup IF kind = "serialize"
       THEN [of : {"nullable", "strings", "pairs", "enums"}, flag : BOOLEAN]
       ELSE [of : {"enums"}, flag : {FALSE}]

(* What is written or read first, and after a part.                        *)
FirstPart(shape) == IF shape.of \in {"pairs", "enums"} THEN "key" ELSE "value"

NextPart(frame) ==
  CASE frame.shape.of = "nullable" -> "none"
    [] frame.shape.of \in {"pairs", "enums"} /\ frame.next = "key" -> "value"
    [] OTHER -> FirstPart(frame.shape)

(* A nullable has one part, an entry of a dictionary has both.             *)
Complete(frame) ==
  frame.next = IF frame.shape.of = "nullable" THEN "none" ELSE FirstPart(frame.shape)

(* Nested calls of user code are of the kind of the call around them.      *)
KindOf(t) == contexts[t][1].kind

(* Options of the innermost call's own before its first part, those for a  *)
(* part, those after it, and those when the call is done.                  *)
OnEntry(kind, shape, o) ==
  IF shape.of # "enums" THEN o
  ELSE [defaults |-> o.defaults \/ kind = "deserialize", names |-> TRUE]

ForPart(kind, frame, o) ==
  LET existing == frame.saved.defaults
      byValue == existing \/ frame.shape.flag
  IN IF kind = "deserialize" THEN o
     ELSE CASE frame.shape.of = "nullable" -> [o EXCEPT !.defaults = frame.shape.flag]
            [] frame.shape.of \in {"strings", "pairs", "enums"} /\ frame.next = "value" ->
                 [o EXCEPT !.defaults = byValue]
            [] frame.shape.of = "enums" /\ frame.next = "key" -> [o EXCEPT !.defaults = TRUE]
            [] OTHER -> o

(* As if NullableSerializer did not put back what it found.                *)
AfterPartOfNone(kind, frame, o) ==
  IF kind = "serialize" /\ frame.shape.of \in {"strings", "pairs", "enums"}
                        /\ (frame.shape.of = "pairs" => frame.next = "value")
  THEN [o EXCEPT !.defaults = frame.saved.defaults]
  ELSE o

AfterPart(kind, frame, o) ==
  IF kind = "serialize" /\ (frame.shape.of \in {"nullable", "strings", "enums"}
                              \/ (frame.shape.of = "pairs" /\ frame.next = "value"))
  THEN [o EXCEPT !.defaults = frame.saved.defaults]
  ELSE o

OnExit(kind, frame, o) ==
  CASE frame.shape.of # "enums" -> o
    [] kind = "serialize" -> [o EXCEPT !.names = frame.saved.names]
    [] kind = "deserialize" -> frame.saved

Top(t) == Last(frames[t])

(* A call for a value, of a history of options `asked` for it.             *)
Frame(shape, asked) ==
  [shape |-> shape, next |-> FirstPart(shape), saved |-> asked, asked |-> asked,
   template |-> FALSE, before |-> FALSE]

(* A nullable needs a call for its value.                                  *)
Fits(shape, depth) == shape.of = "nullable" => depth < MaxDepth

------------------------------------------------------------------------------
(* What the options ought to be: each value asks for those of its parts,   *)
(* and is not concerned with any other.                                    *)
Inside(kind, shape, asked) ==
  [defaults |-> asked.defaults \/ (shape.of = "enums" /\ kind = "deserialize"),
   names |-> asked.names \/ shape.of = "enums"]

Within(kind, frame) ==
  LET inside == Inside(kind, frame.shape, frame.asked)
      onlyDefaults == kind = "serialize" /\ frame.shape.of = "nullable"
      key == kind = "serialize" /\ frame.shape.of = "enums" /\ frame.next = "key"
      value == kind = "serialize" /\ frame.next = "value"
  IN [inside EXCEPT !.defaults =
        IF onlyDefaults THEN frame.shape.flag ELSE @ \/ key \/ (value /\ frame.shape.flag)]

------------------------------------------------------------------------------
OptionInit ==
  /\ Init
  /\ options \in Options
  /\ settings = options
  /\ frames = [t \in Threads |-> <<>>]

Push(t, frame) == frames' = [frames EXCEPT ![t] = Append(@, frame)]
SetTop(t, frame) == frames' = [frames EXCEPT ![t] = Append(Front(@), frame)]

(* Serialize(Type, object), Deserialize(Type, JsonValue).                  *)
CallWith(t) ==
  /\ \E kind \in Kinds : \E shape \in Shapes(kind) :
       /\ Fits(shape, 1)
       /\ Call(t, kind)
       /\ Push(t, Frame(shape, settings))
  /\ UNCHANGED <<options, settings>>

(* TemplateGenerator.FromType serializes an instance with default values,  *)
(* of a type that it has no property to fill of, and that is no nullable.  *)
GenerateTemplate(t) ==
  LET asked == [settings EXCEPT !.defaults = TRUE]
  IN /\ Call(t, "serialize")
     /\ \E shape \in [of : {"plain", "custom"}, flag : {FALSE}] :
          Push(t, [Frame(shape, asked) EXCEPT !.template = TRUE, !.before = options.defaults])
     /\ options' = [options EXCEPT !.defaults = TRUE]
     /\ UNCHANGED settings

(* Else it gives _BuildInstance the options in the place of the serializer,*)
(* and reflection throws.                                                  *)
TemplateThrows(t) ==
  /\ MayThrow
  /\ pc[t] = "idle"
  /\ options' = [options EXCEPT !.defaults = TRUE]
  /\ settings' = [settings EXCEPT !.defaults = TRUE]
  /\ UNCHANGED <<vars, frames>>

(* The value's serializer begins: _EncodeEnumKeyDictionary and             *)
(* _DecodeEnumDictionary, and what the others keep of the options.         *)
Enter(t) ==
  /\ WriteOnEntry(t)
  /\ SetTop(t, [Top(t) EXCEPT !.saved = options])
  /\ options' = OnEntry(KindOf(t), Top(t).shape, options)
  /\ UNCHANGED settings

(* context.RootSerializer.Serialize(context), Deserialize(context).        *)
Part(t) ==
  /\ Member(t)
  /\ Top(t).shape.of # "custom"
  /\ Top(t).next # "none"
  /\ \E shape \in Shapes(KindOf(t)) :
       /\ Fits(shape, Len(frames[t]) + 1)
       /\ Push(t, Frame(shape, Within(KindOf(t), Top(t))))
  /\ options' = ForPart(KindOf(t), Top(t), options)
  /\ UNCHANGED settings

(* ToJson and FromJson of an IJsonSerializable.                            *)
CustomPart(t) ==
  /\ NestedCall(t)
  /\ Top(t).shape.of = "custom"
  /\ \E shape \in Shapes(KindOf(t)) :
       /\ Fits(shape, Len(frames[t]) + 1)
       /\ Push(t, Frame(shape, Within(KindOf(t), Top(t))))
  /\ UNCHANGED <<options, settings>>

(* ReferencingSerializer, for classes and IJsonSerializables: the object   *)
(* is noted before its parts.                                              *)
Note(t) ==
  /\ NoteObject(t) \/ NoteMarker(t)
  /\ Top(t).shape.of \in {"plain", "custom"}
  /\ UNCHANGED optionVars

Exit(t) ==
  /\ Return(t)
  /\ Complete(Top(t))
  /\ options' = OnExit(KindOf(t), Top(t), options)
  /\ UNCHANGED <<frames, settings>>

(* The call returns into the loop of the value around it, or into          *)
(* FromType, or to the user.                                               *)
Leave(t) ==
  LET rest == Front(frames[t])
      parent == Last(rest)
  IN /\ WriteOnReturn(t)
     /\ \/ /\ rest # <<>>
           /\ frames' = [frames EXCEPT ![t] =
                Append(Front(rest), [parent EXCEPT !.next = NextPart(parent)])]
           /\ options' = AfterPart(KindOf(t), parent, options)
        \/ /\ rest = <<>>
           /\ frames' = [frames EXCEPT ![t] = rest]
           /\ options' = IF Top(t).template
                          THEN [options EXCEPT !.defaults = Top(t).before]
                          ELSE options
     /\ UNCHANGED settings

(* An exception leaves the options as they were in the call that threw.    *)
Unwind(t) ==
  /\ Throw(t)
  /\ frames' = [frames EXCEPT ![t] = <<>>]
  /\ settings' = Inside(KindOf(t), Top(t).shape, Top(t).asked)
  /\ UNCHANGED options

OptionStep(t) ==
  \/ CallWith(t)
  \/ GenerateTemplate(t)
  \/ TemplateThrows(t)
  \/ (ReadOnEntry(t) \/ ReadOnReturn(t)) /\ UNCHANGED optionVars
  \/ Enter(t)
  \/ Part(t)
  \/ CustomPart(t)
  \/ Note(t)
  \/ Exit(t)
  \/ Leave(t)
  \/ Unwind(t)

OptionNext == \E t \in Threads : OptionStep(t)

OptionSpec == OptionInit /\ [][OptionNext]_<<vars, optionVars>>

------------------------------------------------------------------------------
(* The options that the value of the innermost call, or the user, expects. *)
Expected(t) ==
  CASE pc[t] = "idle" -> settings
    [] pc[t] = "body" -> Inside(KindOf(t), Top(t).shape, Top(t).asked)
    [] OTHER -> Top(t).asked

(* A serializer that one thread uses: wherever AutoSerializer.cs:87 and 106*)
(* or DefaultValueSerializer.cs:15 read its options, they are those of the *)
(* user as the nullables and dictionaries around the value change them, and*)
(* nothing that was written before changes them. Between calls they are the*)
(* user's, or those of the call that the last exception left: it puts back *)
(* nothing.                                                                *)
OptionsScoped == \A t \in Threads : Threads = {t} => options = Expected(t)
==============================================================================
