----------------------- MODULE SerializerOptionsProofs -----------------------
(***************************************************************************)
(* The options only watch the calls: whatever a serializer does to them,   *)
(* its calls are those of SerializerCalls, so that all that is proved of   *)
(* these holds here, too. And they are scoped: each value is written under *)
(* the options that it asks for, at every depth.                           *)
(***************************************************************************)
EXTENDS SerializerOptions, SerializerCallsProofs

(* Each action is one of SerializerCalls, or leaves the calls alone.       *)
LEMMA StepIsStep ==
  ASSUME NEW t \in Threads, OptionStep(t)
  PROVE Step(t) \/ UNCHANGED vars
<1>1. CASE CallWith(t)
  BY <1>1 DEF CallWith, Step
<1>2. CASE GenerateTemplate(t)
  BY <1>2 DEF GenerateTemplate, Step, Kinds
<1>3. CASE TemplateThrows(t)
  BY <1>3 DEF TemplateThrows
<1>4. CASE (ReadOnEntry(t) \/ ReadOnReturn(t)) /\ UNCHANGED optionVars
  BY <1>4 DEF Step
<1>5. CASE Enter(t)
  BY <1>5 DEF Enter, Step
<1>6. CASE Part(t)
  BY <1>6 DEF Part, Step
<1>7. CASE CustomPart(t)
  BY <1>7 DEF CustomPart, Step
<1>8. CASE Note(t)
  BY <1>8 DEF Note, Step
<1>9. CASE Exit(t)
  BY <1>9 DEF Exit, Step
<1>10. CASE Leave(t)
  BY <1>10 DEF Leave, Step
<1>11. CASE Unwind(t)
  BY <1>11 DEF Unwind, Step
<1> QED
  BY <1>1, <1>2, <1>3, <1>4, <1>5, <1>6, <1>7, <1>8, <1>9, <1>10, <1>11 DEF OptionStep

(* The calls of a serializer whose options are changed, by values and by   *)
(* templates, behave as SerializerCalls says (JsonSerializer.cs:59-71,     *)
(* 123-136): changing an option neither makes nor prevents a call.         *)
THEOREM OptionsKeepCalls == OptionSpec => Spec
<1>1. OptionInit => Init
  BY DEF OptionInit
<1>2. [OptionNext]_<<vars, optionVars>> => [Next]_vars
  BY StepIsStep DEF OptionNext, Next
<1> QED
  BY <1>1, <1>2, PTL DEF OptionSpec, Spec

------------------------------------------------------------------------------
(* What the serializers do to the options and what they ought to.          *)
Shape == [of : {"plain", "custom", "nullable", "strings", "pairs", "enums"}, flag : BOOLEAN]

FrameType ==
  [shape : Shape, next : {"key", "value", "none"}, saved : Options, asked : Options,
   template : BOOLEAN, before : BOOLEAN]

(* Classes and single values have no flag; there is one shape more to read.*)
Suits(kind, shape) ==
  /\ shape.of \in {"plain", "custom"} => ~ shape.flag
  /\ kind = "deserialize" => shape.of \in {"plain", "custom", "enums"} /\ ~ shape.flag

(* What a call may be for is of a shape that suits its kind.               *)
LEMMA ShapesSuit ==
  ASSUME NEW kind \in Kinds, NEW shape \in Shapes(kind)
  PROVE  shape \in Shape /\ Suits(kind, shape)
<1>1. CASE shape \in [of : {"plain", "custom"}, flag : {FALSE}]
  BY <1>1 DEF Shape, Suits
<1>2. CASE kind = "serialize" /\ shape \in [of : {"nullable", "strings", "pairs", "enums"}, flag : BOOLEAN]
  BY <1>2 DEF Shape, Suits
<1>3. CASE kind # "serialize" /\ shape \in [of : {"enums"}, flag : {FALSE}]
  BY <1>3 DEF Shape, Suits
<1> QED
  BY <1>1, <1>2, <1>3 DEF Shapes, Kinds

LEMMA InsideType ==
  ASSUME NEW kind, NEW shape, NEW o \in Options
  PROVE  Inside(kind, shape, o) \in Options
BY DEF Inside, Options

LEMMA WithinType ==
  ASSUME NEW kind, NEW f \in FrameType
  PROVE  Within(kind, f) \in Options
<1>1. Inside(kind, f.shape, f.asked) \in Options
  BY InsideType DEF FrameType
<1>2. f.shape.flag \in BOOLEAN
  BY DEF FrameType, Shape
<1> QED
  BY <1>1, <1>2 DEF Within, Options

(* The value begins with what it asks for and ends with that again.        *)
LEMMA EntryIsInside ==
  ASSUME NEW kind \in Kinds, NEW shape \in Shape, Suits(kind, shape), NEW o \in Options
  PROVE  OnEntry(kind, shape, o) = Inside(kind, shape, o)
<1>1. CASE shape.of = "enums"
  BY <1>1 DEF OnEntry, Inside, Options
<1>2. CASE shape.of # "enums"
  BY <1>2 DEF OnEntry, Inside, Options
<1> QED
  BY <1>1, <1>2

LEMMA ExitIsAsked ==
  ASSUME NEW kind \in Kinds, NEW f \in FrameType, f.saved = f.asked
  PROVE  OnExit(kind, f, Inside(kind, f.shape, f.asked)) = f.asked
<1>1. f.asked \in Options
  BY DEF FrameType
<1>2. CASE f.shape.of # "enums"
  BY <1>1, <1>2 DEF OnExit, Inside, Options
<1>3. CASE f.shape.of = "enums" /\ kind = "serialize"
  BY <1>1, <1>3 DEF OnExit, Inside, Options
<1>4. CASE f.shape.of = "enums" /\ kind = "deserialize"
  BY <1>4 DEF OnExit
<1> QED
  BY <1>2, <1>3, <1>4 DEF Kinds

(* A part begins with what the value asks for it, and leaves what the value*)
(* had before.                                                             *)
LEMMA PartIsWithin ==
  ASSUME NEW kind \in Kinds, NEW f \in FrameType, Suits(kind, f.shape), f.saved = f.asked
  PROVE  ForPart(kind, f, Inside(kind, f.shape, f.asked)) = Within(kind, f)
<1> DEFINE inside == Inside(kind, f.shape, f.asked)
<1>1. inside \in Options /\ f.asked \in Options /\ f.shape.flag \in BOOLEAN
  BY InsideType DEF FrameType, Shape
<1>2. inside.defaults = (f.asked.defaults \/ (f.shape.of = "enums" /\ kind = "deserialize"))
  BY DEF Inside
<1>3. f.shape.of \in {"plain", "custom", "nullable", "strings", "pairs", "enums"}
  BY DEF FrameType, Shape
<1> HIDE DEF inside
<1>4. CASE kind = "deserialize"
  BY <1>1, <1>4 DEF ForPart, Within, Options, inside, Suits
<1>5. CASE kind = "serialize" /\ f.shape.of = "nullable"
  BY <1>1, <1>5 DEF ForPart, Within, Options, inside
<1>6. CASE kind = "serialize" /\ f.shape.of \in {"strings", "pairs", "enums"} /\ f.next = "value"
  BY <1>1, <1>2, <1>6 DEF ForPart, Within, Options, inside
<1>7. CASE kind = "serialize" /\ f.shape.of \in {"strings", "pairs", "enums"} /\ f.next # "value"
  BY <1>1, <1>2, <1>7 DEF ForPart, Within, Options, inside
<1>8. CASE kind = "serialize" /\ f.shape.of \in {"plain", "custom"}
  BY <1>1, <1>8 DEF ForPart, Within, Options, inside, Suits
<1> QED
  BY <1>3, <1>4, <1>5, <1>6, <1>7, <1>8 DEF Kinds, inside

LEMMA AfterPartIsInside ==
  ASSUME NEW kind \in Kinds, NEW f \in FrameType, Suits(kind, f.shape), f.saved = f.asked
  PROVE  AfterPart(kind, f, Within(kind, f)) = Inside(kind, f.shape, f.asked)
<1> DEFINE inside == Inside(kind, f.shape, f.asked)
<1>1. inside \in Options /\ f.asked \in Options /\ f.shape.flag \in BOOLEAN
  BY InsideType DEF FrameType, Shape
<1>2. inside.defaults = (f.asked.defaults \/ (f.shape.of = "enums" /\ kind = "deserialize"))
  BY DEF Inside
<1>3. f.shape.of \in {"plain", "custom", "nullable", "strings", "pairs", "enums"}
  BY DEF FrameType, Shape
<1> HIDE DEF inside
<1>4. CASE kind = "deserialize"
  BY <1>1, <1>4 DEF AfterPart, Within, Options, inside, Suits
<1>5. CASE kind = "serialize" /\ (f.shape.of \in {"nullable", "strings", "enums"}
                                    \/ (f.shape.of = "pairs" /\ f.next = "value"))
  BY <1>1, <1>2, <1>5 DEF AfterPart, Within, Options, inside
<1>6. CASE kind = "serialize" /\ f.shape.of = "pairs" /\ f.next # "value"
  BY <1>1, <1>6 DEF AfterPart, Within, Options, inside
<1>7. CASE kind = "serialize" /\ f.shape.of \in {"plain", "custom"}
  BY <1>1, <1>7 DEF AfterPart, Within, Options, inside, Suits
<1> QED
  BY <1>3, <1>4, <1>5, <1>6, <1>7 DEF Kinds, inside

------------------------------------------------------------------------------
(* The values of the calls under way: each was asked for what the value    *)
(* around it asks of that part, and has kept it once it has begun.         *)
FirstAsked(frame, o) == IF frame.template THEN [o EXCEPT !.defaults = TRUE] ELSE o

Chain(kind, s, o, entered) ==
  \A i \in 1 .. Len(s) :
    /\ s[i].asked = IF i = 1 THEN FirstAsked(s[1], o) ELSE Within(kind, s[i - 1])
    /\ i < Len(s) \/ entered => s[i].saved = s[i].asked
    /\ Suits(kind, s[i].shape)
    /\ i = 1 /\ s[1].template => s[1].before = o.defaults

Entered(t) == pc[t] \notin {"enter", "increment"}

Scoped(t) ==
  /\ options \in Options /\ settings \in Options
  /\ frames \in [Threads -> Seq(FrameType)]
  /\ Len(frames[t]) = Len(calls[t])
  /\ calls[t] # <<>> => Chain(KindOf(t), frames[t], settings, Entered(t))
  /\ options = Expected(t)

(* A new call has a shape and options asked.                               *)
LEMMA FrameIsFrame ==
  ASSUME NEW kind \in Kinds, NEW shape \in Shapes(kind), NEW o \in Options
  PROVE  /\ Frame(shape, o) \in FrameType /\ Frame(shape, o).shape = shape
         /\ Frame(shape, o).asked = o /\ ~ Frame(shape, o).template
BY ShapesSuit DEF Frame, FrameType, FirstPart

(* A call for a part of the top, which has not begun.                      *)
LEMMA PushChain ==
  ASSUME NEW kind \in Kinds, NEW s \in Seq(FrameType), s # <<>>, NEW o \in Options,
         Chain(kind, s, o, TRUE), NEW shape \in Shapes(kind)
  PROVE  LET f == Frame(shape, Within(kind, Last(s)))
         IN /\ Append(s, f) \in Seq(FrameType)
            /\ Len(Append(s, f)) = Len(s) + 1
            /\ Last(Append(s, f)) = f
            /\ Chain(kind, Append(s, f), o, FALSE)
<1> DEFINE f == Frame(shape, Within(kind, Last(s)))
<1>1. Len(s) \in Nat \ {0} /\ Last(s) = s[Len(s)] /\ Last(s) \in FrameType
  BY TopIsIn
<1>2. f \in FrameType /\ f.shape = shape /\ f.asked = Within(kind, Last(s)) /\ ~ f.template
  BY <1>1, WithinType, FrameIsFrame
<1>3. Suits(kind, f.shape)
  BY <1>2, ShapesSuit
<1> HIDE DEF f
<1>4. /\ Append(s, f) \in Seq(FrameType) /\ Len(Append(s, f)) = Len(s) + 1
      /\ \A i \in 1 .. Len(s) : Append(s, f)[i] = s[i]
      /\ Append(s, f)[Len(s) + 1] = f
  BY <1>2, AppendProperties
<1>5. Last(Append(s, f)) = f
  BY <1>4 DEF Last
<1>6. Chain(kind, Append(s, f), o, FALSE)
  <2> SUFFICES ASSUME NEW i \in 1 .. Len(Append(s, f))
               PROVE  /\ Append(s, f)[i].asked = IF i = 1 THEN FirstAsked(Append(s, f)[1], o)
                                                 ELSE Within(kind, Append(s, f)[i - 1])
                      /\ i < Len(Append(s, f)) \/ FALSE => Append(s, f)[i].saved = Append(s, f)[i].asked
                      /\ Suits(kind, Append(s, f)[i].shape)
                      /\ i = 1 /\ Append(s, f)[1].template => Append(s, f)[1].before = o.defaults
    BY DEF Chain
  <2>1. CASE i \in 1 .. Len(s)
    BY <1>1, <1>4, <2>1 DEF Chain
  <2>2. CASE i = Len(s) + 1
    BY <1>1, <1>2, <1>3, <1>4, <2>2
  <2> QED
    BY <1>1, <1>4, <2>1, <2>2
<1> QED
  BY <1>4, <1>5, <1>6 DEF f

(* A top that has begun, or goes on with another part.                     *)
LEMMA ReplaceChain ==
  ASSUME NEW kind \in Kinds, NEW s \in Seq(FrameType), s # <<>>, NEW o \in Options,
         NEW before \in BOOLEAN, Chain(kind, s, o, before), NEW f \in FrameType,
         f.shape = Last(s).shape, f.asked = Last(s).asked, f.saved = f.asked,
         f.template = Last(s).template, f.before = Last(s).before
  PROVE  Chain(kind, Append(Front(s), f), o, TRUE)
<1> DEFINE r == Append(Front(s), f)
<1>1. Len(s) \in Nat \ {0} /\ Last(s) = s[Len(s)]
  BY TopIsIn
<1>2. Len(r) = Len(s) /\ \A i \in 1 .. Len(s) : r[i] = IF i = Len(s) THEN f ELSE s[i]
  BY Replaced
<1> HIDE DEF r
<1> SUFFICES ASSUME NEW i \in 1 .. Len(s)
             PROVE  /\ r[i].asked = IF i = 1 THEN FirstAsked(r[1], o) ELSE Within(kind, r[i - 1])
                    /\ r[i].saved = r[i].asked
                    /\ Suits(kind, r[i].shape)
                    /\ i = 1 /\ r[1].template => r[1].before = o.defaults
  BY <1>2 DEF Chain, r
<1>3. /\ s[i].asked = IF i = 1 THEN FirstAsked(s[1], o) ELSE Within(kind, s[i - 1])
      /\ i < Len(s) \/ before => s[i].saved = s[i].asked
      /\ Suits(kind, s[i].shape)
      /\ i = 1 /\ s[1].template => s[1].before = o.defaults
  BY DEF Chain
<1>4. /\ r[i].asked = s[i].asked /\ r[i].shape = s[i].shape
      /\ r[i].template = s[i].template /\ r[i].before = s[i].before
      /\ r[i].saved = r[i].asked
  BY <1>1, <1>2, <1>3
<1>5. i # 1 => r[i - 1] = s[i - 1]
  BY <1>1, <1>2
<1>6. i = 1 => FirstAsked(r[1], o) = FirstAsked(s[1], o)
  BY <1>4 DEF FirstAsked
<1> QED
  BY <1>3, <1>4, <1>5, <1>6

(* Without its top the chain is that of the calls around it.               *)
LEMMA PopChain ==
  ASSUME NEW kind \in Kinds, NEW s \in Seq(FrameType), NEW o \in Options, Len(s) > 1,
         Chain(kind, s, o, TRUE)
  PROVE  /\ Front(s) \in Seq(FrameType) /\ Front(s) # <<>> /\ Len(Front(s)) = Len(s) - 1
         /\ Chain(kind, Front(s), o, TRUE)
         /\ Last(s).asked = Within(kind, Last(Front(s)))
<1>1. Len(s) \in Nat /\ s # <<>>
  BY EmptySeq, LenProperties
<1>2. /\ Front(s) \in Seq(FrameType) /\ Len(Front(s)) = Len(s) - 1
      /\ \A i \in 1 .. Len(s) - 1 : Front(s)[i] = s[i]
  BY <1>1, Popped DEF Front
<1>3. Front(s) # <<>>
  BY <1>1, <1>2, EmptySeq
<1>4. Chain(kind, Front(s), o, TRUE)
  BY <1>1, <1>2 DEF Chain
<1>5. Last(s) = s[Len(s)] /\ Last(Front(s)) = s[Len(s) - 1]
  BY <1>1, <1>2 DEF Last
<1>6. s[Len(s)].asked = Within(kind, s[Len(s) - 1])
  BY <1>1 DEF Chain
<1> QED
  BY <1>2, <1>3, <1>4, <1>5, <1>6

------------------------------------------------------------------------------
(* The kind of the outermost call, which nested ones share.                *)
LEMMA KindKnown ==
  ASSUME IInv, NEW t \in Threads, calls[t] # <<>>
  PROVE  /\ contexts[t] \in Seq(Context) /\ Len(contexts[t]) \in Nat \ {0}
         /\ KindOf(t) \in Kinds
<1>1. contexts[t] \in Seq(Context) /\ Stacked(calls[t], contexts[t]) /\ Len(calls[t]) \in Nat \ {0}
      /\ calls[t] \in Seq(Nat \ {0})
  BY OwnThread, EmptySeq
<1>2. calls[t][Len(calls[t])] \in Nat \ {0}
  BY <1>1, ElementOfSeq
<1>3. Len(contexts[t]) \in Nat \ {0}
  BY <1>1, <1>2 DEF Stacked
<1>4. contexts[t][1] \in Context
  BY <1>1, <1>3, ElementOfSeq
<1> QED
  BY <1>1, <1>3, <1>4 DEF KindOf, Context

LEMMA ReturnKeepsKind ==
  ASSUME IInv, NEW t \in Threads, calls[t] # <<>>, Len(calls[t]) # 1
  PROVE  AfterReturn(t)[1].kind = contexts[t][1].kind
<1> DEFINE known == contexts[t]
<1> DEFINE last == [known[Len(known)] EXCEPT !.noted = @ /\ register[t] # 1]
<1>1. known \in Seq(Context) /\ Len(known) \in Nat \ {0}
  BY KindKnown
<1> DEFINE rest == SubSeq(calls[t], 1, Len(calls[t]) - 1)
<1>2. rest \in Seq(Nat \ {0}) /\ Len(rest) = Len(calls[t]) - 1 /\ Stacked(rest, AfterReturn(t))
  BY ReturnStacked DEF IInv
<1>3. rest # <<>>
  <2>1. Len(calls[t]) \in Nat /\ Len(<<>>) = 0
    BY OwnThread
  <2> HIDE DEF rest
  <2>2. SUFFICES ASSUME rest = <<>> PROVE FALSE
    OBVIOUS
  <2>3. Len(rest) = 0
    BY <2>1, <2>2
  <2> QED
    BY <1>2, <2>1, <2>3
<1>4. Len(AfterReturn(t)) \in Nat \ {0}
  <2> HIDE DEF rest
  <2>1. rest[Len(rest)] \in Nat \ {0}
    BY <1>2, <1>3, EmptySeq, ElementOfSeq
  <2> QED
    BY <1>2, <1>3, <2>1 DEF Stacked
<1>5. CASE Outermost(t)
  <2>1. AfterReturn(t) = SubSeq(known, 1, Len(known) - 1)
    BY <1>5 DEF AfterReturn
  <2>2. known # <<>>
    BY <1>1, EmptySeq
  <2> HIDE DEF known
  <2>3. /\ Len(AfterReturn(t)) = Len(known) - 1
        /\ \A i \in 1 .. Len(known) - 1 : AfterReturn(t)[i] = known[i]
    BY <1>1, <2>1, <2>2, Popped
  <2>4. AfterReturn(t)[1] = known[1]
    BY <1>1, <1>4, <2>3
  <2> QED
    BY <2>4 DEF known
<1>6. CASE ~ Outermost(t)
  <2>1. known[Len(known)] \in Context
    BY <1>1, ElementOfSeq
  <2>2. last \in Context /\ last.kind = known[Len(known)].kind
    BY <2>1 DEF Context
  <2>3. AfterReturn(t) = [known EXCEPT ![Len(known)] = last]
    BY <1>6 DEF AfterReturn
  <2> HIDE DEF known, last
  <2>4. \A i \in 1 .. Len(known) : AfterReturn(t)[i] = IF i = Len(known) THEN last ELSE known[i]
    BY <1>1, <2>2, <2>3, ExceptSeq
  <2> QED
    BY <1>1, <2>2, <2>4 DEF known
<1> QED
  BY <1>5, <1>6

LEMMA NoteKeepsKind ==
  ASSUME IInv, NEW t \in Threads, calls[t] # <<>>, contexts' = Noted(t)
  PROVE  KindOf(t)' = KindOf(t)
<1> DEFINE known == contexts[t]
<1> DEFINE note == [known[Len(known)] EXCEPT !.noted = TRUE]
<1>1. known \in Seq(Context) /\ Len(known) \in Nat \ {0}
  BY KindKnown
<1>2. known[Len(known)] \in Context
  BY <1>1, ElementOfSeq
<1>3. note \in Context /\ note.kind = known[Len(known)].kind
  BY <1>2 DEF Context
<1>4. contexts'[t] = [known EXCEPT ![Len(known)] = note]
  BY DEF Noted, IInv, TypeOK
<1> HIDE DEF known, note
<1>5. \A i \in 1 .. Len(known) : contexts'[t][i] = IF i = Len(known) THEN note ELSE known[i]
  BY <1>1, <1>3, <1>4, ExceptSeq
<1> QED
  BY <1>1, <1>3, <1>5 DEF KindOf, known

LEMMA NestingKeepsKind ==
  ASSUME IInv, NEW t \in Threads, calls[t] # <<>>, NestedCall(t)
  PROVE  KindOf(t)' = KindOf(t)
<1>1. contexts[t] \in Seq(Context) /\ Len(contexts[t]) \in Nat \ {0} /\ KindOf(t) \in Kinds
  BY KindKnown
<1>2. NewContext(contexts[t][1].kind) \in Context
  BY <1>1 DEF NewContext, Context, KindOf
<1>3. contexts'[t] = Append(contexts[t], NewContext(contexts[t][1].kind))
  BY DEF NestedCall, IInv, TypeOK
<1>4. \A i \in 1 .. Len(contexts[t]) : contexts'[t][i] = contexts[t][i]
  BY <1>1, <1>2, <1>3, AppendProperties
<1> QED
  BY <1>1, <1>4 DEF KindOf

------------------------------------------------------------------------------
(* What a thread that is alone finds when a call of it is at its value.    *)
LEMMA OwnValue ==
  ASSUME IInv, NEW t \in Threads, Scoped(t), pc[t] # "idle"
  PROVE  /\ KindOf(t) \in Kinds
         /\ frames[t] \in Seq(FrameType) /\ frames[t] # <<>>
         /\ Chain(KindOf(t), frames[t], settings, Entered(t))
         /\ Top(t) = Last(frames[t]) /\ Top(t) \in FrameType /\ Top(t).asked \in Options
         /\ Suits(KindOf(t), Top(t).shape) /\ Top(t).shape \in Shape
         /\ Entered(t) => Top(t).saved = Top(t).asked
<1>1. calls[t] # <<>> /\ Len(calls[t]) \in Nat /\ calls[t] \in Seq(Nat \ {0})
  BY OwnThread
<1>2. KindOf(t) \in Kinds
  BY <1>1, KindKnown
<1>3. frames[t] \in Seq(FrameType) /\ frames[t] # <<>>
  BY <1>1, EmptySeq DEF Scoped
<1>4. Chain(KindOf(t), frames[t], settings, Entered(t))
  BY <1>1 DEF Scoped
<1>5. /\ Len(frames[t]) \in Nat \ {0} /\ Top(t) = frames[t][Len(frames[t])]
      /\ Top(t) = Last(frames[t]) /\ Top(t) \in FrameType
  BY <1>3, TopIsIn DEF Top
<1>6. Suits(KindOf(t), Top(t).shape) /\ (Entered(t) => Top(t).saved = Top(t).asked)
  <2> DEFINE n == Len(frames[t])
  <2>1. n \in 1 .. n /\ Entered(t) \in BOOLEAN
    BY <1>5 DEF Entered
  <2>2. /\ Entered(t) => frames[t][n].saved = frames[t][n].asked
        /\ Suits(KindOf(t), frames[t][n].shape)
    <3> HIDE DEF n
    <3> QED
      BY <1>4, <2>1 DEF Chain, n
  <2> QED
    BY <1>5, <2>2
<1> QED
  BY <1>2, <1>3, <1>4, <1>5, <1>6 DEF FrameType

LEMMA OwnFrames ==
  ASSUME NEW t \in Threads, frames \in [Threads -> Seq(FrameType)],
         NEW s \in Seq(FrameType), frames' = [frames EXCEPT ![t] = s]
  PROVE  frames' \in [Threads -> Seq(FrameType)] /\ frames'[t] = s
OBVIOUS

(* Every action keeps the chain, and the options those of the innermost.   *)
LEMMA InitScoped ==
  ASSUME OptionInit, NEW t \in Threads
  PROVE  Scoped(t)
<1>1. frames \in [Threads -> Seq(FrameType)] /\ frames[t] = <<>>
  BY EmptySeq DEF OptionInit
<1>2. calls[t] = <<>> /\ pc[t] = "idle"
  BY DEF OptionInit, Init
<1> QED
  BY <1>1, <1>2 DEF OptionInit, Scoped, Expected

LEMMA CallScoped ==
  ASSUME IInv, NEW t \in Threads, Scoped(t), CallWith(t)
  PROVE  Scoped(t)'
<1>0. PICK kind \in Kinds :
        \E shape \in Shapes(kind) : Call(t, kind) /\ Push(t, Frame(shape, settings))
  BY DEF CallWith
<1>1. PICK shape \in Shapes(kind) : Call(t, kind) /\ Push(t, Frame(shape, settings))
  BY <1>0
<1> DEFINE f == Frame(shape, settings)
<1>2. settings \in Options /\ f \in FrameType /\ f.shape = shape /\ f.asked = settings /\ ~ f.template
  BY FrameIsFrame DEF Scoped
<1>3. Suits(kind, shape)
  BY ShapesSuit
<1> HIDE DEF f
<1>4. pc[t] = "idle" /\ calls[t] = <<>> /\ frames[t] = <<>>
  <2>1. pc[t] = "idle" /\ calls[t] = <<>>
    BY <1>1, OwnThread DEF Call
  <2> QED
    BY <2>1, EmptySeq DEF Scoped
<1>5. /\ pc'[t] = "enter" /\ calls'[t] = <<1>> /\ KindOf(t)' = kind
  BY <1>1 DEF Call, Goto, NewContext, KindOf, IInv, TypeOK
<1>6. frames' = [frames EXCEPT ![t] = <<f>>]
  BY <1>1, <1>4 DEF Push, f, Scoped
<1>7. frames' \in [Threads -> Seq(FrameType)] /\ frames'[t] = <<f>>
  <2>1. <<f>> \in Seq(FrameType)
    BY <1>2
  <2> QED
    BY <1>6, <2>1, OwnFrames DEF Scoped
<1>8. Chain(kind, <<f>>, settings, FALSE)
  BY <1>2, <1>3 DEF Chain, FirstAsked
<1>9. options = settings /\ options' = options /\ settings' = settings
  BY <1>4 DEF Scoped, Expected, CallWith
<1>10. Expected(t)' = settings
  BY <1>2, <1>5, <1>7 DEF Expected, Top, Last
<1>11. Entered(t)' = FALSE
  BY <1>5 DEF Entered
<1> QED
  BY <1>5, <1>7, <1>8, <1>9, <1>10, <1>11 DEF Scoped

LEMMA TemplateScoped ==
  ASSUME IInv, NEW t \in Threads, Scoped(t), GenerateTemplate(t)
  PROVE  Scoped(t)'
<1> DEFINE asked == [settings EXCEPT !.defaults = TRUE]
<1>1. PICK shape \in [of : {"plain", "custom"}, flag : {FALSE}] :
        Push(t, [Frame(shape, asked) EXCEPT !.template = TRUE, !.before = options.defaults])
  BY DEF GenerateTemplate
<1> DEFINE f == [Frame(shape, asked) EXCEPT !.template = TRUE, !.before = options.defaults]
<1>2. shape \in Shapes("serialize") /\ "serialize" \in Kinds
  BY DEF Shapes, Kinds
<1>3. settings \in Options /\ options \in Options /\ asked \in Options /\ options.defaults \in BOOLEAN
  BY DEF Scoped, Options
<1>4. /\ f \in FrameType /\ f.shape = shape /\ f.asked = asked /\ f.template
      /\ f.before = options.defaults
  <2>1. Frame(shape, asked) \in FrameType /\ Frame(shape, asked).shape = shape
        /\ Frame(shape, asked).asked = asked
    BY <1>2, <1>3, FrameIsFrame
  <2> HIDE DEF asked
  <2> QED
    BY <1>3, <2>1 DEF FrameType
<1>5. Suits("serialize", shape)
  BY <1>2, ShapesSuit
<1> HIDE DEF f
<1>6. Call(t, "serialize")
  BY DEF GenerateTemplate
<1>7. pc[t] = "idle" /\ calls[t] = <<>> /\ frames[t] = <<>>
  <2>1. pc[t] = "idle" /\ calls[t] = <<>>
    BY <1>6, OwnThread DEF Call
  <2> QED
    BY <2>1, EmptySeq DEF Scoped
<1>8. /\ pc'[t] = "enter" /\ calls'[t] = <<1>> /\ KindOf(t)' = "serialize"
  BY <1>6 DEF Call, Goto, NewContext, KindOf, IInv, TypeOK
<1>9. frames' = [frames EXCEPT ![t] = <<f>>]
  BY <1>1, <1>7 DEF Push, f, Scoped
<1>10. frames' \in [Threads -> Seq(FrameType)] /\ frames'[t] = <<f>>
  <2>1. <<f>> \in Seq(FrameType)
    BY <1>4
  <2> QED
    BY <1>9, <2>1, OwnFrames DEF Scoped
<1>11. options = settings /\ options' = asked /\ settings' = settings
  BY <1>7 DEF Scoped, Expected, GenerateTemplate
<1>12. Chain("serialize", <<f>>, settings, FALSE)
  BY <1>4, <1>5, <1>11 DEF Chain, FirstAsked
<1>13. Expected(t)' = asked
  BY <1>4, <1>8, <1>10 DEF Expected, Top, Last
<1>14. Entered(t)' = FALSE
  BY <1>8 DEF Entered
<1> QED
  BY <1>3, <1>8, <1>10, <1>11, <1>12, <1>13, <1>14 DEF Scoped

LEMMA TemplateThrowsScoped ==
  ASSUME IInv, NEW t \in Threads, Scoped(t), TemplateThrows(t)
  PROVE  Scoped(t)'
<1>1. /\ pc[t] = "idle" /\ calls[t] = <<>> /\ pc' = pc /\ calls' = calls
      /\ contexts' = contexts /\ frames' = frames
  BY OwnThread DEF TemplateThrows, vars
<1>2. options = settings /\ options \in Options
  BY <1>1 DEF Scoped, Expected
<1>3. options' = settings' /\ options' \in Options
  BY <1>2 DEF TemplateThrows, Options
<1>4. Expected(t)' = settings'
  BY <1>1 DEF Expected
<1> QED
  BY <1>1, <1>3, <1>4 DEF Scoped

LEMMA ReadScoped ==
  ASSUME IInv, NEW t \in Threads, Scoped(t), ReadOnEntry(t) \/ ReadOnReturn(t),
         UNCHANGED optionVars
  PROVE  Scoped(t)'
<1>1. calls' = calls /\ contexts' = contexts /\ options' = options /\ frames' = frames
      /\ settings' = settings
  BY DEF ReadOnEntry, ReadOnReturn, optionVars
<1>2. \/ pc[t] = "enter" /\ pc'[t] = "increment"
      \/ pc[t] = "leave" /\ pc'[t] = "decrement"
  BY DEF ReadOnEntry, ReadOnReturn, Goto, IInv, TypeOK
<1>3. Entered(t)' = Entered(t) /\ Expected(t)' = Expected(t) /\ KindOf(t)' = KindOf(t)
  BY <1>1, <1>2 DEF Entered, Expected, Top, KindOf
<1> QED
  BY <1>1, <1>3 DEF Scoped

LEMMA EnterScoped ==
  ASSUME IInv, NEW t \in Threads, Scoped(t), Enter(t)
  PROVE  Scoped(t)'
<1>1. /\ pc[t] = "increment" /\ pc'[t] = "body" /\ calls' = calls /\ contexts' = contexts
      /\ settings' = settings
  BY DEF Enter, WriteOnEntry, Goto, IInv, TypeOK
<1> DEFINE f == [Top(t) EXCEPT !.saved = options]
<1>2. /\ KindOf(t) \in Kinds /\ frames[t] \in Seq(FrameType) /\ frames[t] # <<>>
      /\ Chain(KindOf(t), frames[t], settings, FALSE)
      /\ Top(t) = Last(frames[t]) /\ Top(t) \in FrameType /\ Top(t).asked \in Options
      /\ Suits(KindOf(t), Top(t).shape) /\ Top(t).shape \in Shape
  BY <1>1, OwnValue DEF Entered
<1>3. options = Top(t).asked
  BY <1>1 DEF Scoped, Expected
<1>4. /\ f \in FrameType /\ f.shape = Top(t).shape /\ f.asked = Top(t).asked
      /\ f.saved = f.asked /\ f.template = Top(t).template /\ f.before = Top(t).before
  BY <1>2, <1>3 DEF FrameType
<1>5. frames' = [frames EXCEPT ![t] = Append(Front(frames[t]), f)]
  BY DEF Enter, SetTop, Scoped
<1> HIDE DEF f
<1>6. /\ Append(Front(frames[t]), f) \in Seq(FrameType)
      /\ Len(Append(Front(frames[t]), f)) = Len(frames[t])
      /\ Last(Append(Front(frames[t]), f)) = f
  BY <1>2, <1>4, Replaced
<1>7. frames' \in [Threads -> Seq(FrameType)] /\ frames'[t] = Append(Front(frames[t]), f)
  BY <1>5, <1>6, OwnFrames DEF Scoped
<1>8. settings \in Options
  BY DEF Scoped
<1>9. Chain(KindOf(t), frames'[t], settings, TRUE)
  BY <1>2, <1>4, <1>7, <1>8, ReplaceChain
<1>10. Top(t)' = f
  BY <1>6, <1>7 DEF Top
<1>11. options' = Inside(KindOf(t), f.shape, f.asked)
  BY <1>2, <1>3, <1>4, EntryIsInside DEF Enter
<1>12. Expected(t)' = Inside(KindOf(t), f.shape, f.asked) /\ KindOf(t)' = KindOf(t)
  BY <1>1, <1>10 DEF Expected, KindOf
<1>13. options' \in Options
  BY <1>2, <1>4, <1>11, InsideType
<1>14. Entered(t)' = TRUE
  BY <1>1 DEF Entered
<1> QED
  BY <1>1, <1>6, <1>7, <1>8, <1>9, <1>11, <1>12, <1>13, <1>14 DEF Scoped

(* A call for a part, by the value's serializer or by user code.           *)
LEMMA PushScoped ==
  ASSUME IInv, NEW t \in Threads, Scoped(t), pc[t] = "body", pc'[t] = "enter",
         Len(calls'[t]) = Len(calls[t]) + 1, KindOf(t)' = KindOf(t), settings' = settings,
         NEW shape \in Shapes(KindOf(t)), Push(t, Frame(shape, Within(KindOf(t), Top(t)))),
         options' = Within(KindOf(t), Top(t))
  PROVE  Scoped(t)'
<1> DEFINE f == Frame(shape, Within(KindOf(t), Top(t)))
<1>1. /\ KindOf(t) \in Kinds /\ frames[t] \in Seq(FrameType) /\ frames[t] # <<>>
      /\ Chain(KindOf(t), frames[t], settings, TRUE)
      /\ Top(t) = Last(frames[t]) /\ Top(t) \in FrameType
  BY OwnValue DEF Entered
<1>2. settings \in Options /\ Len(frames[t]) = Len(calls[t])
  BY DEF Scoped
<1>3. Within(KindOf(t), Top(t)) \in Options
  BY <1>1, WithinType
<1>4. f.asked = Within(KindOf(t), Top(t))
  BY <1>1, <1>3, FrameIsFrame
<1>5. /\ Append(frames[t], f) \in Seq(FrameType)
      /\ Len(Append(frames[t], f)) = Len(frames[t]) + 1
      /\ Last(Append(frames[t], f)) = f
      /\ Chain(KindOf(t), Append(frames[t], f), settings, FALSE)
  BY <1>1, <1>2, PushChain
<1>6. frames' = [frames EXCEPT ![t] = Append(frames[t], f)]
  BY DEF Push, Scoped
<1> HIDE DEF f
<1>7. frames' \in [Threads -> Seq(FrameType)] /\ frames'[t] = Append(frames[t], f)
  BY <1>5, <1>6, OwnFrames DEF Scoped
<1>8. Expected(t)' = Within(KindOf(t), Top(t))
  BY <1>4, <1>5, <1>7 DEF Expected, Top
<1>9. Entered(t)' = FALSE
  BY DEF Entered
<1> QED
  BY <1>2, <1>3, <1>5, <1>7, <1>8, <1>9 DEF Scoped

LEMMA PartScoped ==
  ASSUME IInv, NEW t \in Threads, Scoped(t), Part(t)
  PROVE  Scoped(t)'
<1>1. PICK shape \in Shapes(KindOf(t)) : Push(t, Frame(shape, Within(KindOf(t), Top(t))))
  BY DEF Part
<1>2. /\ pc[t] = "body" /\ pc'[t] = "enter" /\ contexts' = contexts /\ settings' = settings
      /\ calls'[t] = Append(calls[t], Len(contexts[t]))
  BY DEF Part, Member, Goto, IInv, TypeOK
<1>3. calls[t] \in Seq(Nat \ {0}) /\ calls[t] # <<>>
  BY <1>2, OwnThread
<1>4. Len(calls'[t]) = Len(calls[t]) + 1
  BY <1>2, <1>3
<1>5. KindOf(t)' = KindOf(t)
  BY <1>2 DEF KindOf
<1>6. options' = Within(KindOf(t), Top(t))
  <2>1. options = Inside(KindOf(t), Top(t).shape, Top(t).asked)
    BY <1>2 DEF Scoped, Expected
  <2>2. /\ KindOf(t) \in Kinds /\ Top(t) \in FrameType
        /\ Suits(KindOf(t), Top(t).shape) /\ Top(t).saved = Top(t).asked
    BY <1>2, OwnValue DEF Entered
  <2> QED
    BY <2>1, <2>2, PartIsWithin DEF Part
<1> QED
  BY <1>1, <1>2, <1>4, <1>5, <1>6, PushScoped

LEMMA CustomPartScoped ==
  ASSUME IInv, NEW t \in Threads, Scoped(t), CustomPart(t)
  PROVE  Scoped(t)'
<1>1. PICK shape \in Shapes(KindOf(t)) : Push(t, Frame(shape, Within(KindOf(t), Top(t))))
  BY DEF CustomPart
<1>2. /\ pc[t] = "body" /\ pc'[t] = "enter" /\ options' = options /\ settings' = settings
      /\ calls'[t] = Append(calls[t], Len(contexts[t]) + 1) /\ Top(t).shape.of = "custom"
  BY DEF CustomPart, NestedCall, Goto, IInv, TypeOK
<1>3. calls[t] \in Seq(Nat \ {0}) /\ calls[t] # <<>>
  BY <1>2, OwnThread
<1>4. Len(calls'[t]) = Len(calls[t]) + 1
  BY <1>2, <1>3
<1>5. KindOf(t)' = KindOf(t)
  BY <1>3, NestingKeepsKind DEF CustomPart
<1>6. options' = Within(KindOf(t), Top(t))
  <2>1. options = Inside(KindOf(t), Top(t).shape, Top(t).asked)
    BY <1>2 DEF Scoped, Expected
  <2>2. /\ KindOf(t) \in Kinds /\ Top(t) \in FrameType
        /\ Suits(KindOf(t), Top(t).shape) /\ Top(t).saved = Top(t).asked
    BY <1>2, OwnValue DEF Entered
  <2>3. ForPart(KindOf(t), Top(t), options) = Within(KindOf(t), Top(t))
    BY <2>1, <2>2, PartIsWithin
  <2>4. ForPart(KindOf(t), Top(t), options) = options
    BY <1>2 DEF ForPart
  <2> QED
    BY <1>2, <2>3, <2>4
<1> QED
  BY <1>1, <1>2, <1>4, <1>5, <1>6, PushScoped

LEMMA NoteScoped ==
  ASSUME IInv, NEW t \in Threads, Scoped(t), Note(t)
  PROVE  Scoped(t)'
<1>1. /\ pc[t] = "body" /\ pc'[t] \in {"body", "leave"} /\ contexts' = Noted(t)
      /\ calls' = calls /\ options' = options /\ frames' = frames /\ settings' = settings
      /\ Top(t).shape.of \in {"plain", "custom"}
  BY DEF Note, NoteObject, NoteMarker, Goto, optionVars, IInv, TypeOK
<1>2. KindOf(t)' = KindOf(t) /\ Top(t)' = Top(t)
  BY <1>1, NoteKeepsKind, OwnThread DEF Top
<1>3. Inside(KindOf(t), Top(t).shape, Top(t).asked) = Top(t).asked
  <2>1. Top(t).asked \in Options
    BY <1>1, OwnValue
  <2> QED
    BY <1>1, <2>1 DEF Inside, Options
<1>4. Expected(t)' = Expected(t)
  BY <1>1, <1>2, <1>3 DEF Expected
<1>5. Entered(t)' = Entered(t)
  BY <1>1 DEF Entered
<1> QED
  BY <1>1, <1>2, <1>4, <1>5 DEF Scoped

LEMMA ExitScoped ==
  ASSUME IInv, NEW t \in Threads, Scoped(t), Exit(t)
  PROVE  Scoped(t)'
<1>1. /\ pc[t] = "body" /\ pc'[t] = "leave" /\ contexts' = contexts
      /\ calls' = calls /\ frames' = frames /\ settings' = settings
      /\ options' = OnExit(KindOf(t), Top(t), options)
  BY DEF Exit, Return, Goto, IInv, TypeOK
<1>2. KindOf(t)' = KindOf(t) /\ Top(t)' = Top(t) /\ Entered(t)' = Entered(t)
  BY <1>1 DEF KindOf, Top, Entered
<1>3. options = Inside(KindOf(t), Top(t).shape, Top(t).asked)
  BY <1>1 DEF Scoped, Expected
<1>4. /\ KindOf(t) \in Kinds /\ Top(t) \in FrameType /\ Top(t).saved = Top(t).asked
      /\ Top(t).asked \in Options
  BY <1>1, OwnValue DEF Entered
<1>5. options' = Top(t).asked
  BY <1>1, <1>3, <1>4, ExitIsAsked
<1>6. Expected(t)' = Top(t).asked
  BY <1>1, <1>2 DEF Expected
<1> QED
  BY <1>1, <1>2, <1>4, <1>5, <1>6 DEF Scoped

(* A call that returns leaves what it was asked to the value around it,    *)
(* which then puts back what it had, or to the user.                       *)
LEMMA LeaveScoped ==
  ASSUME IInv, NEW t \in Threads, Scoped(t), Leave(t)
  PROVE  Scoped(t)'
<1> DEFINE rest == Front(frames[t])
<1> DEFINE parent == Last(rest)
<1>1. /\ pc[t] = "decrement" /\ contexts'[t] = AfterReturn(t) /\ settings' = settings
      /\ calls'[t] = SubSeq(calls[t], 1, Len(calls[t]) - 1)
      /\ pc'[t] = IF Len(calls[t]) = 1 THEN "idle" ELSE "body"
  BY DEF Leave, WriteOnReturn, Goto, IInv, TypeOK
<1>2. /\ KindOf(t) \in Kinds /\ frames[t] \in Seq(FrameType) /\ frames[t] # <<>>
      /\ Chain(KindOf(t), frames[t], settings, TRUE)
      /\ Top(t) = Last(frames[t]) /\ Top(t).asked \in Options
  BY <1>1, OwnValue DEF Entered
<1>3. /\ settings \in Options /\ Len(frames[t]) = Len(calls[t]) /\ options = Top(t).asked
      /\ frames \in [Threads -> Seq(FrameType)]
  BY <1>1 DEF Scoped, Expected
<1>4. calls[t] # <<>> /\ Len(calls[t]) \in Nat \ {0}
  BY <1>1, OwnThread, EmptySeq
<1>5. Len(calls'[t]) = Len(calls[t]) - 1
  BY <1>1, <1>4, ReturnStacked DEF IInv
<1>6. rest \in Seq(FrameType) /\ Len(rest) = Len(calls[t]) - 1
  BY <1>2, <1>3, Popped DEF Front
<1> HIDE DEF rest
<1>7. CASE Len(calls[t]) = 1
  <2>1. rest = <<>> /\ calls'[t] = <<>>
    <3>1. SubSeq(calls[t], 1, Len(calls[t]) - 1) \in Seq(Nat \ {0})
      BY <1>4, ReturnStacked DEF IInv
    <3> QED
      BY <1>1, <1>5, <1>6, <1>7, <3>1, EmptySeq
  <2>2. frames' = [frames EXCEPT ![t] = rest]
    BY <2>1 DEF Leave, rest
  <2>3. frames' \in [Threads -> Seq(FrameType)] /\ frames'[t] = rest
    BY <1>3, <1>6, <2>2, OwnFrames
  <2>4. options' = IF Top(t).template THEN [options EXCEPT !.defaults = Top(t).before] ELSE options
    BY <2>1 DEF Leave, rest
  <2>5. /\ Top(t).asked = FirstAsked(Top(t), settings)
        /\ Top(t).template => Top(t).before = settings.defaults
    <3>1. Top(t) = frames[t][1]
      BY <1>2, <1>3, <1>7 DEF Last
    <3> QED
      BY <1>2, <1>3, <1>7, <3>1 DEF Chain
  <2>6. options' = settings
    <3>1. CASE Top(t).template
      BY <1>3, <2>4, <2>5, <3>1 DEF FirstAsked, Options
    <3>2. CASE ~ Top(t).template
      BY <1>3, <2>4, <2>5, <3>2 DEF FirstAsked
    <3> QED
      BY <3>1, <3>2
  <2>7. Expected(t)' = settings
    BY <1>1, <1>7 DEF Expected
  <2> QED
    BY <1>1, <1>3, <1>5, <1>6, <2>1, <2>3, <2>6, <2>7 DEF Scoped
<1>8. CASE Len(calls[t]) # 1
  <2> DEFINE f == [parent EXCEPT !.next = NextPart(parent)]
  <2>1. /\ rest # <<>> /\ Chain(KindOf(t), rest, settings, TRUE)
        /\ Top(t).asked = Within(KindOf(t), parent)
    <3>1. Len(frames[t]) > 1
      <4>1. Len(calls[t]) \in Nat \ {0, 1}
        BY <1>4, <1>8
      <4>2. \A n \in Nat \ {0, 1} : n > 1
        OBVIOUS
      <4> QED
        BY <1>3, <4>1, <4>2
    <3>2. /\ Front(frames[t]) # <<>> /\ Chain(KindOf(t), Front(frames[t]), settings, TRUE)
          /\ Last(frames[t]).asked = Within(KindOf(t), Last(Front(frames[t])))
      BY <1>2, <1>3, <3>1, PopChain
    <3> QED
      BY <1>2, <3>2 DEF rest
  <2>2. Len(rest) \in Nat \ {0} /\ parent = rest[Len(rest)] /\ parent \in FrameType
    BY <1>6, <2>1, TopIsIn
  <2>3. Suits(KindOf(t), parent.shape) /\ parent.saved = parent.asked
    BY <2>1, <2>2 DEF Chain
  <2>4. NextPart(parent) \in {"key", "value", "none"}
    BY DEF NextPart, FirstPart
  <2>5. /\ f \in FrameType /\ f.shape = parent.shape /\ f.asked = parent.asked
        /\ f.saved = f.asked /\ f.template = parent.template /\ f.before = parent.before
    BY <2>2, <2>3, <2>4 DEF FrameType
  <2>6. /\ frames' = [frames EXCEPT ![t] = Append(Front(rest), f)]
        /\ options' = AfterPart(KindOf(t), parent, options)
    BY <2>1 DEF Leave, rest
  <2> HIDE DEF f
  <2>7. /\ Append(Front(rest), f) \in Seq(FrameType)
        /\ Len(Append(Front(rest), f)) = Len(rest) /\ Last(Append(Front(rest), f)) = f
    BY <1>6, <2>1, <2>5, Replaced
  <2>8. Chain(KindOf(t), Append(Front(rest), f), settings, TRUE)
    BY <1>2, <1>3, <1>6, <2>1, <2>5, ReplaceChain
  <2>9. frames' \in [Threads -> Seq(FrameType)] /\ frames'[t] = Append(Front(rest), f)
    BY <1>3, <2>6, <2>7, OwnFrames
  <2>10. KindOf(t)' = KindOf(t)
    BY <1>1, <1>4, <1>8, ReturnKeepsKind DEF KindOf
  <2>11. options' = Inside(KindOf(t), f.shape, f.asked)
    BY <1>2, <1>3, <2>1, <2>2, <2>3, <2>5, <2>6, AfterPartIsInside
  <2>12. options' \in Options
    BY <2>5, <2>11, InsideType DEF FrameType
  <2>13. Expected(t)' = Inside(KindOf(t), f.shape, f.asked)
    BY <1>1, <1>8, <2>7, <2>9, <2>10 DEF Expected, Top
  <2>14. Entered(t)' = TRUE
    BY <1>1, <1>8 DEF Entered
  <2> QED
    BY <1>1, <1>3, <1>5, <1>6, <2>7, <2>8, <2>9, <2>10, <2>11, <2>12, <2>13, <2>14 DEF Scoped
<1> QED
  BY <1>7, <1>8

LEMMA UnwindScoped ==
  ASSUME IInv, NEW t \in Threads, Scoped(t), Unwind(t)
  PROVE  Scoped(t)'
<1>1. /\ pc[t] = "body" /\ pc'[t] = "idle" /\ calls'[t] = <<>> /\ options' = options
      /\ settings' = Inside(KindOf(t), Top(t).shape, Top(t).asked)
      /\ frames' = [frames EXCEPT ![t] = <<>>]
  BY DEF Unwind, Throw, Goto, IInv, TypeOK
<1>2. options \in Options /\ options = settings'
  BY <1>1 DEF Scoped, Expected
<1>3. frames' \in [Threads -> Seq(FrameType)] /\ frames'[t] = <<>>
  BY <1>1, EmptySeq, OwnFrames DEF Scoped
<1>4. Expected(t)' = settings'
  BY <1>1 DEF Expected
<1> QED
  BY <1>1, <1>2, <1>3, <1>4 DEF Scoped

------------------------------------------------------------------------------
AloneScoped == \A t \in Threads : Threads = {t} => Scoped(t)

LEMMA StepScoped ==
  ASSUME IInv, NEW t \in Threads, Scoped(t), OptionStep(t)
  PROVE  Scoped(t)'
<1>1. CASE CallWith(t)
  BY <1>1, CallScoped
<1>2. CASE GenerateTemplate(t)
  BY <1>2, TemplateScoped
<1>3. CASE TemplateThrows(t)
  BY <1>3, TemplateThrowsScoped
<1>4. CASE (ReadOnEntry(t) \/ ReadOnReturn(t)) /\ UNCHANGED optionVars
  BY <1>4, ReadScoped
<1>5. CASE Enter(t)
  BY <1>5, EnterScoped
<1>6. CASE Part(t)
  BY <1>6, PartScoped
<1>7. CASE CustomPart(t)
  BY <1>7, CustomPartScoped
<1>8. CASE Note(t)
  BY <1>8, NoteScoped
<1>9. CASE Exit(t)
  BY <1>9, ExitScoped
<1>10. CASE Leave(t)
  BY <1>10, LeaveScoped
<1>11. CASE Unwind(t)
  BY <1>11, UnwindScoped
<1> QED
  BY <1>1, <1>2, <1>3, <1>4, <1>5, <1>6, <1>7, <1>8, <1>9, <1>10, <1>11 DEF OptionStep

(* The serializer of one thread: every value is written and read under the *)
(* options that it asks for, at every depth of calls and after any number  *)
(* of exceptions and templates (NullableSerializer.cs:25,                  *)
(* DictionarySerializer.cs:79, 152, 181, TemplateGenerator.cs:34).         *)
THEOREM OptionsCorrect == OptionSpec => []OptionsScoped
<1>1. OptionInit => AloneScoped
  BY InitScoped DEF AloneScoped
<1>2. IInv /\ AloneScoped /\ [OptionNext]_<<vars, optionVars>> => AloneScoped'
  <2> SUFFICES ASSUME IInv, AloneScoped, [OptionNext]_<<vars, optionVars>>,
                      NEW t \in Threads, Threads = {t}
               PROVE  Scoped(t)'
    BY DEF AloneScoped
  <2>1. Scoped(t)
    BY DEF AloneScoped
  <2>2. CASE OptionNext
    <3>1. OptionStep(t)
      BY <2>2 DEF OptionNext
    <3> QED
      BY <2>1, <3>1, StepScoped
  <2>3. CASE UNCHANGED <<vars, optionVars>>
    BY <2>1, <2>3 DEF vars, optionVars, Scoped, Chain, Entered, Expected, Top, KindOf
  <2> QED
    BY <2>2, <2>3
<1>3. AloneScoped => OptionsScoped
  BY DEF AloneScoped, Scoped, OptionsScoped
<1>4. OptionSpec => []IInv
  BY OptionsKeepCalls, Invariance, PTL
<1> QED
  BY <1>1, <1>2, <1>3, <1>4, PTL DEF OptionSpec
==============================================================================
