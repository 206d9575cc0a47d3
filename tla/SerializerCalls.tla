--------------------------- MODULE SerializerCalls ---------------------------
(***************************************************************************)
(* The _callCount of a JsonSerializer. Serialize and Deserialize call      *)
(* themselves for every member, and the call that brings the count back to *)
(* zero takes itself for the outermost: it clears the context's reference  *)
(* map, or completes the references noted in it. The count is a field of   *)
(* the serializer: threads that share one change it by unsynchronized      *)
(* reads and writes, an exception leaves it as it is, and an               *)
(* IJsonSerializable makes calls of its own, with a context of their own.  *)
(***************************************************************************)
EXTENDS Integers, Sequences

CONSTANTS
  Threads,    (* the threads that use the serializer                       *)
  MayThrow,   (* whether a value may fail to be read or written            *)
  MayNest,    (* whether there are IJsonSerializables with members         *)
  MaxDepth,   (* bound: calls of a thread that are nested                  *)
  MaxCalls    (* bound: outermost calls a thread makes                     *)

ASSUME SwitchAssumption == MayThrow \in BOOLEAN /\ MayNest \in BOOLEAN
ASSUME BoundAssumption == MaxDepth \in Nat \ {0} /\ MaxCalls \in Nat

VARIABLES
  callCount, (* _callCount                                                 *)
  calls,     (* for each thread, the contexts of its nested calls by index *)
  contexts,  (* for each thread, its contexts: [kind, noted]               *)
  pc,        (* for each thread, where its innermost call is               *)
  register,  (* for each thread, the count as it read it                   *)
  made,      (* for each thread, how many outermost calls it has made      *)
  unwound    (* history: how many calls were left by an exception          *)

vars == <<callCount, calls, contexts, pc, register, made, unwound>>

Kinds == {"serialize", "deserialize"}

Init ==
  /\ callCount = 0
  /\ calls = [t \in Threads |-> <<>>]
  /\ contexts = [t \in Threads |-> <<>>]
  /\ pc = [t \in Threads |-> "idle"]
  /\ register = [t \in Threads |-> 0]
  /\ made = [t \in Threads |-> 0]
  /\ unwound = 0

NewContext(kind) == [kind |-> kind, noted |-> FALSE]
Goto(t, label) == pc' = [pc EXCEPT ![t] = label]

(* Serialize(Type, object), Deserialize(Type, JsonValue): a new context.   *)
Call(t, kind) ==
  /\ pc[t] = "idle"
  /\ made[t] < MaxCalls
  /\ made' = [made EXCEPT ![t] = @ + 1]
  /\ contexts' = [contexts EXCEPT ![t] = <<NewContext(kind)>>]
  /\ calls' = [calls EXCEPT ![t] = <<1>>]
  /\ Goto(t, "enter")
  /\ UNCHANGED <<callCount, register, unwound>>

(* _callCount++, in the two steps that other threads can come between.     *)
ReadOnEntry(t) ==
  /\ pc[t] = "enter"
  /\ register' = [register EXCEPT ![t] = callCount]
  /\ Goto(t, "increment")
  /\ UNCHANGED <<callCount, calls, contexts, made, unwound>>

WriteOnEntry(t) ==
  /\ pc[t] = "increment"
  /\ callCount' = register[t] + 1
  /\ Goto(t, "body")
  /\ UNCHANGED <<calls, contexts, register, made, unwound>>

(* A member is serialized or deserialized with the same context.           *)
Member(t) ==
  /\ pc[t] = "body"
  /\ Len(calls[t]) < MaxDepth
  /\ calls' = [calls EXCEPT ![t] = Append(@, Len(contexts[t]))]
  /\ Goto(t, "enter")
  /\ UNCHANGED <<callCount, contexts, register, made, unwound>>

(* ToJson or FromJson calls the public methods for a member.               *)
NestedCall(t) ==
  /\ MayNest
  /\ pc[t] = "body"
  /\ Len(calls[t]) < MaxDepth
  /\ contexts' = [contexts EXCEPT ![t] = Append(@, NewContext(@[1].kind))]
  /\ calls' = [calls EXCEPT ![t] = Append(@, Len(contexts[t]) + 1)]
  /\ Goto(t, "enter")
  /\ UNCHANGED <<callCount, register, made, unwound>>

(* ReferencingSerializer adds an object to the map before it writes it.    *)
Noted(t) == [contexts EXCEPT ![t][Len(contexts[t])].noted = TRUE]

NoteObject(t) ==
  /\ pc[t] = "body"
  /\ contexts[t][Len(contexts[t])].kind = "serialize"
  /\ contexts' = Noted(t)
  /\ UNCHANGED <<callCount, calls, pc, register, made, unwound>>

(* The first call of a context, when its frame is the innermost.           *)
Outermost(t) == Len(calls[t]) = 1 \/ calls[t][Len(calls[t]) - 1] < Len(contexts[t])

(* It notes a marker read and has nothing more to read; the outermost value*)
(* of a document is not a marker.                                          *)
NoteMarker(t) ==
  /\ pc[t] = "body"
  /\ contexts[t][Len(contexts[t])].kind = "deserialize"
  /\ ~ Outermost(t)
  /\ contexts' = Noted(t)
  /\ Goto(t, "leave")
  /\ UNCHANGED <<callCount, calls, register, made, unwound>>

Return(t) ==
  /\ pc[t] = "body"
  /\ Goto(t, "leave")
  /\ UNCHANGED <<callCount, calls, contexts, register, made, unwound>>

(* --_callCount, likewise in two steps.                                    *)
ReadOnReturn(t) ==
  /\ pc[t] = "leave"
  /\ register' = [register EXCEPT ![t] = callCount]
  /\ Goto(t, "decrement")
  /\ UNCHANGED <<callCount, calls, contexts, made, unwound>>

(* The contexts once the innermost call has returned: of a count of zero,  *)
(* the map is cleared; with the context's first call the context goes.     *)
AfterReturnKeeping(t) ==
  IF Len(calls[t]) = 1 THEN <<>>
  ELSE [contexts[t] EXCEPT ![Len(contexts[t])].noted = @ /\ register[t] # 1]

AfterReturnEarly(t) ==
  IF Outermost(t) THEN SubSeq(contexts[t], 1, Len(contexts[t]) - 1)
  ELSE [contexts[t] EXCEPT ![Len(contexts[t])].noted = @ /\ register[t] > 2]

AfterReturn(t) ==
  IF Outermost(t) THEN SubSeq(contexts[t], 1, Len(contexts[t]) - 1)
  ELSE [contexts[t] EXCEPT ![Len(contexts[t])].noted = @ /\ register[t] # 1]

WriteOnReturnUncounted(t) ==
  /\ pc[t] = "decrement"
  /\ callCount' = register[t]
  /\ contexts' = [contexts EXCEPT ![t] = AfterReturn(t)]
  /\ calls' = [calls EXCEPT ![t] = SubSeq(@, 1, Len(@) - 1)]
  /\ Goto(t, IF Len(calls[t]) = 1 THEN "idle" ELSE "body")
  /\ UNCHANGED <<register, made, unwound>>

WriteOnReturn(t) ==
  /\ pc[t] = "decrement"
  /\ callCount' = register[t] - 1
  /\ contexts' = [contexts EXCEPT ![t] = AfterReturn(t)]
  /\ calls' = [calls EXCEPT ![t] = SubSeq(@, 1, Len(@) - 1)]
  /\ Goto(t, IF Len(calls[t]) = 1 THEN "idle" ELSE "body")
  /\ UNCHANGED <<register, made, unwound>>

(* An exception leaves every call of the thread, and the count as it is.   *)
Throw(t) ==
  /\ MayThrow
  /\ pc[t] = "body"
  /\ unwound' = unwound + Len(calls[t])
  /\ calls' = [calls EXCEPT ![t] = <<>>]
  /\ contexts' = [contexts EXCEPT ![t] = <<>>]
  /\ Goto(t, "idle")
  /\ UNCHANGED <<callCount, register, made>>

Step(t) ==
  \/ \E kind \in Kinds : Call(t, kind)
  \/ ReadOnEntry(t)
  \/ WriteOnEntry(t)
  \/ Member(t)
  \/ NestedCall(t)
  \/ NoteObject(t)
  \/ NoteMarker(t)
  \/ Return(t)
  \/ ReadOnReturn(t)
  \/ WriteOnReturn(t)
  \/ Throw(t)

Next == \E t \in Threads : Step(t)

Spec == Init /\ [][Next]_vars

------------------------------------------------------------------------------
Labels == {"idle", "enter", "increment", "body", "leave", "decrement"}

TypeOK ==
  /\ callCount \in Int
  /\ contexts \in [Threads -> Seq([kind : Kinds, noted : BOOLEAN])]
  /\ calls \in [Threads -> Seq(Nat \ {0})]
  /\ pc \in [Threads -> Labels]
  /\ register \in [Threads -> Int]
  /\ made \in [Threads -> 0 .. MaxCalls]
  /\ unwound \in Nat
  /\ \A t \in Threads : pc[t] = "idle" <=> calls[t] = <<>>
  /\ \A t \in Threads : calls[t] # <<>> => calls[t][Len(calls[t])] = Len(contexts[t])

(* The calls of a thread that are in the count: the innermost is not while *)
(* it has yet to write its increment.                                      *)
Counted(t) ==
  IF pc[t] \in {"enter", "increment"} THEN Len(calls[t]) - 1 ELSE Len(calls[t])

(* One thread alone: the count is the depth of the calls under way, and    *)
(* the calls that an exception left, which nothing ever takes back. So     *)
(* _callCount is zero after every call exactly until the first exception.  *)
CountTracksDepth ==
  \A t \in Threads : Threads = {t} => callCount = Counted(t) + unwound

NotesKept ==
  \A t \in Threads : \A i \in DOMAIN contexts[t] \cap DOMAIN contexts'[t] :
    contexts[t][i].noted => contexts'[t][i].noted

(* A map is cleared, or its references completed with the value that a     *)
(* call returns as the root, by the outermost call of its context and not  *)
(* by one of a member (JsonSerializer.cs:65, 128). A thread alone, whatever*)
(* it reads and whatever fails.                                            *)
ClearedByOutermost == [][NotesKept]_vars

(* The outermost call of the innermost context writes the count it leaves. *)
ContextReturns(t) ==
  pc[t] = "decrement" /\ pc'[t] # "decrement" /\ Outermost(t)

CompletesExactly ==
  \A t \in Threads : Threads = {t} /\ ContextReturns(t) =>
    (callCount' = 0 <=> unwound = 0 /\ Len(contexts[t]) = 1)

(* A thread alone: the map of a context is completed (or cleared) when its *)
(* outermost call returns exactly if no exception has ever left a call of  *)
(* the serializer and the context is not nested in another. So one throw   *)
(* stops it for good, and an IJsonSerializable never gets it.              *)
CompletedIfUnbroken == [][CompletesExactly]_vars

CompletedOnReturn ==
  \A t \in Threads :
    LET last == contexts[t][Len(contexts[t])]
    IN ContextReturns(t) /\ last.kind = "deserialize" /\ last.noted => callCount' = 0

(* serialization.md:74 says that a marker is given the instance at its     *)
(* pointer: a Deserialize that noted markers completes them before it      *)
(* returns (JsonSerializer.cs:128-133).                                    *)
ReferencesCompleted == [][CompletedOnReturn]_vars
==============================================================================
