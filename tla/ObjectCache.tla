----------------------------- MODULE ObjectCache -----------------------------
(***************************************************************************)
(* The lock-free cache behind StringBuilderCache and SmallBufferCache      *)
(* (src/Manatee.Json/Internal), shared by every thread that parses. One    *)
(* fast slot and CacheSize further slots hold released objects; each read, *)
(* each write and each CompareExchange of a slot is one step.              *)
(***************************************************************************)
EXTENDS Naturals

CONSTANTS
  Threads,    (* the threads that parse                                    *)
  Objects,    (* the identities the builder can give to a new object       *)
  CacheSize,  (* _cacheSize: two slots per processor                       *)
  NULL        (* the null reference                                        *)

ASSUME CacheSizeAssumption == CacheSize \in Nat \ {0}
ASSUME NullAssumption == NULL \notin Objects

VARIABLES
  item,   (* _item, the fast slot                                          *)
  items,  (* _items, the other slots                                       *)
  pc,     (* what each thread does next                                    *)
  seen,   (* the candidate a thread has read from a slot                   *)
  idx,    (* the loop variable i of _AcquireSlow and _ReleaseSlow          *)
  held,   (* the object a thread has acquired and not yet stored back      *)
  dirty   (* the objects that have content                                 *)

vars == <<item, items, pc, seen, idx, held, dirty>>

Slot == 0 .. CacheSize - 1
Ref == Objects \cup {NULL}
Steps == {"idle", "takeItem", "scan", "takeSlot", "using",
          "release", "putItem", "rescan", "putSlot"}

Goto(t, step) == pc' = [pc EXCEPT ![t] = step]

(* The objects something refers to; any other is new to the builder, or    *)
(* collected and indistinguishable from a new one.                         *)
Referenced ==
  {item} \cup {items[i] : i \in Slot}
         \cup {held[t] : t \in Threads} \cup {seen[t] : t \in Threads}

Init ==
  /\ item = NULL
  /\ items = [i \in Slot |-> NULL]
  /\ pc = [t \in Threads |-> "idle"]
  /\ seen = [t \in Threads |-> NULL]
  /\ idx = [t \in Threads |-> 0]
  /\ held = [t \in Threads |-> NULL]
  /\ dirty = {}

------------------------------------------------------------------------------
(* Acquire: read the fast slot, then take what was read if it is still     *)
(* there.                                                                  *)
ReadItem(t) ==
  /\ pc[t] = "idle"
  /\ seen' = [seen EXCEPT ![t] = item]
  /\ idx' = [idx EXCEPT ![t] = 0]
  /\ Goto(t, IF item = NULL THEN "scan" ELSE "takeItem")
  /\ UNCHANGED <<item, items, held, dirty>>

TakeItemUnchecked(t) ==
  /\ pc[t] = "takeItem"
  /\ item' = NULL
  /\ held' = [held EXCEPT ![t] = seen[t]]
  /\ seen' = [seen EXCEPT ![t] = NULL]
  /\ Goto(t, "using")
  /\ UNCHANGED <<items, idx, dirty>>

(* Interlocked.Exchange in the place of CompareExchange, its result not     *)
(* tested.                                                                 *)
TakeItemExchange(t) ==
  /\ pc[t] = "takeItem"
  /\ item' = NULL
  /\ held' = [held EXCEPT ![t] = item]
  /\ seen' = [seen EXCEPT ![t] = NULL]
  /\ Goto(t, "using")
  /\ UNCHANGED <<items, idx, dirty>>

TakeItem(t) ==
  /\ pc[t] = "takeItem"
  /\ seen' = [seen EXCEPT ![t] = NULL]
  /\ \/ /\ item = seen[t]
        /\ item' = NULL
        /\ held' = [held EXCEPT ![t] = seen[t]]
        /\ Goto(t, "using")
     \/ /\ item # seen[t]
        /\ UNCHANGED <<item, held>>
        /\ Goto(t, "scan")
  /\ UNCHANGED <<items, idx, dirty>>

(* _AcquireSlow: look for a candidate slot by slot.                        *)
ScanStuck(t) ==
  /\ pc[t] = "scan"
  /\ idx[t] < CacheSize
  /\ \/ /\ items[idx[t]] = NULL
        /\ UNCHANGED <<idx, seen, pc>>
     \/ /\ items[idx[t]] # NULL
        /\ seen' = [seen EXCEPT ![t] = items[idx[t]]]
        /\ Goto(t, "takeSlot")
        /\ idx' = idx
  /\ UNCHANGED <<item, items, held, dirty>>

Scan(t) ==
  /\ pc[t] = "scan"
  /\ idx[t] < CacheSize
  /\ \/ /\ items[idx[t]] = NULL
        /\ idx' = [idx EXCEPT ![t] = @ + 1]
        /\ UNCHANGED <<seen, pc>>
     \/ /\ items[idx[t]] # NULL
        /\ seen' = [seen EXCEPT ![t] = items[idx[t]]]
        /\ Goto(t, "takeSlot")
        /\ idx' = idx
  /\ UNCHANGED <<item, items, held, dirty>>

TakeSlotUnchecked(t) ==
  /\ pc[t] = "takeSlot"
  /\ items' = [items EXCEPT ![idx[t]] = NULL]
  /\ held' = [held EXCEPT ![t] = seen[t]]
  /\ seen' = [seen EXCEPT ![t] = NULL]
  /\ Goto(t, "using")
  /\ UNCHANGED <<item, idx, dirty>>

TakeSlot(t) ==
  /\ pc[t] = "takeSlot"
  /\ seen' = [seen EXCEPT ![t] = NULL]
  /\ \/ /\ items[idx[t]] = seen[t]
        /\ items' = [items EXCEPT ![idx[t]] = NULL]
        /\ held' = [held EXCEPT ![t] = seen[t]]
        /\ Goto(t, "using")
        /\ idx' = idx
     \/ /\ items[idx[t]] # seen[t]
        /\ idx' = [idx EXCEPT ![t] = @ + 1]
        /\ Goto(t, "scan")
        /\ UNCHANGED <<items, held>>
  /\ UNCHANGED <<item, dirty>>

(* No slot gave an object: the builder makes a new, empty one.             *)
Build(t) ==
  /\ pc[t] = "scan"
  /\ idx[t] = CacheSize
  /\ \E o \in Objects \ Referenced :
       /\ held' = [held EXCEPT ![t] = o]
       /\ dirty' = dirty \ {o}
  /\ Goto(t, "using")
  /\ UNCHANGED <<item, items, seen, idx>>

------------------------------------------------------------------------------
(* The parsers: they write to what they hold, may return an error without  *)
(* releasing it, and a builder that has grown too large is not pooled.     *)
Append(t) ==
  /\ pc[t] = "using"
  /\ dirty' = dirty \cup {held[t]}
  /\ UNCHANGED <<item, items, pc, seen, idx, held>>

Forget(t) ==
  /\ pc[t] = "using"
  /\ held' = [held EXCEPT ![t] = NULL]
  /\ dirty' = dirty \ {held[t]}
  /\ Goto(t, "idle")
  /\ UNCHANGED <<item, items, seen, idx>>

(* StringBuilderCache.Release and SmallBufferCache.Release empty the       *)
(* object before they hand it to the cache.                                *)
Clear(t) ==
  /\ pc[t] = "using"
  /\ dirty' = dirty \ {held[t]}
  /\ Goto(t, "release")
  /\ UNCHANGED <<item, items, seen, idx, held>>

------------------------------------------------------------------------------
(* Release: test the fast slot, then store, unsynchronized.                *)
CheckItem(t) ==
  /\ pc[t] = "release"
  /\ idx' = [idx EXCEPT ![t] = 0]
  /\ Goto(t, IF item = NULL THEN "putItem" ELSE "rescan")
  /\ UNCHANGED <<item, items, seen, held, dirty>>

PutItemKeepingHold(t) ==
  /\ pc[t] = "putItem"
  /\ item' = held[t]
  /\ Goto(t, "using")
  /\ UNCHANGED <<items, seen, idx, held, dirty>>

(* Without the else the object goes on to a further slot.                  *)
PutItemNoElse(t) ==
  /\ pc[t] = "putItem"
  /\ item' = held[t]
  /\ Goto(t, "rescan")
  /\ UNCHANGED <<items, seen, idx, held, dirty>>

PutItem(t) ==
  /\ pc[t] = "putItem"
  /\ item' = held[t]
  /\ held' = [held EXCEPT ![t] = NULL]
  /\ Goto(t, "idle")
  /\ UNCHANGED <<items, seen, idx, dirty>>

(* _ReleaseSlow: the first slot found empty gets the object; when none is, *)
(* the object is left to the collector.                                    *)
Rescan(t) ==
  /\ pc[t] = "rescan"
  /\ idx[t] < CacheSize
  /\ \/ /\ items[idx[t]] = NULL
        /\ Goto(t, "putSlot")
        /\ UNCHANGED idx
     \/ /\ items[idx[t]] # NULL
        /\ idx' = [idx EXCEPT ![t] = @ + 1]
        /\ UNCHANGED pc
  /\ UNCHANGED <<item, items, seen, held, dirty>>

PutSlot(t) ==
  /\ pc[t] = "putSlot"
  /\ items' = [items EXCEPT ![idx[t]] = held[t]]
  /\ held' = [held EXCEPT ![t] = NULL]
  /\ Goto(t, "idle")
  /\ UNCHANGED <<item, seen, idx, dirty>>

GiveUp(t) ==
  /\ pc[t] = "rescan"
  /\ idx[t] = CacheSize
  /\ held' = [held EXCEPT ![t] = NULL]
  /\ Goto(t, "idle")
  /\ UNCHANGED <<item, items, seen, idx, dirty>>

------------------------------------------------------------------------------
AcquireStep(t) ==
  \/ TakeItem(t)
  \/ Scan(t)
  \/ TakeSlot(t)
  \/ Build(t)
ReleaseStep(t) ==
  \/ CheckItem(t)
  \/ PutItem(t)
  \/ Rescan(t)
  \/ PutSlot(t)
  \/ GiveUp(t)
UserStep(t) ==
  \/ ReadItem(t)
  \/ Append(t)
  \/ Forget(t)
  \/ Clear(t)

Next == \E t \in Threads : AcquireStep(t) \/ ReleaseStep(t) \/ UserStep(t)

Spec == Init /\ [][Next]_vars

(* A thread inside Acquire or Release keeps running. Nothing says a parser *)
(* ever starts, or ever gives back what it holds.                          *)
FairSpec == Spec /\ \A t \in Threads : WF_vars(AcquireStep(t) \/ ReleaseStep(t))

------------------------------------------------------------------------------
TypeOK ==
  /\ item \in Ref
  /\ items \in [Slot -> Ref]
  /\ pc \in [Threads -> Steps]
  /\ seen \in [Threads -> Ref]
  /\ idx \in [Threads -> 0 .. CacheSize]
  /\ held \in [Threads -> Ref]
  /\ dirty \subseteq Objects

(* An object in use is in no other hands and in no slot: two parsers never *)
(* append to the same StringBuilder, however Acquire and Release of        *)
(* different threads interleave.                                           *)
Exclusive ==
  \A t \in Threads : held[t] # NULL =>
    /\ held[t] # item
    /\ \A i \in Slot : held[t] # items[i]
    /\ \A u \in Threads \ {t} : held[t] # held[u]

(* An object is pooled in one place only, so that it can't be handed out   *)
(* twice.                                                                  *)
PooledOnce ==
  \A i \in Slot : items[i] # NULL =>
    /\ items[i] # item
    /\ \A j \in Slot \ {i} : items[i] # items[j]

(* What is pooled is empty: no parsed value begins with the text of        *)
(* another document.                                                       *)
PooledClean ==
  /\ item \notin dirty
  /\ \A i \in Slot : items[i] \notin dirty

(* What is pooled is in one place and empty, so that whoever takes it next *)
(* shares it with nobody and finds nothing in it.                          *)
PoolSound == PooledOnce /\ PooledClean

(* The first object of a slot is the one the next reader takes: a pooled   *)
(* object leaves its slot only into the hands of the thread that took it,  *)
(* or because a racing Release stored another object over it, the loss the *)
(* comments of ObjectCache accept.                                         *)
PooledObjects == ({item} \cup {items[i] : i \in Slot}) \ {NULL}
OverwrittenBy(t) ==
  \/ pc[t] = "putItem" /\ item' = held[t]
  \/ pc[t] = "putSlot" /\ items'[idx[t]] = held[t]
LostOnlyToARace ==
  [][\A o \in PooledObjects : o \notin PooledObjects' =>
        \E t \in Threads : held'[t] = o \/ OverwrittenBy(t)]_vars

(* Acquire and Release are wait-free: a thread in one of them comes out,   *)
(* whatever the other threads do.                                          *)
Terminates ==
  \A t \in Threads : (pc[t] \notin {"idle", "using"}) ~> (pc[t] \in {"idle", "using"})

(* The cache keeps the promise of ExclusivePool.                           *)
Pool == INSTANCE ExclusivePool WITH free <- PooledObjects, lent <- held
ImplementsPool == Pool!PoolSpec
==============================================================================
