-------------------------- MODULE ObjectCacheProofs --------------------------
(***************************************************************************)
(* ObjectCache for every number of threads, objects and slots: its type    *)
(* invariant, the exclusive use of what it hands out, and that it keeps    *)
(* the promise of ExclusivePool.                                           *)
(***************************************************************************)
EXTENDS ObjectCache, TLAPS

Holding == {"using", "release", "putItem", "rescan", "putSlot"}
Releasing == Holding \ {"using"}

(* A thread has an object exactly between the step that takes or builds it *)
(* and the step that stores or drops it, and a candidate while it tries to *)
(* take it. The index of a slot it is about to access is in range.         *)
Bookkeeping ==
  \A t \in Threads :
    /\ held[t] # NULL <=> pc[t] \in Holding
    /\ pc[t] \in {"takeItem", "takeSlot"} => seen[t] # NULL
    /\ pc[t] \in {"takeSlot", "putSlot"} => idx[t] < CacheSize

(* What is on its way to the pool is empty already.                        *)
ReleasedClean == \A t \in Threads : pc[t] \in Releasing => held[t] \notin dirty

(* Only what somebody holds has content.                                   *)
DirtyHeld == \A o \in dirty : \E t \in Threads : held[t] = o

IInv ==
  /\ TypeOK
  /\ Bookkeeping
  /\ Exclusive
  /\ PooledOnce
  /\ PooledClean
  /\ ReleasedClean
  /\ DirtyHeld

------------------------------------------------------------------------------
(* The loops of _AcquireSlow and _ReleaseSlow advance within range.        *)
LEMMA IndexStep ==
  ASSUME NEW f \in [Threads -> 0 .. CacheSize], NEW t \in Threads,
         f[t] < CacheSize
  PROVE  [f EXCEPT ![t] = @ + 1] \in [Threads -> 0 .. CacheSize]
<1>1. f[t] + 1 \in 0 .. CacheSize
  BY CacheSizeAssumption
<1>2. QED
  BY <1>1

LEMMA InitIInv == Init => IInv
  BY CacheSizeAssumption
  DEF Init, IInv, TypeOK, Bookkeeping, Exclusive, PooledOnce, PooledClean,
      ReleasedClean, DirtyHeld, Holding, Releasing, Steps, Ref, Slot

(* Types alone. What is appended to is an object, because the thread holds *)
(* one; slots are accessed within range.                                   *)
LEMMA TypeStep ==
  ASSUME TypeOK, Bookkeeping, NEW t \in Threads,
         AcquireStep(t) \/ ReleaseStep(t) \/ UserStep(t)
  PROVE  TypeOK'
<1> USE CacheSizeAssumption, NullAssumption DEF TypeOK, Ref, Steps, Goto
<1>1. CASE ReadItem(t)
  BY <1>1 DEF ReadItem
<1>2. CASE TakeItem(t)
  BY <1>2 DEF TakeItem
<1>3. CASE TakeSlot(t)
  <2>1. idx' \in [Threads -> 0 .. CacheSize]
    BY <1>3, IndexStep DEF TakeSlot, Bookkeeping
  <2>2. held' \in [Threads -> Ref] /\ items' \in [Slot -> Ref]
    BY <1>3 DEF TakeSlot
  <2>3. QED
    BY <1>3, <2>1, <2>2 DEF TakeSlot
<1>4. CASE Build(t)
  BY <1>4 DEF Build
<1>5. CASE Append(t)
  BY <1>5 DEF Append, Bookkeeping, Holding
<1>6. CASE Forget(t)
  BY <1>6 DEF Forget
<1>7. CASE Clear(t)
  BY <1>7 DEF Clear
<1>8. CASE CheckItem(t)
  BY <1>8 DEF CheckItem
<1>9. CASE PutItem(t)
  BY <1>9 DEF PutItem
<1>10. CASE PutSlot(t)
  BY <1>10 DEF PutSlot, Bookkeeping, Slot
<1>11. CASE GiveUp(t)
  BY <1>11 DEF GiveUp
<1>12. CASE Scan(t)
  <2>1. idx' \in [Threads -> 0 .. CacheSize]
    BY <1>12, IndexStep DEF Scan
  <2>2. items[idx[t]] \in Ref
    BY <1>12 DEF Scan, Slot
  <2>3. seen' \in [Threads -> Ref]
    BY <1>12, <2>2 DEF Scan
  <2>4. pc' \in [Threads -> Steps]
    BY <1>12 DEF Scan
  <2>5. QED
    BY <1>12, <2>1, <2>3, <2>4 DEF Scan
<1>13. CASE Rescan(t)
  <2>1. idx' \in [Threads -> 0 .. CacheSize]
    BY <1>13, IndexStep DEF Rescan
  <2>2. pc' \in [Threads -> Steps]
    BY <1>13 DEF Rescan
  <2>3. QED
    BY <1>13, <2>1, <2>2 DEF Rescan
<1>14. QED
  BY <1>1, <1>2, <1>3, <1>4, <1>5, <1>6, <1>7,
     <1>8, <1>9, <1>10, <1>11, <1>12, <1>13
  DEF AcquireStep, ReleaseStep, UserStep

(* Acquire: a candidate is taken only while its slot still has it, so the  *)
(* object moves from one place of the pool into one thread's hands.        *)
LEMMA AcquireIInv ==
  ASSUME IInv, NEW t \in Threads, AcquireStep(t)
  PROVE  IInv'
<1> USE CacheSizeAssumption, NullAssumption DEF IInv
<1>1. CASE TakeItem(t)
  <2>1. TypeOK'
    BY TypeStep
  <2>2. Bookkeeping'
    BY <1>1 DEF TakeItem, Goto, TypeOK, Bookkeeping, Holding
  <2>3. Exclusive'
    BY <1>1 DEF TakeItem, TypeOK, Bookkeeping, Holding, Exclusive, PooledOnce
  <2>4. PooledOnce'
    BY <1>1 DEF TakeItem, TypeOK, Bookkeeping, Holding, Exclusive, PooledOnce
  <2>5. PooledClean'
    BY <1>1 DEF TakeItem, TypeOK, Bookkeeping, Holding, Exclusive, PooledClean, ReleasedClean, Releasing
  <2>6. ReleasedClean'
    BY <1>1 DEF TakeItem, Goto, TypeOK, Bookkeeping, Holding, Exclusive, ReleasedClean, Releasing
  <2>7. DirtyHeld'
    BY <1>1 DEF TakeItem, TypeOK, Bookkeeping, Holding, ReleasedClean, Releasing, DirtyHeld
  <2>8. QED
    BY <2>1, <2>2, <2>3, <2>4, <2>5, <2>6, <2>7
<1>2. CASE Scan(t)
  <2>1. TypeOK'
    BY TypeStep
  <2>2. Bookkeeping'
    BY <1>2 DEF Scan, Goto, TypeOK, Bookkeeping, Holding
  <2>3. Exclusive' /\ PooledOnce' /\ PooledClean' /\ DirtyHeld'
    BY <1>2 DEF Scan, Exclusive, PooledOnce, PooledClean, DirtyHeld
  <2>4. ReleasedClean'
    BY <1>2 DEF Scan, Goto, TypeOK, ReleasedClean, Releasing, Holding
  <2>5. QED
    BY <2>1, <2>2, <2>3, <2>4
<1>3. CASE TakeSlot(t)
  <2>1. TypeOK'
    BY TypeStep
  <2>2. Bookkeeping'
    BY <1>3 DEF TakeSlot, Goto, TypeOK, Bookkeeping, Holding
  <2>3. Exclusive'
    <3>1. CASE items[idx[t]] = seen[t]
      <4>1. idx[t] \in Slot /\ seen[t] # NULL
        BY <1>3 DEF TakeSlot, TypeOK, Bookkeeping, Slot
      <4>2. item' = item /\ items' = [items EXCEPT ![idx[t]] = NULL]
        BY <1>3, <3>1 DEF TakeSlot
      <4>3. item # seen[t] /\ \A i \in Slot : items'[i] # seen[t]
        BY <3>1, <4>1, <4>2 DEF TypeOK, PooledOnce
      <4>4. \A u \in Threads : held[u] # seen[t]
        BY <3>1, <4>1 DEF Exclusive
      <4>5. \A i \in Slot : items'[i] \in {items[i], NULL}
        BY <4>1, <4>2 DEF TypeOK
      <4>6. held' = [held EXCEPT ![t] = seen[t]]
        BY <1>3, <3>1 DEF TakeSlot
      <4>7. QED
        BY <4>2, <4>3, <4>4, <4>5, <4>6 DEF TypeOK, Exclusive
    <3>2. CASE items[idx[t]] # seen[t]
      BY <1>3, <3>2 DEF TakeSlot, Exclusive
    <3>3. QED
      BY <3>1, <3>2
  <2>4. PooledOnce'
    BY <1>3 DEF TakeSlot, TypeOK, Bookkeeping, Holding, Exclusive, PooledOnce
  <2>5. PooledClean'
    BY <1>3 DEF TakeSlot, TypeOK, Bookkeeping, Holding, Exclusive, PooledClean, ReleasedClean, Releasing
  <2>6. ReleasedClean'
    BY <1>3 DEF TakeSlot, Goto, TypeOK, Bookkeeping, Holding, Exclusive, ReleasedClean, Releasing
  <2>7. DirtyHeld'
    BY <1>3 DEF TakeSlot, TypeOK, Bookkeeping, Holding, ReleasedClean, Releasing, DirtyHeld
  <2>8. QED
    BY <2>1, <2>2, <2>3, <2>4, <2>5, <2>6, <2>7
<1>4. CASE Build(t)
  <2>1. TypeOK'
    BY TypeStep
  <2>2. Bookkeeping'
    BY <1>4 DEF Build, Goto, TypeOK, Bookkeeping, Holding
  <2>3. Exclusive'
    BY <1>4 DEF Build, Referenced, TypeOK, Exclusive
  <2>4. PooledOnce'
    BY <1>4 DEF Build, PooledOnce
  <2>5. PooledClean'
    BY <1>4 DEF Build, PooledClean
  <2>6. ReleasedClean'
    BY <1>4 DEF Build, Goto, TypeOK, ReleasedClean, Releasing, Holding
  <2>7. DirtyHeld'
    BY <1>4 DEF Build, Referenced, TypeOK, Bookkeeping, Holding, DirtyHeld
  <2>8. QED
    BY <2>1, <2>2, <2>3, <2>4, <2>5, <2>6, <2>7
<1>5. QED
  BY <1>1, <1>2, <1>3, <1>4 DEF AcquireStep

(* Release: what the thread holds becomes pooled in the step that ends its *)
(* hold on it.                                                             *)
LEMMA ReleaseIInv ==
  ASSUME IInv, NEW t \in Threads, ReleaseStep(t)
  PROVE  IInv'
<1> USE CacheSizeAssumption, NullAssumption DEF IInv
<1>1. CASE CheckItem(t)
  <2>1. TypeOK'
    BY TypeStep
  <2>2. Bookkeeping'
    BY <1>1 DEF CheckItem, Goto, TypeOK, Bookkeeping, Holding
  <2>3. Exclusive' /\ PooledOnce' /\ PooledClean' /\ DirtyHeld'
    BY <1>1 DEF CheckItem, Exclusive, PooledOnce, PooledClean, DirtyHeld
  <2>4. ReleasedClean'
    BY <1>1 DEF CheckItem, Goto, TypeOK, ReleasedClean, Releasing, Holding
  <2>5. QED
    BY <2>1, <2>2, <2>3, <2>4
<1>2. CASE PutItem(t)
  <2>1. TypeOK'
    BY TypeStep
  <2>2. Bookkeeping'
    BY <1>2 DEF PutItem, Goto, TypeOK, Bookkeeping, Holding
  <2>3. Exclusive'
    BY <1>2 DEF PutItem, TypeOK, Bookkeeping, Holding, Exclusive
  <2>4. PooledOnce'
    BY <1>2 DEF PutItem, TypeOK, Bookkeeping, Holding, Exclusive, PooledOnce
  <2>5. PooledClean'
    BY <1>2 DEF PutItem, TypeOK, Bookkeeping, Holding, Exclusive, PooledClean, ReleasedClean, Releasing
  <2>6. ReleasedClean'
    BY <1>2 DEF PutItem, Goto, TypeOK, Bookkeeping, Holding, Exclusive, ReleasedClean, Releasing
  <2>7. DirtyHeld'
    BY <1>2 DEF PutItem, TypeOK, Bookkeeping, Holding, ReleasedClean, Releasing, DirtyHeld
  <2>8. QED
    BY <2>1, <2>2, <2>3, <2>4, <2>5, <2>6, <2>7
<1>3. CASE Rescan(t)
  <2>1. TypeOK'
    BY TypeStep
  <2>2. Bookkeeping'
    BY <1>3 DEF Rescan, Goto, TypeOK, Bookkeeping, Holding
  <2>3. Exclusive' /\ PooledOnce' /\ PooledClean' /\ DirtyHeld'
    BY <1>3 DEF Rescan, Exclusive, PooledOnce, PooledClean, DirtyHeld
  <2>4. ReleasedClean'
    BY <1>3 DEF Rescan, Goto, TypeOK, ReleasedClean, Releasing, Holding
  <2>5. QED
    BY <2>1, <2>2, <2>3, <2>4
<1>4. CASE PutSlot(t)
  <2>1. TypeOK'
    BY TypeStep
  <2>2. Bookkeeping'
    BY <1>4 DEF PutSlot, Goto, TypeOK, Bookkeeping, Holding
  <2>3. Exclusive'
    BY <1>4 DEF PutSlot, TypeOK, Bookkeeping, Holding, Exclusive
  <2>4. PooledOnce'
    BY <1>4 DEF PutSlot, TypeOK, Bookkeeping, Holding, Exclusive, PooledOnce
  <2>5. PooledClean'
    BY <1>4 DEF PutSlot, TypeOK, Bookkeeping, Holding, Exclusive, PooledClean, ReleasedClean, Releasing
  <2>6. ReleasedClean'
    BY <1>4 DEF PutSlot, Goto, TypeOK, Bookkeeping, Holding, Exclusive, ReleasedClean, Releasing
  <2>7. DirtyHeld'
    BY <1>4 DEF PutSlot, TypeOK, Bookkeeping, Holding, ReleasedClean, Releasing, DirtyHeld
  <2>8. QED
    BY <2>1, <2>2, <2>3, <2>4, <2>5, <2>6, <2>7
<1>5. CASE GiveUp(t)
  <2>1. TypeOK'
    BY TypeStep
  <2>2. Bookkeeping'
    BY <1>5 DEF GiveUp, Goto, TypeOK, Bookkeeping, Holding
  <2>3. Exclusive'
    BY <1>5 DEF GiveUp, TypeOK, Bookkeeping, Holding, Exclusive
  <2>4. PooledOnce'
    BY <1>5 DEF GiveUp, TypeOK, Bookkeeping, Holding, Exclusive, PooledOnce
  <2>5. PooledClean'
    BY <1>5 DEF GiveUp, TypeOK, Bookkeeping, Holding, Exclusive, PooledClean, ReleasedClean, Releasing
  <2>6. ReleasedClean'
    BY <1>5 DEF GiveUp, Goto, TypeOK, Bookkeeping, Holding, Exclusive, ReleasedClean, Releasing
  <2>7. DirtyHeld'
    BY <1>5 DEF GiveUp, TypeOK, Bookkeeping, Holding, ReleasedClean, Releasing, DirtyHeld
  <2>8. QED
    BY <2>1, <2>2, <2>3, <2>4, <2>5, <2>6, <2>7
<1>6. QED
  BY <1>1, <1>2, <1>3, <1>4, <1>5 DEF ReleaseStep

(* The parsers touch only what they hold, which is in no slot.             *)
LEMMA UserIInv ==
  ASSUME IInv, NEW t \in Threads, UserStep(t)
  PROVE  IInv'
<1> USE CacheSizeAssumption, NullAssumption DEF IInv
<1>1. CASE ReadItem(t)
  <2>1. TypeOK'
    BY TypeStep
  <2>2. Bookkeeping'
    BY <1>1 DEF ReadItem, Goto, TypeOK, Bookkeeping, Holding
  <2>3. Exclusive' /\ PooledOnce' /\ PooledClean' /\ DirtyHeld'
    BY <1>1 DEF ReadItem, Exclusive, PooledOnce, PooledClean, DirtyHeld
  <2>4. ReleasedClean'
    BY <1>1 DEF ReadItem, Goto, TypeOK, ReleasedClean, Releasing, Holding
  <2>5. QED
    BY <2>1, <2>2, <2>3, <2>4
<1>2. CASE Append(t)
  <2>1. TypeOK'
    BY TypeStep
  <2>2. Bookkeeping'
    BY <1>2 DEF Append, Goto, TypeOK, Bookkeeping, Holding
  <2>3. Exclusive'
    BY <1>2 DEF Append, TypeOK, Bookkeeping, Holding, Exclusive
  <2>4. PooledOnce'
    BY <1>2 DEF Append, TypeOK, Bookkeeping, Holding, Exclusive, PooledOnce
  <2>5. PooledClean'
    BY <1>2 DEF Append, TypeOK, Bookkeeping, Holding, Exclusive, PooledClean, ReleasedClean, Releasing
  <2>6. ReleasedClean'
    BY <1>2 DEF Append, Goto, TypeOK, Bookkeeping, Holding, Exclusive, ReleasedClean, Releasing
  <2>7. DirtyHeld'
    BY <1>2 DEF Append, TypeOK, Bookkeeping, Holding, ReleasedClean, Releasing, DirtyHeld
  <2>8. QED
    BY <2>1, <2>2, <2>3, <2>4, <2>5, <2>6, <2>7
<1>3. CASE Forget(t)
  <2>1. TypeOK'
    BY TypeStep
  <2>2. Bookkeeping'
    BY <1>3 DEF Forget, Goto, TypeOK, Bookkeeping, Holding
  <2>3. Exclusive'
    BY <1>3 DEF Forget, TypeOK, Bookkeeping, Holding, Exclusive
  <2>4. PooledOnce'
    BY <1>3 DEF Forget, TypeOK, Bookkeeping, Holding, Exclusive, PooledOnce
  <2>5. PooledClean'
    BY <1>3 DEF Forget, TypeOK, Bookkeeping, Holding, Exclusive, PooledClean, ReleasedClean, Releasing
  <2>6. ReleasedClean'
    BY <1>3 DEF Forget, Goto, TypeOK, Bookkeeping, Holding, Exclusive, ReleasedClean, Releasing
  <2>7. DirtyHeld'
    BY <1>3 DEF Forget, TypeOK, Bookkeeping, Holding, ReleasedClean, Releasing, DirtyHeld
  <2>8. QED
    BY <2>1, <2>2, <2>3, <2>4, <2>5, <2>6, <2>7
<1>4. CASE Clear(t)
  <2>1. TypeOK'
    BY TypeStep
  <2>2. Bookkeeping'
    BY <1>4 DEF Clear, Goto, TypeOK, Bookkeeping, Holding
  <2>3. Exclusive'
    BY <1>4 DEF Clear, TypeOK, Bookkeeping, Holding, Exclusive
  <2>4. PooledOnce'
    BY <1>4 DEF Clear, TypeOK, Bookkeeping, Holding, Exclusive, PooledOnce
  <2>5. PooledClean'
    BY <1>4 DEF Clear, TypeOK, Bookkeeping, Holding, Exclusive, PooledClean, ReleasedClean, Releasing
  <2>6. ReleasedClean'
    BY <1>4 DEF Clear, Goto, TypeOK, Bookkeeping, Holding, Exclusive, ReleasedClean, Releasing
  <2>7. DirtyHeld'
    BY <1>4 DEF Clear, TypeOK, Bookkeeping, Holding, ReleasedClean, Releasing, DirtyHeld
  <2>8. QED
    BY <2>1, <2>2, <2>3, <2>4, <2>5, <2>6, <2>7
<1>5. QED
  BY <1>1, <1>2, <1>3, <1>4 DEF UserStep

LEMMA StepIInv == IInv /\ [Next]_vars => IInv'
<1> SUFFICES ASSUME IInv, [Next]_vars PROVE IInv'
  OBVIOUS
<1>1. CASE Next
  BY <1>1, AcquireIInv, ReleaseIInv, UserIInv DEF Next
<1>2. CASE UNCHANGED vars
  BY <1>2 DEF vars, IInv, TypeOK, Bookkeeping, Exclusive, PooledOnce,
              PooledClean, ReleasedClean, DirtyHeld
<1>3. QED
  BY <1>1, <1>2

(* The strengthened invariant holds throughout.                            *)
THEOREM Invariance == Spec => []IInv
<1>1. QED
  BY InitIInv, StepIInv, PTL DEF Spec

(* The variables of Acquire and Release keep their types: in particular no *)
(* slot is accessed out of range.                                          *)
THEOREM TypeCorrect == Spec => []TypeOK
<1>1. IInv => TypeOK
  BY DEF IInv
<1>2. QED
  BY <1>1, Invariance, PTL

(* Two parsers never work in the same StringBuilder or buffer, whatever    *)
(* the number of threads and of slots.                                     *)
THEOREM ExclusiveUse == Spec => []Exclusive
<1>1. IInv => Exclusive
  BY DEF IInv
<1>2. QED
  BY <1>1, Invariance, PTL

(* What is pooled is pooled once, and empty.                               *)
THEOREM PoolCorrect == Spec => []PoolSound
<1>1. IInv => PoolSound
  BY DEF IInv, PoolSound
<1>2. QED
  BY <1>1, Invariance, PTL

------------------------------------------------------------------------------
(* Each step of the cache is a step of the pool, or leaves the pool as it  *)
(* is: acquiring is Borrow, clearing and appending are Write, storing or   *)
(* dropping is GiveBack.                                                   *)
LEMMA AcquireRefines ==
  ASSUME IInv, NEW t \in Threads, AcquireStep(t)
  PROVE  Pool!Borrow(t) \/ UNCHANGED Pool!poolVars
<1> USE CacheSizeAssumption, NullAssumption DEF IInv
<1>1. CASE TakeItem(t) /\ item = seen[t]
  <2>1. /\ item \in Objects
        /\ item \notin dirty
        /\ held[t] = NULL
        /\ \A u \in Threads : held[u] # item
    BY <1>1 DEF TakeItem, TypeOK, Ref, Bookkeeping, Holding, Exclusive, PooledClean
  <2>2. PooledObjects' = PooledObjects \ {item}
    BY <1>1, <2>1 DEF TakeItem, PooledObjects, PooledOnce
  <2>3. held' = [held EXCEPT ![t] = item] /\ dirty' = dirty
    BY <1>1 DEF TakeItem
  <2>4. QED
    BY <2>1, <2>2, <2>3 DEF Pool!Borrow
<1>2. CASE TakeItem(t) /\ item # seen[t]
  BY <1>2 DEF TakeItem, Pool!poolVars, PooledObjects
<1>3. CASE Scan(t)
  BY <1>3 DEF Scan, Pool!poolVars, PooledObjects
<1>4. CASE TakeSlot(t) /\ items[idx[t]] = seen[t]
  <2> DEFINE o == items[idx[t]]
  <2>1. idx[t] \in Slot
    BY <1>4 DEF TakeSlot, TypeOK, Bookkeeping, Slot
  <2>2. /\ o \in Objects
        /\ o \notin dirty
        /\ held[t] = NULL
        /\ \A u \in Threads : held[u] # o
    BY <1>4, <2>1 DEF TakeSlot, TypeOK, Ref, Bookkeeping, Holding, Exclusive, PooledClean
  <2>3. item' = item /\ items' = [items EXCEPT ![idx[t]] = NULL]
    BY <1>4 DEF TakeSlot
  <2>4. items \in [Slot -> Ref] /\ o # NULL
    BY <2>2 DEF TypeOK
  <2>5. PooledObjects' = PooledObjects \ {o}
    BY <2>1, <2>3, <2>4 DEF PooledObjects, PooledOnce
  <2>6. held' = [held EXCEPT ![t] = o] /\ dirty' = dirty
    BY <1>4 DEF TakeSlot
  <2>7. QED
    BY <2>2, <2>5, <2>6 DEF Pool!Borrow
<1>5. CASE TakeSlot(t) /\ items[idx[t]] # seen[t]
  BY <1>5 DEF TakeSlot, Pool!poolVars, PooledObjects
<1>6. CASE Build(t)
  <2>1. PICK o \in Objects \ Referenced :
               held' = [held EXCEPT ![t] = o] /\ dirty' = dirty \ {o}
    BY <1>6 DEF Build
  <2>2. PooledObjects' = PooledObjects /\ PooledObjects \ {o} = PooledObjects
    BY <1>6, <2>1 DEF Build, PooledObjects, Referenced
  <2>3. held[t] = NULL /\ o \in Objects \ {held[u] : u \in Threads}
    BY <1>6, <2>1 DEF Build, Bookkeeping, Holding, Referenced
  <2>4. o \notin dirty
    BY <2>1, <2>3 DEF DirtyHeld
  <2>5. QED
    BY <2>1, <2>2, <2>3, <2>4 DEF Pool!Borrow
<1>7. QED
  BY <1>1, <1>2, <1>3, <1>4, <1>5, <1>6 DEF AcquireStep

LEMMA ReleaseRefines ==
  ASSUME IInv, NEW t \in Threads, ReleaseStep(t)
  PROVE  Pool!GiveBack(t) \/ UNCHANGED Pool!poolVars
<1> USE CacheSizeAssumption, NullAssumption DEF IInv
<1>1. CASE CheckItem(t) \/ Rescan(t)
  BY <1>1 DEF CheckItem, Rescan, Pool!poolVars, PooledObjects
<1>2. CASE PutItem(t)
  <2>1. held[t] # NULL /\ held[t] \notin dirty
    BY <1>2 DEF PutItem, Bookkeeping, Holding, ReleasedClean, Releasing
  <2>2. PooledObjects' \subseteq PooledObjects \cup {held[t]}
    BY <1>2 DEF PutItem, PooledObjects
  <2>3. QED
    BY <1>2, <2>1, <2>2 DEF PutItem, Pool!GiveBack
<1>3. CASE PutSlot(t)
  <2>1. held[t] # NULL /\ held[t] \notin dirty
    BY <1>3 DEF PutSlot, Bookkeeping, Holding, ReleasedClean, Releasing
  <2>2. PooledObjects' \subseteq PooledObjects \cup {held[t]}
    BY <1>3 DEF PutSlot, PooledObjects, TypeOK
  <2>3. QED
    BY <1>3, <2>1, <2>2 DEF PutSlot, Pool!GiveBack
<1>4. CASE GiveUp(t)
  <2>1. held[t] # NULL /\ held[t] \notin dirty
    BY <1>4 DEF GiveUp, Bookkeeping, Holding, ReleasedClean, Releasing
  <2>2. PooledObjects' = PooledObjects
    BY <1>4 DEF GiveUp, PooledObjects
  <2>3. QED
    BY <1>4, <2>1, <2>2 DEF GiveUp, Pool!GiveBack
<1>5. QED
  BY <1>1, <1>2, <1>3, <1>4 DEF ReleaseStep

LEMMA UserRefines ==
  ASSUME IInv, NEW t \in Threads, UserStep(t)
  PROVE  Pool!GiveBack(t) \/ Pool!Write(t) \/ UNCHANGED Pool!poolVars
<1> USE DEF IInv, PooledObjects
<1>1. CASE ReadItem(t)
  BY <1>1 DEF ReadItem, Pool!poolVars
<1>2. CASE Append(t) \/ Clear(t)
  BY <1>2 DEF Append, Clear, Bookkeeping, Holding, Pool!Write
<1>3. CASE Forget(t)
  BY <1>3 DEF Forget, Bookkeeping, Holding, Pool!GiveBack
<1>4. QED
  BY <1>1, <1>2, <1>3 DEF UserStep

(* ObjectCache keeps the promise of ExclusivePool.                         *)
THEOREM Refinement == Spec => ImplementsPool
<1>1. Init => Pool!PoolInit
  BY DEF Init, Pool!PoolInit, PooledObjects, Slot
<1>2. IInv /\ [Next]_vars => [Pool!PoolNext]_Pool!poolVars
  <2> SUFFICES ASSUME IInv, [Next]_vars
               PROVE  [Pool!PoolNext]_Pool!poolVars
    OBVIOUS
  <2>1. CASE Next
    BY <2>1, AcquireRefines, ReleaseRefines, UserRefines DEF Next, Pool!PoolNext
  <2>2. CASE UNCHANGED vars
    BY <2>2 DEF vars, Pool!poolVars, PooledObjects
  <2>3. QED
    BY <2>1, <2>2
<1>3. QED
  BY <1>1, <1>2, Invariance, PTL DEF Spec, ImplementsPool, Pool!PoolSpec
==============================================================================
