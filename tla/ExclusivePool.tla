---------------------------- MODULE ExclusivePool ----------------------------
(***************************************************************************)
(* What the object caches of Manatee.Json promise their users: a borrower  *)
(* gets an object nobody else has, empty, and may give it back; a pooled   *)
(* object may be lost (it is then collected), never shared.                *)
(***************************************************************************)
CONSTANTS
  Threads,  (* the threads that parse                                      *)
  Objects,  (* the objects a builder can make                              *)
  NULL      (* no object                                                   *)

VARIABLES
  free,     (* the pooled objects                                          *)
  lent,     (* the object each thread has borrowed, or NULL                *)
  dirty     (* the objects with content                                    *)

poolVars == <<free, lent, dirty>>

PoolInit ==
  /\ free = {}
  /\ lent = [t \in Threads |-> NULL]
  /\ dirty = {}

(* The borrowed object is a pooled one or a new one; never a lent one. It  *)
(* is empty when the borrower gets it.                                     *)
Borrow(t) ==
  /\ lent[t] = NULL
  /\ \E o \in Objects \ {lent[u] : u \in Threads} :
       /\ lent' = [lent EXCEPT ![t] = o]
       /\ free' = free \ {o}
       /\ o \notin dirty
  /\ dirty' = dirty

(* Only the borrower writes to the object, or empties it.                  *)
Write(t) ==
  /\ lent[t] # NULL
  /\ dirty' \in {dirty \cup {lent[t]}, dirty \ {lent[t]}}
  /\ UNCHANGED <<free, lent>>

(* The object goes back to the pool empty, possibly in the place of        *)
(* others, or is forgotten; a forgotten object is collected.               *)
GiveBack(t) ==
  /\ lent[t] # NULL
  /\ lent' = [lent EXCEPT ![t] = NULL]
  /\ \/ /\ lent[t] \notin dirty
        /\ free' \subseteq free \cup {lent[t]}
        /\ dirty' = dirty
     \/ /\ free' = free
        /\ dirty' = dirty \ {lent[t]}

PoolNext == \E t \in Threads : Borrow(t) \/ Write(t) \/ GiveBack(t)

PoolSpec == PoolInit /\ [][PoolNext]_poolVars
==============================================================================
