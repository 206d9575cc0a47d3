---- MODULE MCObjectCache ----
(* Three threads over the fast slot and one further slot, so that a cache  *)
(* may be full when a third object is released.                            *)
EXTENDS ObjectCache
==============================
