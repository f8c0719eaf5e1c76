---------------------------- MODULE MCLRUEviction ----------------------------
(***************************************************************************)
(* LRUEviction on a small instance.  The sizes are the interesting ones:   *)
(* several objects fit, one fills more than the 80% an hourly purge leaves, *)
(* one is larger than the whole cache.                                     *)
(***************************************************************************)
EXTENDS LRUEviction

MCCapacity == 4
MCSizes == {1, 2, MCCapacity, MCCapacity + 1}
==============================================================================
