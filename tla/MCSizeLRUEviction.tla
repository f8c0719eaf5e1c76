-------------------------- MODULE MCSizeLRUEviction --------------------------
(***************************************************************************)
(* SizeLRUEviction on a small instance: a window of two, so that a purge   *)
(* slides it up the list, in a cache of up to four objects; one size fills *)
(* the cache and one is larger than it.                                    *)
(***************************************************************************)
EXTENDS SizeLRUEviction

MCCapacity == 4
MCSizes == {1, 2, MCCapacity, MCCapacity + 1}
==============================================================================
