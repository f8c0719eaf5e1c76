-------------------------- MODULE MCFIFOAgeEviction --------------------------
(***************************************************************************)
(* The two FIFO policies on a small instance: a time to live that runs out *)
(* between two requests, and one that never does.                          *)
(***************************************************************************)
EXTENDS FIFOAgeEviction

MCCapacity == 4
MCSizes == {1, 3, MCCapacity + 1}
MCMaxTime == 2
MCTTLs == {1, MCMaxTime + 1}
==============================================================================
