--------------------------- MODULE MCS4LRUEviction ---------------------------
(***************************************************************************)
(* S4LRUEviction on a small instance: three queues, so that there is one   *)
(* between the lowest and the top, each of the size of three of the        *)
(* smallest objects (the division leaves a remainder); one size fills a    *)
(* queue, one fits in the cache but in no queue.                           *)
(***************************************************************************)
EXTENDS S4LRUEviction

MCQueueCount == 3
MCCapacity == 10
MCSizes == {1, 2, 3, 4}
==============================================================================
