---------------------------- MODULE SizeLRUEviction ----------------------------
(***************************************************************************)
(* lib/size_lru_eviction.cc: of the X least recently used objects, the     *)
(* largest goes.  get and put, and hourly_purging up to its loop, are      *)
(* those of the LRU policy, on whose state this is built; a purge walks a  *)
(* window of X nodes up the list, from the tail towards the head.          *)
(*                                                                         *)
(* `cursor` is where `node` points, as the position in `list`, 0 being the *)
(* head sentinel.  The multimap size_based_purge_list always holds exactly *)
(* the linked nodes from `node` to the tail, so it is not kept apart.      *)
(* When the node it points to is deleted, `node->prev` reads freed memory: *)
(* nothing was allocated since, so it still is the neighbour towards the   *)
(* head, whose position is cursor - 1.  Past the sentinel the code follows *)
(* a null pointer: here nothing is enabled in that state.                  *)
(***************************************************************************)
EXTENDS LRUEviction, FiniteSets

CONSTANT LRU_list_size     \* X, as configured

ASSUME SizeLRUAssumption == LRU_list_size \in Nat

VARIABLES
  purge_size_based_limit,   \* X, as purges have reduced it
  purging,                  \* inside purge_size_based_multimap
  cursor,                   \* its `node`; 0 outside
  total_items_purged        \* its count of deletions; 0 outside

purgeVars == <<purge_size_based_limit, purging, cursor, total_items_purged>>
SizeVars == <<vars, purgeVars>>

SizeTypeOK ==
  /\ TypeOK
  /\ purge_size_based_limit \in 0..LRU_list_size
  /\ purging \in BOOLEAN
  /\ cursor \in 0..Len(list)
  /\ total_items_purged \in Nat

SizeInit ==
  /\ Init
  /\ purge_size_based_limit = LRU_list_size
  /\ purging = FALSE
  /\ cursor = 0
  /\ total_items_purged = 0

\* The window of the purge: the positions of the nodes in the multimap.
Window == cursor..Len(list)

-------------------------------------------------------------------------------
(* Faulty variants of the operations below *)

\* The list is not compared with the number of objects there are.
ReducedLimitNever == purge_size_based_limit

\* The first of the multimap instead of the last: the smallest goes.
VictimSmallest ==
  CHOOSE i \in Window :
    /\ \A j \in Window : mapping[list[i]].data <= mapping[list[j]].data
    /\ \A j \in Window : mapping[list[j]].data = mapping[list[i]].data => i <= j

\* An object too many goes when the cache is exactly full.
OverCapacityAtLimit == current_size >= Capacity

-------------------------------------------------------------------------------
(* get, put and hourly_purging *)

SizeGet(k, ts) == Get(k, ts) /\ UNCHANGED purgeVars

SizePut(k, d, ts) == Put(k, d, ts) /\ UNCHANGED purgeVars

\* The removal of junk, which needs cache_filled_once, is left out:
\* FitsAtRest says that it never runs.
SizeHourlyPurging(ts) == HourlyPurging(ts) /\ UNCHANGED purgeVars

\* The two loops around the purge have the conditions of those of LRU.
SizeLoopExit ==
  /\ ~purging
  /\ LoopExit
  /\ UNCHANGED purgeVars

-------------------------------------------------------------------------------
(* purge_size_based_multimap *)

\* A list that is longer than the cache is reduced, for good.
ReducedLimit ==
  IF cache_item_count < purge_size_based_limit THEN cache_item_count \div 2
                                               ELSE purge_size_based_limit

\* The first window: X nodes, and one if X is 0.
PurgeStart ==
  /\ OverTarget
  /\ ~purging
  /\ list # <<>>
  /\ purging' = TRUE
  /\ purge_size_based_limit' = ReducedLimit
  /\ cursor' = IF ReducedLimit = 0 THEN Len(list) ELSE Len(list) + 1 - ReducedLimit
  /\ UNCHANGED <<vars, total_items_purged>>

\* The condition of the loop of the purge itself.
OverCapacity == current_size > Capacity

\* The last of the multimap: the largest of the window and, of several, the
\* one inserted last.
Victim ==
  CHOOSE i \in Window :
    /\ \A j \in Window : mapping[list[i]].data >= mapping[list[j]].data
    /\ \A j \in Window : mapping[list[j]].data = mapping[list[i]].data => i <= j

\* An iteration: the window loses the victim and takes in the next node,
\* the sentinel at the end.  A window of one ends the purge.
PurgeDelete ==
  /\ purging
  /\ OverCapacity
  /\ cursor > 0
  /\ Erase(list[Victim])
  /\ purging' = (Cardinality(Window) > 1)
  /\ IF purging' THEN cursor' = cursor - 1 /\ total_items_purged' = total_items_purged + 1
                 ELSE cursor' = 0 /\ total_items_purged' = 0
  /\ UNCHANGED <<cache_filled_once, purge_size_based_limit, loop, now>>

PurgeEnd ==
  /\ purging
  /\ ~OverCapacity
  /\ purging' = FALSE
  /\ cursor' = 0
  /\ total_items_purged' = 0
  /\ UNCHANGED <<vars, purge_size_based_limit>>

SizeWork == PurgeStart \/ PurgeDelete \/ PurgeEnd \/ SizeLoopExit

SizeNext ==
  \/ \E k \in Keys, ts \in 0..MaxTime : SizeGet(k, ts)
  \/ \E k \in Keys, d \in Sizes, ts \in 0..MaxTime : SizePut(k, d, ts)
  \/ \E ts \in 0..MaxTime : SizeHourlyPurging(ts)
  \/ SizeWork

\* The loops wait for nothing: a started operation keeps taking steps.
SizeSpec == SizeInit /\ [][SizeNext]_SizeVars /\ WF_SizeVars(SizeWork)

-------------------------------------------------------------------------------
(* Properties *)

\* The walk never goes on from the head sentinel, whose data, customer and
\* neighbour are not those of an object: by the time the window takes it in,
\* enough was deleted.
StopsAtTheHead == purging /\ OverCapacity => cursor > 0

\* The list, the hash map, the byte count and the item count, which decides
\* how far the window reaches, agree at every step of a purge; between
\* operations the capacity holds, so hourly_purging, which looks for an
\* overfull cache before it removes junk, never finds one; and the state is
\* well typed.
SizeWellFormed == SizeTypeOK /\ Consistent /\ FitsAtRest

\* README: "during each purge, the largest sized item from a list of X least
\* recently used items is deleted".  Of the objects that stay, fewer than X
\* were used before the deleted one, and none of those is larger.
EvictsLargestOfOldest ==
  [][\A k \in DOMAIN mapping \ DOMAIN mapping' :
       LET older == {j \in DOMAIN mapping' : mapping[j].timestamp < mapping[k].timestamp}
       IN /\ older = {} \/ Cardinality(older) < LRU_list_size
          /\ \A j \in older : mapping[j].data <= mapping[k].data]_SizeVars

\* The same sentence: no purge ends without a deletion.
EachPurgeDeletes ==
  [][purging /\ ~purging' => total_items_purged > 0 \/ current_size' < current_size]_SizeVars

\* Every put returns.
PutsReturn == (loop = "put") ~> (loop = "idle")

\* The safety part of an eviction store: sizes are kept, and an object leaves
\* only while the operation under way is over its target.
SizeImplementsStore == Store!Init /\ [][Store!Next]_(Store!vars)
==============================================================================
