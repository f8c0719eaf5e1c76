------------------------------ MODULE LRUEviction ------------------------------
(***************************************************************************)
(* lib/lru_eviction.cc: the least-recently-used eviction policy.           *)
(*                                                                         *)
(* The caller (Cache) always asks check first, then calls get for a        *)
(* resident key and put for an absent one, so both assert(0) branches are  *)
(* guards here.  The two purge loops run one iteration per step; `loop` is *)
(* the program counter of the single thread.  A purge loop that finds the  *)
(* list empty spins for ever in the code (purge_regular returns false and  *)
(* the loop ignores it): here nothing is enabled in that state.            *)
(***************************************************************************)
EXTENDS EntryList, Functions

CONSTANTS Keys,      \* cache keys
          Sizes,     \* object sizes, in bytes
          Capacity,  \* total_capacity
          MaxTime    \* bound on the timestamps of the log

ASSUME LRUAssumption ==
  /\ Sizes \subseteq Nat
  /\ Capacity \in Nat
  /\ MaxTime \in Nat

VARIABLES
  list,               \* keys from head->next to tail->prev
  mapping,            \* _mapping: resident key -> [data, timestamp]
  current_size,
  cache_item_count,
  cache_filled_once,
  loop,               \* "idle", or the purge loop being run: "put", "hourly"
  now                 \* timestamp of the last line of the log

vars == <<list, mapping, current_size, cache_item_count, cache_filled_once,
          loop, now>>

Entries == [data : Sizes, timestamp : 0..MaxTime]
Loops == {"idle", "put", "hourly"}

TypeOK ==
  /\ list \in Seq(Keys)
  /\ DOMAIN mapping \subseteq Keys
  /\ mapping \in [DOMAIN mapping -> Entries]
  /\ current_size \in Nat
  /\ cache_item_count \in Nat
  /\ cache_filled_once \in BOOLEAN
  /\ loop \in Loops
  /\ now \in 0..MaxTime

Init ==
  /\ list = <<>>
  /\ mapping = [k \in {} |-> 0]
  /\ current_size = 0
  /\ cache_item_count = 0
  /\ cache_filled_once = FALSE
  /\ loop = "idle"
  /\ now = 0

\* The log is replayed in file order and its lines are sorted by time.
Advance(ts) ==
  /\ ts >= now
  /\ now' = ts

-------------------------------------------------------------------------------
(* Faulty variants of the operations below: each is a slip this code could  *)
(* have, and the runs show that some property catches it.                   *)

\* get that does not move the node to the head: the order of a FIFO.
GetInPlace(k, ts) ==
  /\ loop = "idle"
  /\ k \in DOMAIN mapping
  /\ Advance(ts)
  /\ mapping' = [mapping EXCEPT ![k].timestamp = ts]
  /\ UNCHANGED <<list, current_size, cache_item_count, cache_filled_once, loop>>

\* get that attaches the node without detaching it.
GetLinkedTwice(k, ts) ==
  /\ loop = "idle"
  /\ k \in DOMAIN mapping
  /\ Advance(ts)
  /\ list' = Attach(list, k)
  /\ mapping' = [mapping EXCEPT ![k].timestamp = ts]
  /\ UNCHANGED <<current_size, cache_item_count, cache_filled_once, loop>>

\* The put loop runs once too often at the boundary.
OverTargetAtCapacity ==
  \/ loop = "put" /\ current_size >= Capacity
  \/ loop = "hourly" /\ 5 * current_size > 4 * Capacity

\* hourly_purging stops at the capacity instead of 80% of it.
OverTargetHourlyAtCapacity == loop # "idle" /\ current_size > Capacity

\* "Switch 1 of 2" at MRU: the head goes.
PurgeHead ==
  /\ list # <<>>
  /\ list' = Tail(list)
  /\ mapping' = Restrict(mapping, DOMAIN mapping \ {Head(list)})
  /\ current_size' = current_size - mapping[Head(list)].data
  /\ cache_item_count' = cache_item_count - 1

\* The deletion of a node that frees n times its bytes: detach and the purge
\* both subtract them, or neither does.
EraseFreeing(key, n) ==
  /\ list' = Detach(list, key)
  /\ mapping' = Restrict(mapping, DOMAIN mapping \ {key})
  /\ current_size' = current_size - n * mapping[key].data
  /\ cache_item_count' = cache_item_count - 1

EraseFreeingTwice(key) == EraseFreeing(key, 2)
EraseFreeingNothing(key) == EraseFreeing(key, 0)

\* `if` in place of `while`.
LoopExitEarly ==
  /\ loop # "idle"
  /\ loop' = "idle"
  /\ UNCHANGED <<list, mapping, current_size, cache_item_count,
                 cache_filled_once, now>>

-------------------------------------------------------------------------------
(* Operations *)

Get(k, ts) ==
  /\ loop = "idle"
  /\ k \in DOMAIN mapping
  /\ Advance(ts)
  /\ list' = Attach(Detach(list, k), k)
  /\ mapping' = [mapping EXCEPT ![k].timestamp = ts]
  /\ UNCHANGED <<current_size, cache_item_count, cache_filled_once, loop>>

\* put up to its purge loop.
Put(k, d, ts) ==
  /\ loop = "idle"
  /\ k \notin DOMAIN mapping
  /\ Advance(ts)
  /\ list' = Attach(list, k)
  /\ mapping' = [x \in DOMAIN mapping \cup {k} |->
                   IF x = k THEN [data |-> d, timestamp |-> ts] ELSE mapping[x]]
  /\ current_size' = current_size + d
  /\ cache_item_count' = cache_item_count + 1
  /\ loop' = "put"
  /\ UNCHANGED cache_filled_once

\* hourly_purging up to its purge loop.
HourlyPurging(ts) ==
  /\ loop = "idle"
  /\ Advance(ts)
  /\ cache_filled_once' = (cache_filled_once \/ current_size > Capacity)
  /\ loop' = "hourly"
  /\ UNCHANGED <<list, mapping, current_size, cache_item_count>>

\* The conditions of the two loops: current_size > total_capacity, and
\* current_size > total_capacity * .80.
OverTarget ==
  \/ loop = "put" /\ current_size > Capacity
  \/ loop = "hourly" /\ 5 * current_size > 4 * Capacity

\* A node leaves the list, the hash map and the counts.
Erase(key) ==
  /\ list' = Detach(list, key)
  /\ mapping' = Restrict(mapping, DOMAIN mapping \ {key})
  /\ current_size' = current_size - mapping[key].data
  /\ cache_item_count' = cache_item_count - 1

\* purge_regular on a list that is not empty: tail->prev goes.
PurgeRegular ==
  /\ list # <<>>
  /\ Erase(Last(list))

LoopBody ==
  /\ OverTarget
  /\ PurgeRegular
  /\ UNCHANGED <<cache_filled_once, loop, now>>

LoopExit ==
  /\ loop # "idle"
  /\ ~OverTarget
  /\ loop' = "idle"
  /\ UNCHANGED <<list, mapping, current_size, cache_item_count,
                 cache_filled_once, now>>

Work == LoopBody \/ LoopExit

Next ==
  \/ \E k \in Keys, ts \in 0..MaxTime : Get(k, ts)
  \/ \E k \in Keys, d \in Sizes, ts \in 0..MaxTime : Put(k, d, ts)
  \/ \E ts \in 0..MaxTime : HourlyPurging(ts)
  \/ Work

\* The loops wait for nothing: a started operation keeps taking steps.
Spec == Init /\ [][Next]_vars /\ WF_vars(Work)

-------------------------------------------------------------------------------
(* Safety *)

DataOf == [k \in DOMAIN mapping |-> mapping[k].data]

\* The list, the hash map, the byte count and the item count tell the same
\* story: purging by the list empties the map of the same keys, and the
\* loops, which test current_size alone, run out of bytes exactly when they
\* run out of nodes.
Consistent ==
  /\ Unrepeated(list)
  /\ Range(list) = DOMAIN mapping
  /\ cache_item_count = Len(list)
  /\ SumsTo(list, DataOf, current_size)

\* No purge loop is left spinning on an empty list (proved from Consistent).
NeverSpins == OverTarget => list # <<>>

\* Between operations the capacity holds, whatever the sizes put, so the
\* test at the head of hourly_purging never finds the cache overfull: the
\* flag that would switch on the purging of junk is dead.
FitsAtRest ==
  /\ loop = "idle" => current_size <= Capacity
  /\ ~cache_filled_once

\* The two together with the types: what every other property rests on.
WellFormed == TypeOK /\ Consistent /\ FitsAtRest

\* The list is in the order of last use: from head to tail the timestamps
\* do not increase, so the age periodic_output reports from tail->prev is
\* the age of the oldest object.
OldestAtTail ==
  \A i, j \in 1..Len(list) :
    i <= j => mapping[list[i]].timestamp >= mapping[list[j]].timestamp

\* An object leaves the cache only when none of those that stay was
\* requested before it.
EvictsLeastRecent ==
  [][\A k \in DOMAIN mapping \ DOMAIN mapping', j \in DOMAIN mapping' :
        mapping[k].timestamp <= mapping[j].timestamp]_vars

\* The object being put is purged by its own put only if it could never
\* fit: no admitted object of a legal size is lost on arrival.
LostOnArrivalOnlyIfTooLarge ==
  [][\A k \in DOMAIN mapping \ DOMAIN mapping' :
        loop = "put" /\ k = Head(list) => mapping[k].data > Capacity]_vars

-------------------------------------------------------------------------------
(* Liveness and refinement *)

Store == INSTANCE EvictionStore WITH
           store <- DataOf, used <- current_size, busy <- loop

\* The policy is an eviction store: it keeps sizes, evicts only over target,
\* and every put and every hourly purge returns.
ImplementsStore == Store!Spec
==============================================================================
