----------------------------- MODULE EvictionStore -----------------------------
(***************************************************************************)
(* What every capacity-bounded eviction policy of the emulator promises to *)
(* the cache layer above it (CacheEviction in include/cache_policy.h),     *)
(* with no order of eviction: an object stays, with the size it was put    *)
(* with, until it is evicted, and only while the bytes held exceed the     *)
(* target of the operation under way; the operation ends once they do not. *)
(***************************************************************************)
EXTENDS Integers, Functions

CONSTANTS Keys,      \* cache keys
          Sizes,     \* object sizes, in bytes
          Capacity   \* total_capacity

VARIABLES store,     \* resident key -> bytes it was put with
          used,      \* bytes held
          busy       \* the operation under way: "idle", "put" or "hourly"

vars == <<store, used, busy>>

Init ==
  /\ store = [k \in {} |-> 0]
  /\ used = 0
  /\ busy = "idle"

\* put: down to the capacity; hourly_purging: down to 80% of it.
OverTarget ==
  \/ busy = "put" /\ used > Capacity
  \/ busy = "hourly" /\ 5 * used > 4 * Capacity

Put(k, d) ==
  /\ busy = "idle"
  /\ k \notin DOMAIN store
  /\ store' = [x \in DOMAIN store \cup {k} |-> IF x = k THEN d ELSE store[x]]
  /\ used' = used + d
  /\ busy' = "put"

HourlyPurging ==
  /\ busy = "idle"
  /\ busy' = "hourly"
  /\ UNCHANGED <<store, used>>

Evict(k) ==
  /\ OverTarget
  /\ k \in DOMAIN store
  /\ store' = Restrict(store, DOMAIN store \ {k})
  /\ used' = used - store[k]
  /\ UNCHANGED busy

Return ==
  /\ busy # "idle"
  /\ ~OverTarget
  /\ busy' = "idle"
  /\ UNCHANGED <<store, used>>

Work == Return \/ \E k \in Keys : Evict(k)

Next ==
  \/ \E k \in Keys, d \in Sizes : Put(k, d)
  \/ HourlyPurging
  \/ Work

\* An operation that has started is carried through: the program is one
\* thread and the loops of put and hourly_purging wait for nothing.
Spec == Init /\ [][Next]_vars /\ WF_vars(Work)
==============================================================================
