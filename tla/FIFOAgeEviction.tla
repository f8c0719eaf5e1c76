---------------------------- MODULE FIFOAgeEviction ----------------------------
(***************************************************************************)
(* lib/fifo_age_eviction.cc: first in, first out, with a time to live.     *)
(* check itself deletes an object that was not requested for longer than   *)
(* ttl and reports a miss; the rest is the FIFO policy.  A ttl beyond the  *)
(* end of the log makes it that policy, lib/fifo_eviction.cc.              *)
(***************************************************************************)
EXTENDS FIFOEviction

CONSTANT TTLs    \* the values of ttl a cache may be built with

ASSUME FIFOAgeAssumption == TTLs \subseteq Nat

VARIABLE ttl     \* fixed when the cache is built

ageVars == <<FIFOVars, ttl>>

AgeInit == FIFOInit /\ ttl \in TTLs

Expired(k, ts) == ts - mapping[k].timestamp > ttl

\* Faulty variant of CheckExpired: only the slot of the hash map is cleared.
CheckExpiredInMap(k, ts) ==
  /\ loop = "idle"
  /\ k \in DOMAIN mapping
  /\ Expired(k, ts)
  /\ Advance(ts)
  /\ mapping' = Restrict(mapping, DOMAIN mapping \ {k})
  /\ Forget
  /\ UNCHANGED <<list, current_size, cache_item_count, cache_filled_once, loop, ttl>>

\* check on an object whose time is up.
CheckExpired(k, ts) ==
  /\ loop = "idle"
  /\ k \in DOMAIN mapping
  /\ Expired(k, ts)
  /\ Advance(ts)
  /\ Erase(k)
  /\ Forget
  /\ UNCHANGED <<cache_filled_once, loop, ttl>>

\* check on an object whose time is not up, then get.
CheckAndGet(k, ts) ==
  /\ k \in DOMAIN mapping
  /\ ~Expired(k, ts)
  /\ FIFOGet(k, ts)
  /\ UNCHANGED ttl

AgePut(k, d, ts) == FIFOPut(k, d, ts) /\ UNCHANGED ttl

AgeHourlyPurging(ts) == FIFOHourlyPurging(ts) /\ UNCHANGED ttl

AgeWork == FIFOWork /\ UNCHANGED ttl

AgeNext ==
  \/ \E k \in Keys, ts \in 0..MaxTime : CheckExpired(k, ts) \/ CheckAndGet(k, ts)
  \/ \E k \in Keys, d \in Sizes, ts \in 0..MaxTime : AgePut(k, d, ts)
  \/ \E ts \in 0..MaxTime : AgeHourlyPurging(ts)
  \/ AgeWork

AgeSpec == AgeInit /\ [][AgeNext]_ageVars
==============================================================================
